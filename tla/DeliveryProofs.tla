--------------------------- MODULE DeliveryProofs ---------------------------
(***************************************************************************)
(* What holds of a sale for any number of customers, orders, items and     *)
(* workers, any queue and any number of faults: orders, stock, ledger and  *)
(* wallets agree, the promise of module Sale is kept, and a secret reaches *)
(* one order's customer only, once, before an administrator steps in.      *)
(***************************************************************************)
EXTENDS MCDelivery, FiniteSums

-----------------------------------------------------------------------------
(* The price of an order of a batch.                                       *)

(* A share of a discount that does not exceed the subtotal does not exceed *)
(* the unit price: no order of a batch gets a negative price.              *)
LEMMA ShareBound ==
    ASSUME NEW unit \in Nat, NEW discount \in Nat, NEW quantity \in Nat,
           NEW index \in Nat, quantity > 0, discount <= unit * quantity
    PROVE  /\ DiscountShare(discount, quantity, index) \in Nat
           /\ DiscountShare(discount, quantity, index) <= unit
<1> DEFINE d == discount \div quantity
           m == discount % quantity
<1>1. d \in Nat /\ m \in Nat /\ discount = quantity * d + m
  OBVIOUS
<1>2. quantity * d <= unit * quantity
  BY <1>1
<1>3. d <= unit
  BY <1>1, <1>2
<1>4. ASSUME m > 0 PROVE d < unit
  BY <1>1, <1>3, <1>4
<1> QED
  BY <1>1, <1>3, <1>4 DEF DiscountShare

LEMMA BatchIsFinite ==
    ASSUME NEW o \in Orders
    PROVE  /\ BatchOf[o] \in SUBSET Orders
           /\ Cardinality(BatchOf[o]) \in Nat
           /\ Cardinality(BatchOf[o]) > 0
<1>1. BatchOf[o] \in SUBSET Orders /\ o \in BatchOf[o]
  BY BatchesPartitionOrders
<1>2. IsFiniteSet(BatchOf[o])
  BY <1>1, KeysAreNumbers, FS_Subset
<1> QED
  BY <1>1, <1>2, FS_CardinalityType, FS_EmptySet

(* totalAmount is a natural number for every order of a batch.             *)
LEMMA TotalsType ==
    ASSUME NEW o \in Orders, NEW unit \in Nat, NEW discount \in Nat,
           discount <= unit * Cardinality(BatchOf[o])
    PROVE  Totals(BatchOf[o], unit, discount) \in [BatchOf[o] -> Nat]
<1> SUFFICES ASSUME NEW p \in BatchOf[o]
             PROVE  unit - DiscountShare(discount, Cardinality(BatchOf[o]),
                                         IndexIn(p, BatchOf[o])) \in Nat
  BY DEF Totals
<1>1. {q \in BatchOf[o] : q < p} \in SUBSET Orders
  BY BatchIsFinite
<1>2. IndexIn(p, BatchOf[o]) \in Nat
  BY <1>1, KeysAreNumbers, FS_Subset, FS_CardinalityType DEF IndexIn
<1>3. Cardinality(BatchOf[o]) \in Nat /\ Cardinality(BatchOf[o]) > 0
  BY BatchIsFinite
<1>4. LET share == DiscountShare(discount, Cardinality(BatchOf[o]),
                                 IndexIn(p, BatchOf[o]))
      IN  share \in Nat /\ share <= unit
  BY <1>2, <1>3, ShareBound
<1> QED
  BY <1>4

(* What the orders of a discounted batch cost adds up to what is charged:  *)
(* the shares of the discount add up to it, whatever the remainder.        *)
LEMMA SharesAddUpTo ==
    ASSUME NEW b \in SUBSET Nat, IsFiniteSet(b), b # {},
           NEW unit \in Nat, NEW discount \in Nat, NEW f,
           \A p \in b : f[p] = unit - DiscountShare(discount, Cardinality(b),
                                                    IndexIn(p, b))
    PROVE  SumMap(f, b) = unit * Cardinality(b) - discount
<1> DEFINE n == Cardinality(b)
           q == discount \div n
           m == discount % n
           extra(k) == IF k < m THEN k ELSE m
           cost(k) == unit * k - (q * k + extra(k))
           Closed(s) == \A x \in s : \A y \in b : y < x => y \in s
           Good == {s \in SUBSET b : Closed(s) =>
                                     SumMap(f, s) = cost(Cardinality(s))}
<1>1. n \in Nat /\ n > 0
  BY FS_CardinalityType, FS_EmptySet
<1>2. q \in Nat /\ m \in Nat /\ m < n /\ discount = n * q + m
  BY <1>1
<1>3. \A s \in SUBSET b : IsFiniteSet(s) /\ Cardinality(s) \in Nat
  BY FS_Subset, FS_CardinalityType
<1>4. \A p \in b : f[p] \in Int
  <2> SUFFICES ASSUME NEW p \in b PROVE f[p] \in Int
    OBVIOUS
  <2>1. DiscountShare(discount, n, IndexIn(p, b)) \in Int
    <3> HIDE DEF n
    <3>1. DiscountShare(discount, n, IndexIn(p, b))
            = q + (IF IndexIn(p, b) < m THEN 1 ELSE 0)
      BY DEF DiscountShare
    <3> HIDE DEF q, m
    <3> QED
      BY <1>2, <3>1
  <2> HIDE DEF n
  <2>2. f[p] = unit - DiscountShare(discount, n, IndexIn(p, b))
    BY DEF n
  <2> QED
    BY <2>1, <2>2
<1>5. ASSUME NEW s \in SUBSET b, \A t \in SUBSET s : t # s => t \in Good
      PROVE  s \in Good
  <2> SUFFICES ASSUME Closed(s) PROVE SumMap(f, s) = cost(Cardinality(s))
    OBVIOUS
  <2>1. CASE s = {}
    <3>1. SumMap(f, {}) = 0 /\ Cardinality({}) = 0
      BY SumOfNone, FS_EmptySet
    <3>2. cost(0) = 0
      <4> HIDE DEF q, m
      <4> QED
        BY <1>2
    <3> HIDE DEF cost
    <3> QED
      BY <2>1, <3>1, <3>2
  <2>2. CASE s # {}
    <3>1. PICK x \in s : \A y \in s : y <= x
      BY <1>3, <2>2, LargestIn
    <3> DEFINE t == s \ {x}
               k == Cardinality(t)
    <3>2. t \in Good
      BY <1>5
    <3>3. Closed(t)
      BY <3>1
    <3>4. SumMap(f, t) = cost(k)
      <4> HIDE DEF cost, Closed
      <4> QED
        BY <3>2, <3>3
    <3>5. {p \in b : p < x} = t
      <4> SUFFICES ASSUME NEW y \in b PROVE y < x <=> y \in s /\ y # x
        OBVIOUS
      <4>1. x \in Nat /\ y \in Nat
        OBVIOUS
      <4>2. y < x => y \in s
        OBVIOUS
      <4>3. y \in s => y <= x
        BY <3>1
      <4> QED
        BY <4>1, <4>2, <4>3
    <3>6. IndexIn(x, b) = k
      <4> HIDE DEF t
      <4> QED
        BY <3>5 DEF IndexIn
    <3>7. k \in Nat /\ Cardinality(s) = k + 1
      <4>1. k \in Nat
        BY <1>3
      <4>2. Cardinality(s) = Cardinality(t) + 1
        <5>1. IsFiniteSet(t) /\ x \notin t /\ s = t \cup {x}
          BY <1>3
        <5> HIDE DEF t
        <5> QED
          BY <5>1, FS_AddElement
      <4> QED
        BY <4>1, <4>2
    <3>8. f[x] = unit - (q + (IF k < m THEN 1 ELSE 0))
      <4> HIDE DEF n, k
      <4>1. f[x] = unit - DiscountShare(discount, n, IndexIn(x, b))
        BY DEF n
      <4> QED
        BY <3>6, <4>1 DEF DiscountShare
    <3>9. SumMap(f, s) = f[x] + SumMap(f, t)
      BY <1>3, <1>4, SumStep
    <3> HIDE DEF k, t, q, m, n
    <3>10. cost(k + 1) = (unit - (q + (IF k < m THEN 1 ELSE 0))) + cost(k)
      <4>1. unit * (k + 1) = unit * k + unit /\ q * (k + 1) = q * k + q
        BY <1>2, <3>7
      <4>2. unit * k \in Nat /\ q * k \in Nat
        BY <1>2, <3>7
      <4>3. extra(k + 1) = extra(k) + (IF k < m THEN 1 ELSE 0)
        BY <1>2, <3>7
      <4>4. extra(k) \in Nat
        BY <1>2, <3>7
      <4> HIDE DEF extra
      <4> QED
        BY <1>2, <4>1, <4>2, <4>3, <4>4
    <3> HIDE DEF cost
    <3> QED
      BY <3>4, <3>7, <3>8, <3>9, <3>10
  <2> QED
    BY <2>1, <2>2
<1>6. SUBSET b \subseteq Good
  <2> HIDE DEF Good
  <2> QED
    BY <1>5, SubsetInduction
<1>7. b \in Good
  BY <1>6
<1>8. SumMap(f, b) = cost(n)
  <2> HIDE DEF cost
  <2> QED
    BY <1>7
<1> HIDE DEF n, q, m
<1>9. cost(n) = unit * n - discount
  <2>1. unit * n \in Nat /\ n * q \in Nat /\ q * n = n * q
    BY <1>1, <1>2
  <2> QED
    BY <1>1, <1>2, <2>1
<1> HIDE DEF cost
<1> QED
  BY <1>8, <1>9 DEF n

-----------------------------------------------------------------------------
(* Type correctness.                                                       *)

LEMMA MoveType ==
    ASSUME StoreTypeOK, NEW S, NEW from, NEW to \in OrderStatus,
           Move(S, from, to)
    PROVE  status' \in [Orders -> OrderStatus]
BY DEF StoreTypeOK, Move

LEMMA FaultType ==
    ASSUME faults \in 0..MaxFaults, Fault \/ UNCHANGED faults
    PROVE  faults' \in 0..MaxFaults
BY RuntimeIsKnown DEF Fault

(* The transactions of the shop keep the types of the collections.         *)
LEMMA PlaceType ==
    ASSUME StoreTypeOK, NEW o \in Orders, NEW tot \in [BatchOf[o] -> Nat],
           NEW charge \in Int, PlaceOrders(BatchOf[o], Buyer[o], tot, charge)
    PROVE  StoreTypeOK'
<1> DEFINE b == BatchOf[o]
<1>1. b \in SUBSET Orders /\ Buyer[o] \in Users
  BY BatchesPartitionOrders
<1>2. PICK pick \in [b -> Shelf] :
         /\ goods' = [p \in Orders |-> IF p \in b THEN pick[p] ELSE goods[p]]
         /\ stock' = [i \in Items |-> IF \E p \in b : pick[p] = i
                                      THEN "RESERVED" ELSE stock[i]]
         /\ reservedFor' = [p \in Orders |->
               IF p \in b THEN reservedFor[p] \cup {pick[p]}
                          ELSE reservedFor[p]]
  BY DEF PlaceOrders
<1>3. \A p \in b : pick[p] \in Items
  BY <1>2 DEF Shelf
<1>4. goods' \in [Orders -> Items \cup {NoItem}]
  BY <1>1, <1>2, <1>3 DEF StoreTypeOK
<1>5. stock' \in [Items -> ItemStatus]
  BY <1>2 DEF StoreTypeOK, ItemStatus
<1>6. reservedFor' \in [Orders -> SUBSET Items]
  BY <1>1, <1>2, <1>3 DEF StoreTypeOK
<1>7. /\ status' \in [Orders -> OrderStatus]
      /\ total' \in [Orders -> Nat]
      /\ balance' \in [Users -> Int]
      /\ recovery' \in [Orders -> RecoveryAction]
      /\ active' \in SUBSET Users
  BY <1>1 DEF PlaceOrders, StoreTypeOK, OrderStatus
<1>8. ledger' \in [LedgerKey -> [Orders -> Int]]
  BY <1>1 DEF PlaceOrders, StoreTypeOK, LedgerKey
<1> QED
  BY <1>4, <1>5, <1>6, <1>7, <1>8 DEF StoreTypeOK

LEMMA CreditType ==
    ASSUME StoreTypeOK, NEW o \in Orders, NEW key \in LedgerKey,
           Credit(key, o)
    PROVE  /\ balance' \in [Users -> Int]
           /\ ledger' \in [LedgerKey -> [Orders -> Int]]
<1>1. Buyer[o] \in Users
  BY BatchesPartitionOrders
<1> QED
  BY <1>1 DEF Credit, StoreTypeOK

LEMMA ReleaseType ==
    ASSUME StoreTypeOK, NEW i \in Items, NEW o \in Orders,
           ReleaseReservation(i, o)
    PROVE  StoreTypeOK'
<1>1. /\ balance' \in [Users -> Int]
      /\ ledger' \in [LedgerKey -> [Orders -> Int]]
  <2>1. CASE Credit("reservation-expired", o)
    BY <2>1, CreditType DEF LedgerKey
  <2>2. CASE UNCHANGED <<balance, ledger>>
    BY <2>2 DEF StoreTypeOK
  <2> QED
    BY <2>1, <2>2 DEF ReleaseReservation
<1> QED
  BY <1>1 DEF ReleaseReservation, StoreTypeOK, OrderStatus, ItemStatus

LEMMA RecoverType ==
    ASSUME StoreTypeOK, NEW o \in Orders,
           MarkResend(o) \/ MarkReplace(o) \/ Refund(o)
    PROVE  StoreTypeOK'
<1>1. CASE MarkResend(o)
  BY <1>1 DEF MarkResend, StoreTypeOK, OrderStatus, RecoveryAction
<1>2. CASE MarkReplace(o)
  BY <1>2 DEF MarkReplace, Shelf, StoreTypeOK, OrderStatus, ItemStatus,
              RecoveryAction
<1>3. CASE Refund(o)
  <2>1. /\ balance' \in [Users -> Int]
        /\ ledger' \in [LedgerKey -> [Orders -> Int]]
    <3>1. CASE Credit("delivery-refund", o)
      BY <3>1, CreditType DEF LedgerKey
    <3>2. CASE UNCHANGED <<balance, ledger>>
      BY <3>2 DEF StoreTypeOK
    <3> QED
      BY <1>3, <3>1, <3>2 DEF Refund
  <2> QED
    BY <1>3, <2>1 DEF Refund, StoreTypeOK, OrderStatus, ItemStatus,
                      RecoveryAction
<1> QED
  BY <1>1, <1>2, <1>3

(* The ends of a worker's step.                                            *)
LEMMA GotoType ==
    ASSUME WorkerTypeOK, NEW w \in Workers, NEW label \in PC,
           job[w] \in Orders, label # "send", Goto(w, label)
    PROVE  WorkerTypeOK'
BY DEF WorkerTypeOK, Goto

LEMMA IdleType ==
    ASSUME WorkerTypeOK, NEW w \in Workers, Idle(w)
    PROVE  WorkerTypeOK'
<1>1. NoParcel \in [Orders -> Items \cup {NoItem}]
  BY DEF NoParcel
<1> QED
  BY <1>1 DEF WorkerTypeOK, Idle, PC

LEMMA UnrecoverableType ==
    ASSUME WorkerTypeOK, tasks \in SUBSET Orders, NEW w \in Workers,
           job[w] \in Orders, Unrecoverable(w)
    PROVE  WorkerTypeOK' /\ tasks' \in SUBSET Orders
<1>1. NoParcel \in [Orders -> Items \cup {NoItem}]
  BY DEF NoParcel
<1>2. WorkerTypeOK'
  BY <1>1 DEF WorkerTypeOK, Unrecoverable, PC
<1> QED
  BY <1>2 DEF Unrecoverable, GiveUp

LEMMA FinishType ==
    ASSUME WorkerTypeOK, tasks \in SUBSET Orders, NEW w \in Workers, Finish(w)
    PROVE  WorkerTypeOK' /\ tasks' \in SUBSET Orders
BY IdleType DEF Finish

LEMMA RethrowType ==
    ASSUME WorkerTypeOK, tasks \in SUBSET Orders, NEW w \in Workers,
           job[w] \in Orders, Rethrow(w)
    PROVE  WorkerTypeOK' /\ tasks' \in SUBSET Orders
BY IdleType, FinishType, UnrecoverableType DEF Rethrow

LEMMA EndOfFailureType ==
    ASSUME WorkerTypeOK, tasks \in SUBSET Orders, NEW w \in Workers,
           EndOfFailure(w)
    PROVE  WorkerTypeOK' /\ tasks' \in SUBSET Orders
BY IdleType DEF EndOfFailure

(* The database as a worker leaves it.                                     *)
LEMMA StatusOnlyType ==
    ASSUME StoreTypeOK, StatusOnly, status' \in [Orders -> OrderStatus]
    PROVE  StoreTypeOK'
BY DEF StoreTypeOK, StatusOnly

LEMMA StoreUnchangedType ==
    ASSUME StoreTypeOK, UNCHANGED storeVars
    PROVE  StoreTypeOK'
BY DEF StoreTypeOK, storeVars

LEMMA WorkersUnchangedType ==
    ASSUME WorkerTypeOK, UNCHANGED workerVars
    PROVE  WorkerTypeOK'
BY DEF WorkerTypeOK, workerVars

LEMMA TypeInit == Init => TypeOK
<1> SUFFICES ASSUME Init PROVE TypeOK
  OBVIOUS
<1>1. StoreTypeOK
  BY AmountsAreNaturals DEF Init, StoreInit, StoreTypeOK, OrderStatus,
                            ItemStatus, RecoveryAction, LedgerKey
<1>2. QueueTypeOK /\ disclosed \in SUBSET (Orders \X Items)
  BY DEF Init, QueueTypeOK
<1>3. WorkerTypeOK
  BY DEF Init, WorkerTypeOK, PC, NoParcel
<1>4. faults \in 0..MaxFaults
  BY RuntimeIsKnown DEF Init
<1> QED
  BY <1>1, <1>2, <1>3, <1>4 DEF TypeOK

LEMMA ShopType ==
    ASSUME TypeOK, Shop PROVE TypeOK'
<1> PICK o \in Orders : \/ PurchaseOne(o) \/ PurchaseBatch(o)
                        \/ RepeatPurchase(o) \/ Dispatch(o)
  BY DEF Shop
<1> USE DEF TypeOK
<1>1. CASE PurchaseOne(o)
  <2>1. PICK unit \in Prices \ {0} :
          PlaceOrders({o}, Buyer[o], [p \in {o} |-> unit], unit)
    BY <1>1 DEF PurchaseOne, BuyOne
  <2>2. BatchOf[o] = {o}
    BY <1>1, RuntimeIsKnown DEF PurchaseOne
  <2>0. unit \in Nat
    BY AmountsAreNaturals
  <2>3. [p \in {o} |-> unit] \in [BatchOf[o] -> Nat] /\ unit \in Int
    BY <2>0, <2>2
  <2>4. PlaceOrders(BatchOf[o], Buyer[o], [p \in {o} |-> unit], unit)
    BY <2>1, <2>2
  <2>5. StoreTypeOK'
    BY <2>3, <2>4, PlaceType
  <2> QED
    BY <1>1, <2>5, WorkersUnchangedType, FaultType DEF PurchaseOne, QueueTypeOK
<1>2. CASE PurchaseBatch(o)
  <2>1. PICK unit \in Prices \ {0}, discount \in Discounts :
          /\ discount <= unit * Cardinality(BatchOf[o])
          /\ PlaceOrders(BatchOf[o], Buyer[o],
                         Totals(BatchOf[o], unit, discount),
                         unit * Cardinality(BatchOf[o]) - discount)
    BY <1>2 DEF PurchaseBatch, BuyBatch
  <2>2. unit \in Nat /\ discount \in Nat
    BY AmountsAreNaturals
  <2>3. unit * Cardinality(BatchOf[o]) - discount \in Int
    BY <2>2, BatchIsFinite
  <2>4. StoreTypeOK'
    BY <2>1, <2>2, <2>3, TotalsType, PlaceType
  <2>5. ToDispatch(BatchOf[o]) \in SUBSET Orders
    BY BatchIsFinite DEF ToDispatch
  <2> QED
    BY <1>2, <2>4, <2>5, WorkersUnchangedType, FaultType
       DEF PurchaseBatch, QueueTypeOK
<1>3. CASE RepeatPurchase(o)
  BY <1>3, StoreUnchangedType, WorkersUnchangedType, FaultType
     DEF RepeatPurchase, QueueTypeOK
<1>4. CASE Dispatch(o)
  BY <1>4, StoreUnchangedType, WorkersUnchangedType, FaultType
     DEF Dispatch, Publish, QueueTypeOK
<1> QED
  BY <1>1, <1>2, <1>3, <1>4

LEMMA AdministerType ==
    ASSUME TypeOK, Administer PROVE TypeOK'
<1> USE DEF TypeOK
<1>1. ASSUME NEW o \in Orders, Resend(o) \/ Replace(o) \/ RefundOrder(o)
      PROVE  TypeOK'
  BY <1>1, RecoverType, WorkersUnchangedType, FaultType
     DEF Resend, Replace, RefundOrder, queueVars, QueueTypeOK
<1>2. ASSUME NEW o \in Orders, Requeue(o) PROVE TypeOK'
  BY <1>2, StoreUnchangedType, WorkersUnchangedType, FaultType
     DEF Requeue, Publish, QueueTypeOK
<1>3. ASSUME NEW o \in Orders, RequeueFails(o) PROVE TypeOK'
  <2>1. status' \in [Orders -> OrderStatus]
    BY <1>3, MoveType DEF RequeueFails, OrderStatus
  <2> QED
    BY <1>3, <2>1, StatusOnlyType, WorkersUnchangedType, FaultType
       DEF RequeueFails, QueueTypeOK
<1>4. ASSUME NEW i \in Items, ReleaseExpired(i) PROVE TypeOK'
  BY <1>4, ReleaseType, WorkersUnchangedType, FaultType
     DEF ReleaseExpired, queueVars, QueueTypeOK
<1>5. ASSUME Housekeeping PROVE TypeOK'
  <2>1. StoreTypeOK'
    BY <1>5, RuntimeIsKnown
       DEF Housekeeping, RemoveItem, ToggleUser, StoreTypeOK, ItemStatus
  <2> QED
    BY <1>5, <2>1, WorkersUnchangedType, FaultType
       DEF Housekeeping, queueVars, QueueTypeOK
<1> QED
  BY <1>1, <1>2, <1>3, <1>4, <1>5 DEF Administer

LEMMA MaintainType ==
    ASSUME TypeOK, Maintain PROVE TypeOK'
BY StoreUnchangedType, WorkersUnchangedType, FaultType
   DEF TypeOK, Maintain, MaintenanceRead, MaintenancePublish, Publish,
       QueueTypeOK

LEMMA TakeType ==
    ASSUME TypeOK, NEW w \in Workers, NEW o \in Orders, Take(w, o)
    PROVE  TypeOK'
<1>1. Start(o) \in PC \ {"idle", "send"}
  BY DEF Start, PC
<1>2. WorkerTypeOK'
  <2>1. UNCHANGED <<batch, parcel>> /\ pc[w] = "idle"
    BY DEF Take
  <2>2. CASE UNCHANGED <<pc, job>>
    BY <2>1, <2>2 DEF TypeOK, WorkerTypeOK
  <2>3. CASE /\ job' = [job EXCEPT ![w] = o]
             /\ pc' = [pc EXCEPT ![w] = Start(o)]
    <3>1. /\ pc' \in [Workers -> PC]
          /\ job' \in [Workers -> Orders \cup {NoOrder}]
      BY <1>1, <2>3 DEF TypeOK, WorkerTypeOK
    <3>2. \A v \in Workers : pc'[v] # "idle" => job'[v] \in Orders
      BY <1>1, <2>3 DEF TypeOK, WorkerTypeOK
    <3>3. \A v \in Workers : pc'[v] = "send" => v # w /\ pc[v] = "send"
      BY <1>1, <2>3 DEF TypeOK, WorkerTypeOK
    <3>. QED  BY <2>1, <3>1, <3>2, <3>3 DEF TypeOK, WorkerTypeOK
  <2>. QED  BY <2>2, <2>3 DEF Take
<1>3. tasks' \in SUBSET Orders
  BY DEF Take, GiveUp, TypeOK, QueueTypeOK
<1> QED
  BY <1>2, <1>3, StoreUnchangedType, FaultType
     DEF Take, QueueOnly, TypeOK, QueueTypeOK

(* What every step of a worker at work shares.                             *)
LEMMA WorkType ==
    ASSUME TypeOK, NEW w \in Workers, StoreTypeOK', WorkerTypeOK',
           tasks' \in SUBSET Orders, QueueOnly,
           disclosed' \in SUBSET (Orders \X Items),
           Fault \/ UNCHANGED faults
    PROVE  TypeOK'
BY FaultType DEF TypeOK, QueueTypeOK, QueueOnly

LEMMA SentType ==
    ASSUME TypeOK, NEW w \in Workers, pc[w] = "send"
    PROVE  Sent(w) \in SUBSET (Orders \X Items)
BY DEF TypeOK, WorkerTypeOK, Sent

LEMMA AdvanceType ==
    ASSUME TypeOK, NEW w \in Workers, Advance(w)
    PROVE  TypeOK'
<1>1. /\ StoreTypeOK /\ WorkerTypeOK /\ tasks \in SUBSET Orders
      /\ disclosed \in SUBSET (Orders \X Items)
  BY DEF TypeOK, QueueTypeOK
<1>2. pc[w] # "idle" => job[w] \in Orders
  BY <1>1 DEF WorkerTypeOK
<1>3. CASE FindRoot(w)
  <2>1. pc[w] # "idle"
    BY <1>3 DEF FindRoot
  <2>2. WorkerTypeOK' /\ tasks' \in SUBSET Orders
    BY <1>1, <1>2, <1>3, <2>1, FinishType, UnrecoverableType, GotoType
       DEF FindRoot, PC
  <2> QED
    BY <1>1, <1>3, <2>2, StoreUnchangedType, WorkType DEF FindRoot
<1>4. CASE Claim(w)
  <2>1. pc[w] # "idle"
    BY <1>4 DEF Claim
  <2>2. status' \in [Orders -> OrderStatus]
    BY <1>1, <1>4 DEF Claim, StoreTypeOK, OrderStatus
  <2>3. WorkerTypeOK'
    <3>1. CASE Goto(w, "recheck")
      BY <1>1, <1>2, <2>1, <3>1, GotoType DEF PC
    <3>2. CASE /\ UNCHANGED <<batch, job, parcel>>
               /\ pc' = [pc EXCEPT ![w] = "gather"]
      BY <1>1, <1>2, <2>1, <3>2 DEF WorkerTypeOK, PC
    <3>3. CASE /\ UNCHANGED <<job, parcel>>
               /\ pc' = [pc EXCEPT ![w] = "mark"]
               /\ batch' = [batch EXCEPT ![w] = {job[w]}]
      BY <1>1, <1>2, <2>1, <3>3 DEF WorkerTypeOK, PC
    <3> QED
      BY <1>4, <3>1, <3>2, <3>3 DEF Claim
  <2> QED
    BY <1>1, <1>4, <2>2, <2>3, StatusOnlyType, WorkType DEF Claim
<1>5. CASE Recheck(w)
  <2>1. pc[w] # "idle"
    BY <1>5 DEF Recheck
  <2>2. WorkerTypeOK' /\ tasks' \in SUBSET Orders
    BY <1>1, <1>2, <1>5, <2>1, FinishType, UnrecoverableType DEF Recheck
  <2> QED
    BY <1>1, <1>5, <2>2, StoreUnchangedType, WorkType DEF Recheck
<1>6. CASE Gather(w)
  <2>1. pc[w] # "idle"
    BY <1>6 DEF Gather
  <2>2. OpenIn(Group(job[w])) \in SUBSET Orders
    BY <1>2, <2>1, BatchesPartitionOrders DEF OpenIn, Group
  <2>3. CASE Finish(w)
    BY <1>1, <1>6, <2>3, FinishType, StoreUnchangedType, WorkType DEF Gather
  <2>4. CASE /\ pc' = [pc EXCEPT ![w] = "mark"]
             /\ batch' = [batch EXCEPT ![w] = OpenIn(Group(job[w]))]
             /\ UNCHANGED <<tasks, job, parcel>>
    <3>1. WorkerTypeOK'
      BY <1>1, <1>2, <2>1, <2>2, <2>4 DEF WorkerTypeOK, PC
    <3> QED
      BY <1>1, <1>6, <2>4, <3>1, StoreUnchangedType, WorkType DEF Gather
  <2> QED
    BY <1>6, <2>3, <2>4 DEF Gather
<1>7. CASE Mark(w)
  <2>1. pc[w] # "idle"
    BY <1>7 DEF Mark
  <2>2. status' \in [Orders -> OrderStatus]
    BY <1>1, <1>7, MoveType DEF Mark, OrderStatus
  <2>3. WorkerTypeOK'
    BY <1>1, <1>2, <1>7, <2>1, GotoType DEF Mark, PC
  <2> QED
    BY <1>1, <1>7, <2>2, <2>3, StatusOnlyType, WorkType DEF Mark
<1>8. CASE Load(w)
  <2>1. pc[w] # "idle"
    BY <1>8 DEF Load
  <2>2. WorkerTypeOK' /\ tasks' \in SUBSET Orders
    <3>1. CASE Unrecoverable(w)
      BY <1>1, <1>2, <2>1, <3>1, UnrecoverableType
    <3>2. CASE ~Unrecoverable(w)
      <4>1. PICK pick \in [batch[w] -> Items] :
              /\ parcel' = [parcel EXCEPT ![w] =
                    [o \in Orders |->
                        IF o \in batch[w] THEN pick[o] ELSE NoItem]]
              /\ pc' = [pc EXCEPT ![w] = "send"]
              /\ UNCHANGED <<tasks, job, batch>>
        BY <1>8, <3>2 DEF Load
      <4>2. batch[w] \in SUBSET Orders
        BY <1>1 DEF WorkerTypeOK
      <4>3. [o \in Orders |-> IF o \in batch[w] THEN pick[o] ELSE NoItem]
              \in [Orders -> Items \cup {NoItem}]
        BY <4>2
      <4>4. /\ parcel'[w] = [o \in Orders |->
                                IF o \in batch[w] THEN pick[o] ELSE NoItem]
            /\ parcel' \in [Workers -> [Orders -> Items \cup {NoItem}]]
            /\ \A v \in Workers \ {w} : parcel'[v] = parcel[v]
        BY <1>1, <4>1, <4>3 DEF WorkerTypeOK
      <4>5. \A o \in batch[w] : parcel'[w][o] \in Items
        BY <4>2, <4>4
      <4>6. WorkerTypeOK'
        BY <1>1, <1>2, <2>1, <4>1, <4>4, <4>5 DEF WorkerTypeOK, PC
      <4> QED
        BY <1>1, <4>1, <4>6
    <3> QED
      BY <3>1, <3>2
  <2> QED
    BY <1>1, <1>8, <2>2, StoreUnchangedType, WorkType DEF Load
<1>9. CASE Send(w)
  <2>1. pc[w] = "send"
    BY <1>9 DEF Send
  <2>2. WorkerTypeOK' /\ tasks' \in SUBSET Orders
    BY <1>1, <1>2, <1>9, <2>1, GotoType, UnrecoverableType DEF Send, PC
  <2>3. disclosed' \in SUBSET (Orders \X Items)
    BY <1>1, <1>9, <2>1, SentType DEF Send
  <2> QED
    BY <1>1, <1>9, <2>2, <2>3, StoreUnchangedType, WorkType DEF Send
<1>10. CASE Confirm(w)
  <2>1. pc[w] # "idle"
    BY <1>10 DEF Confirm
  <2>2. WorkerTypeOK' /\ tasks' \in SUBSET Orders
    BY <1>1, <1>2, <1>10, <2>1, IdleType, FinishType, UnrecoverableType
       DEF Confirm
  <2>3. StoreTypeOK'
    <3>1. CASE UNCHANGED storeVars
      BY <1>1, <3>1, StoreUnchangedType
    <3>2. CASE /\ stock' = [i \in Items |->
                              IF \E o \in batch[w] : parcel[w][o] = i
                              THEN "SOLD" ELSE stock[i]]
               /\ Move(batch[w], OrderStatus, "DELIVERED")
               /\ UNCHANGED <<goods, total, recovery, reservedFor, balance,
                              active, ledger>>
      <4>1. status' \in [Orders -> OrderStatus]
        BY <1>1, <3>2, MoveType DEF OrderStatus
      <4> QED
        BY <1>1, <3>2, <4>1 DEF StoreTypeOK, ItemStatus
    <3> QED
      BY <1>10, <3>1, <3>2 DEF Confirm
  <2> QED
    BY <1>1, <1>10, <2>2, <2>3, WorkType DEF Confirm
<1>11. CASE Reset(w)
  <2>1. pc[w] # "idle"
    BY <1>11 DEF Reset
  <2>2. status' \in [Orders -> OrderStatus]
    BY <1>1, <1>11, MoveType DEF Reset, OrderStatus
  <2>3. WorkerTypeOK' /\ tasks' \in SUBSET Orders
    BY <1>1, <1>2, <1>11, <2>1, RethrowType DEF Reset
  <2> QED
    BY <1>1, <1>11, <2>2, <2>3, StatusOnlyType, WorkType DEF Reset
<1>12. CASE Reject(w)
  <2>1. pc[w] # "idle"
    BY <1>12 DEF Reject
  <2>2. status' \in [Orders -> OrderStatus]
    BY <1>1, <1>12, MoveType DEF Reject, OrderStatus
  <2>3. WorkerTypeOK' /\ tasks' \in SUBSET Orders
    BY <1>1, <1>2, <1>12, <2>1, GotoType, EndOfFailureType DEF Reject, PC
  <2> QED
    BY <1>1, <1>12, <2>2, <2>3, StatusOnlyType, WorkType DEF Reject
<1>13. CASE RejectGroup(w)
  <2>1. status' \in [Orders -> OrderStatus]
    BY <1>1, <1>13, MoveType DEF RejectGroup, OrderStatus
  <2>2. WorkerTypeOK' /\ tasks' \in SUBSET Orders
    BY <1>1, <1>13, EndOfFailureType DEF RejectGroup
  <2> QED
    BY <1>1, <1>13, <2>1, <2>2, StatusOnlyType, WorkType DEF RejectGroup
<1> QED
  BY <1>3, <1>4, <1>5, <1>6, <1>7, <1>8, <1>9, <1>10, <1>11, <1>12, <1>13
     DEF Advance

LEMMA WorkStepType ==
    ASSUME TypeOK, Work PROVE TypeOK'
<1> PICK w \in Workers : \/ \E o \in Orders : Take(w, o)
                         \/ Advance(w) \/ Crash(w) \/ Fails(w)
  BY DEF Work
<1>1. /\ StoreTypeOK /\ WorkerTypeOK /\ tasks \in SUBSET Orders
      /\ disclosed \in SUBSET (Orders \X Items)
  BY DEF TypeOK, QueueTypeOK
<1>2. CASE Crash(w)
  <2>1. WorkerTypeOK' /\ tasks' \in SUBSET Orders
    BY <1>1, <1>2, IdleType, FinishType DEF Crash
  <2> QED
    BY <1>1, <1>2, <2>1, StoreUnchangedType, WorkType DEF Crash
<1>3. CASE Fails(w)
  <2>1. job[w] \in Orders
    BY <1>1, <1>3 DEF Fails, WorkerTypeOK
  <2>2. WorkerTypeOK' /\ tasks' \in SUBSET Orders
    BY <1>1, <1>3, <2>1, RethrowType DEF Fails
  <2> QED
    BY <1>1, <1>3, <2>2, StoreUnchangedType, WorkType DEF Fails
<1> QED
  BY <1>2, <1>3, TakeType, AdvanceType

LEMMA TypeStep == TypeOK /\ [Next]_vars => TypeOK'
<1> SUFFICES ASSUME TypeOK, [Next]_vars PROVE TypeOK'
  OBVIOUS
<1>1. CASE UNCHANGED vars
  BY <1>1, StoreUnchangedType, WorkersUnchangedType
     DEF vars, queueVars, TypeOK, QueueTypeOK
<1> QED
  BY <1>1, ShopType, AdministerType, MaintainType, WorkStepType DEF Next

(* The model is well typed whatever its parameters: in particular no order *)
(* of a discounted batch has a negative amount, and no worker sends before *)
(* it holds an item for every order of its batch.                          *)
THEOREM TypeCorrect == Spec => []TypeOK
<1> QED
  BY TypeInit, TypeStep, PTL DEF Spec

-----------------------------------------------------------------------------
(* What a step may do to the collections: one of the transactions, or a    *)
(* change of status from one stage of a live order to another.             *)

LiveMove ==
    /\ \A o \in Orders : \/ status'[o] = status[o]
                         \/ status[o] \in Live /\ status'[o] \in Live
    /\ UNCHANGED <<goods, total, stock, reservedFor, balance, ledger>>

HandOver(w) ==
    /\ \A o \in batch[w] : MaySell(o, parcel[w][o])
    /\ stock' = [i \in Items |-> IF \E o \in batch[w] : parcel[w][o] = i
                                 THEN "SOLD" ELSE stock[i]]
    /\ Move(batch[w], OrderStatus, "DELIVERED")
    /\ UNCHANGED <<goods, total, reservedFor, balance, ledger>>

(* What the orders of the batch of o cost, the others nothing.             *)
CostOf(tot, o) == [p \in Orders |-> IF p \in BatchOf[o] THEN tot[p] ELSE 0]

(* A purchase charges what its orders cost together.                       *)
PlaceSome(o) ==
    \E tot \in [BatchOf[o] -> Nat], charge \in Int :
        /\ PlaceOrders(BatchOf[o], Buyer[o], tot, charge)
        /\ SumMap(CostOf(tot, o), BatchOf[o]) = charge

StoreStep ==
    \/ LiveMove
    \/ \E o \in Orders : PlaceSome(o) \/ MarkReplace(o) \/ Refund(o)
    \/ \E i \in Items, o \in Orders : ReleaseReservation(i, o)
    \/ \E i \in Items : RemoveItem(i)
    \/ \E w \in Workers : HandOver(w)

LEMMA UnchangedStep ==
    ASSUME UNCHANGED storeVars PROVE StoreStep
BY DEF storeVars, StoreStep, LiveMove

(* A compare-and-set between the statuses of a live order.                 *)
LEMMA MoveStep ==
    ASSUME StoreTypeOK, NEW S, NEW from \in SUBSET Live, NEW to \in Live,
           Move(S, from, to), StatusOnly
    PROVE  StoreStep
<1>1. \A o \in Orders : status'[o] = IF o \in S /\ status[o] \in from
                                    THEN to ELSE status[o]
  BY DEF Move
<1> QED
  BY <1>1 DEF StoreStep, LiveMove, StatusOnly

LEMMA ShopStep ==
    ASSUME TypeOK, Shop PROVE StoreStep
<1> PICK o \in Orders : \/ PurchaseOne(o) \/ PurchaseBatch(o)
                        \/ RepeatPurchase(o) \/ Dispatch(o)
  BY DEF Shop
<1>1. CASE PurchaseOne(o)
  <2>1. PICK unit \in Prices \ {0} :
          PlaceOrders({o}, Buyer[o], [p \in {o} |-> unit], unit)
    BY <1>1 DEF PurchaseOne, BuyOne
  <2>2. BatchOf[o] = {o}
    BY <1>1, RuntimeIsKnown DEF PurchaseOne
  <2>3. unit \in Nat
    BY AmountsAreNaturals
  <2> DEFINE tot == [p \in {o} |-> unit]
  <2>4. tot \in [BatchOf[o] -> Nat] /\ unit \in Int
    BY <2>2, <2>3
  <2>5. SumMap(CostOf(tot, o), BatchOf[o]) = unit
    <3>1. CostOf(tot, o)[o] = unit
      BY <2>2 DEF CostOf
    <3> QED
      BY <2>2, <2>4, <3>1, SumOfOne
  <2>6. PlaceOrders(BatchOf[o], Buyer[o], tot, unit)
    BY <2>1, <2>2
  <2> HIDE DEF tot
  <2>7. PlaceSome(o)
    BY <2>4, <2>5, <2>6 DEF PlaceSome
  <2> QED
    BY <2>7 DEF StoreStep
<1>2. CASE PurchaseBatch(o)
  <2>1. PICK unit \in Prices \ {0}, discount \in Discounts :
          /\ discount <= unit * Cardinality(BatchOf[o])
          /\ PlaceOrders(BatchOf[o], Buyer[o],
                         Totals(BatchOf[o], unit, discount),
                         unit * Cardinality(BatchOf[o]) - discount)
    BY <1>2 DEF PurchaseBatch, BuyBatch
  <2>2. unit \in Nat /\ discount \in Nat
    BY AmountsAreNaturals
  <2>3. unit * Cardinality(BatchOf[o]) - discount \in Int
    BY <2>2, BatchIsFinite
  <2> DEFINE tot == Totals(BatchOf[o], unit, discount)
             charge == unit * Cardinality(BatchOf[o]) - discount
  <2>4. tot \in [BatchOf[o] -> Nat]
    BY <2>1, <2>2, TotalsType
  <2>5. SumMap(CostOf(tot, o), BatchOf[o]) = charge
    <3> DEFINE f == CostOf(tot, o)
               b == BatchOf[o]
    <3>1. b \in SUBSET Orders /\ b \in SUBSET Nat /\ b # {}
      BY BatchesPartitionOrders, KeysAreNumbers
    <3>2. IsFiniteSet(b)
      BY <3>1, KeysAreNumbers, FS_Subset
    <3>3. \A p \in b : f[p] = unit - DiscountShare(discount, Cardinality(b),
                                                   IndexIn(p, b))
      BY <3>1 DEF CostOf, Totals
    <3> HIDE DEF f, b, tot
    <3>4. SumMap(f, b) = unit * Cardinality(b) - discount
      BY <2>2, <3>1, <3>2, <3>3, SharesAddUpTo
    <3> QED
      BY <3>4 DEF f, b
  <2>6. PlaceOrders(BatchOf[o], Buyer[o], tot, charge)
    BY <2>1
  <2> HIDE DEF tot, charge
  <2>7. charge \in Int
    BY <2>3 DEF charge
  <2>8. PlaceSome(o)
    BY <2>4, <2>5, <2>6, <2>7 DEF PlaceSome
  <2> QED
    BY <2>8 DEF StoreStep
<1>3. CASE RepeatPurchase(o) \/ Dispatch(o)
  BY <1>3, UnchangedStep DEF RepeatPurchase, Dispatch
<1> QED
  BY <1>1, <1>2, <1>3

LEMMA AdministerStep ==
    ASSUME TypeOK, Administer PROVE StoreStep
<1>0. StoreTypeOK
  BY DEF TypeOK
<1>1. ASSUME NEW o \in Orders, Resend(o) PROVE StoreStep
  <2>1. LiveMove
    BY <1>0, <1>1 DEF Resend, MarkResend, Recoverable, LiveMove, Live, Open,
                      StoreTypeOK
  <2> QED
    BY <2>1 DEF StoreStep
<1>2. ASSUME NEW o \in Orders, Replace(o) \/ RefundOrder(o) PROVE StoreStep
  BY <1>2 DEF Replace, RefundOrder, StoreStep
<1>3. ASSUME NEW o \in Orders, Requeue(o) PROVE StoreStep
  BY <1>3, UnchangedStep DEF Requeue
<1>4. ASSUME NEW o \in Orders, RequeueFails(o) PROVE StoreStep
  BY <1>0, <1>4, MoveStep DEF RequeueFails, Live, Open
<1>5. ASSUME NEW i \in Items, ReleaseExpired(i) PROVE StoreStep
  BY <1>5 DEF ReleaseExpired, StoreStep
<1>6. ASSUME Housekeeping PROVE StoreStep
  <2>1. ASSUME NEW u \in Users, ToggleUser(u) PROVE StoreStep
    BY <2>1 DEF ToggleUser, StoreStep, LiveMove
  <2> QED
    BY <1>6, <2>1, RuntimeIsKnown DEF Housekeeping, StoreStep
<1> QED
  BY <1>1, <1>2, <1>3, <1>4, <1>5, <1>6 DEF Administer

LEMMA AdvanceStep ==
    ASSUME TypeOK, NEW w \in Workers, Advance(w) PROVE StoreStep
<1>0. StoreTypeOK
  BY DEF TypeOK
<1>1. CASE FindRoot(w) \/ Recheck(w) \/ Gather(w) \/ Load(w) \/ Send(w)
  BY <1>1, UnchangedStep DEF FindRoot, Recheck, Gather, Load, Send
<1>2. CASE Claim(w)
  <2>1. CASE UNCHANGED status
    BY <1>2, <2>1 DEF Claim, StatusOnly, StoreStep, LiveMove
  <2>2. CASE /\ Claimable(job[w])
             /\ status' = [status EXCEPT ![job[w]] = "DELIVERING"]
    <3>1. LiveMove
      BY <1>0, <1>2, <2>2 DEF Claim, Claimable, StatusOnly, LiveMove, Live,
                              Open, StoreTypeOK
    <3> QED
      BY <3>1 DEF StoreStep
  <2> QED
    BY <1>2, <2>1, <2>2 DEF Claim
<1>3. CASE Mark(w) \/ Reset(w) \/ Reject(w) \/ RejectGroup(w)
  BY <1>0, <1>3, MoveStep DEF Mark, Reset, Reject, RejectGroup, Live, Open
<1>4. CASE Confirm(w)
  <2>1. HandOver(w) \/ UNCHANGED storeVars
    BY <1>4 DEF Confirm, HandOver
  <2> QED
    BY <2>1, UnchangedStep DEF StoreStep
<1> QED
  BY <1>1, <1>2, <1>3, <1>4 DEF Advance

LEMMA NextStep ==
    ASSUME TypeOK, [Next]_vars PROVE StoreStep
<1>1. CASE UNCHANGED vars
  BY <1>1, UnchangedStep DEF vars
<1>2. CASE Maintain
  BY <1>2, UnchangedStep DEF Maintain, MaintenanceRead, MaintenancePublish
<1>3. CASE Work
  <2> PICK w \in Workers : \/ \E o \in Orders : Take(w, o)
                           \/ Advance(w) \/ Crash(w) \/ Fails(w)
    BY <1>3 DEF Work
  <2>1. CASE \/ \E o \in Orders : Take(w, o)
             \/ Crash(w) \/ Fails(w)
    BY <2>1, UnchangedStep DEF Take, Crash, Fails
  <2> QED
    BY <2>1, AdvanceStep
<1> QED
  BY <1>1, <1>2, <1>3, ShopStep, AdministerStep DEF Next

-----------------------------------------------------------------------------
(* Orders, inventory and ledger always agree.                              *)

Agreement == GoodsFollowOrders /\ RowsFollowOrders

LEMMA AgreementInit == Init => Agreement
<1> SUFFICES ASSUME Init PROVE Agreement
  OBVIOUS
<1>1. GoodsFollowOrders
  BY DEF Init, StoreInit, GoodsFollowOrders, LiveOrderHoldsItem, Live, Open,
         SettledOrderLeavesItem, HeldItemHasOneOrder, NoItemIsHeldByNobody
<1>2. RowsFollowOrders
  BY DEF Init, StoreInit, RowsFollowOrders, LedgerKey
<1> QED
  BY <1>1, <1>2 DEF Agreement

LEMMA LiveMoveKeeps ==
    ASSUME StoreTypeOK, Agreement, LiveMove PROVE Agreement'
<1>1. \A o \in Orders : /\ status'[o] \in Live <=> status[o] \in Live
                        /\ \A s \in {"NONE", "DELIVERED", "CANCELLED",
                                     "REFUNDED"} :
                              status'[o] = s <=> status[o] = s
  BY DEF LiveMove, Live, Open
<1>2. LiveOrderHoldsItem' /\ SettledOrderLeavesItem'
  BY <1>1 DEF LiveMove, Agreement, GoodsFollowOrders, LiveOrderHoldsItem,
              SettledOrderLeavesItem
<1>3. HeldItemHasOneOrder'
  BY <1>1 DEF LiveMove, Agreement, GoodsFollowOrders, HeldItemHasOneOrder
<1>4. NoItemIsHeldByNobody'
  BY DEF LiveMove, Agreement, GoodsFollowOrders, NoItemIsHeldByNobody
<1>5. RowsFollowOrders'
  BY <1>1 DEF LiveMove, Agreement, RowsFollowOrders
<1> QED
  BY <1>2, <1>3, <1>4, <1>5 DEF Agreement, GoodsFollowOrders

(* A purchase takes items that are on the shelf, hence in nobody's hands,  *)
(* and gives each of its orders one of its own.                            *)
LEMMA PlaceKeeps ==
    ASSUME StoreTypeOK, Agreement, NEW o \in Orders, PlaceSome(o)
    PROVE  Agreement'
<1> DEFINE b == BatchOf[o]
<1>0. b \in SUBSET Orders
  BY BatchesPartitionOrders
<1>1. PICK tot \in [b -> Nat], charge \in Int :
        PlaceOrders(b, Buyer[o], tot, charge)
  BY DEF PlaceSome
<1>2. PICK pick \in [b -> Shelf] :
         /\ OldestFirst(pick)
         /\ goods' = [p \in Orders |-> IF p \in b THEN pick[p] ELSE goods[p]]
         /\ stock' = [i \in Items |-> IF \E p \in b : pick[p] = i
                                      THEN "RESERVED" ELSE stock[i]]
         /\ reservedFor' = [p \in Orders |->
               IF p \in b THEN reservedFor[p] \cup {pick[p]}
                          ELSE reservedFor[p]]
  BY <1>1 DEF PlaceOrders
<1>3. \A p, q \in b : p # q => pick[p] # pick[q]
  <2> SUFFICES ASSUME NEW p \in b, NEW q \in b, p < q PROVE pick[p] # pick[q]
    BY <1>0, KeysAreNumbers
  <2>1. pick[p] < pick[q]
    BY <1>2 DEF OldestFirst
  <2>2. pick[p] \in Nat /\ pick[q] \in Nat
    BY KeysAreNumbers DEF Shelf
  <2> QED
    BY <2>1, <2>2
<1>4. \A p \in b : pick[p] \in Items /\ stock[pick[p]] = "AVAILABLE"
  BY DEF Shelf
<1>5. \A p \in Orders : status[p] = "NONE" \/ p \notin b
  BY <1>1 DEF PlaceOrders
<1>6. \A p \in Orders :
         status'[p] = IF p \in b THEN "PENDING_DELIVERY" ELSE status[p]
  BY <1>1 DEF PlaceOrders
<1>7. \A p \in b : \A q \in Orders : pick[p] \notin reservedFor[q]
  BY <1>4 DEF Agreement, GoodsFollowOrders, HeldItemHasOneOrder
<1>8. \A p \in Orders \ b :
         /\ status'[p] = status[p] /\ goods'[p] = goods[p]
         /\ reservedFor'[p] = reservedFor[p]
  BY <1>2, <1>6
<1>9. \A p \in b :
         /\ status'[p] = "PENDING_DELIVERY" /\ goods'[p] = pick[p]
         /\ reservedFor'[p] = reservedFor[p] \cup {pick[p]}
         /\ stock'[pick[p]] = "RESERVED"
  BY <1>0, <1>2, <1>4, <1>6
<1>10. \A i \in Items : stock[i] # "AVAILABLE" => stock'[i] = stock[i]
  BY <1>2, <1>4
<1>11. LiveOrderHoldsItem' /\ SettledOrderLeavesItem'
  <2> SUFFICES ASSUME NEW p \in Orders
               PROVE  /\ status'[p] \in Live =>
                            /\ goods'[p] \in Items
                            /\ goods'[p] \in reservedFor'[p]
                            /\ stock'[goods'[p]] = "RESERVED"
                      /\ status'[p] = "DELIVERED" =>
                            /\ goods'[p] \in Items
                            /\ goods'[p] \in reservedFor'[p]
                            /\ stock'[goods'[p]] = "SOLD"
                      /\ status'[p] = "REFUNDED" =>
                            /\ goods'[p] \in Items
                            /\ stock'[goods'[p]] = "DISABLED"
    BY DEF LiveOrderHoldsItem, SettledOrderLeavesItem
  <2>1. CASE p \in b
    BY <1>4, <1>9, <2>1
  <2>2. CASE p \notin b
    BY <1>8, <1>10, <2>2 DEF Agreement, GoodsFollowOrders, LiveOrderHoldsItem,
                             SettledOrderLeavesItem
  <2> QED
    BY <2>1, <2>2
<1>12. HeldItemHasOneOrder'
  <2> SUFFICES ASSUME NEW i \in Items, NEW p \in Orders, i \in reservedFor'[p]
               PROVE  /\ stock'[i] \notin {"AVAILABLE", "DELETED"}
                      /\ stock'[i] \in {"RESERVED", "SOLD"} =>
                            /\ goods'[p] = i
                            /\ status'[p] \in Live \cup {"DELIVERED"}
                      /\ \A q \in Orders \ {p} : i \notin reservedFor'[q]
    BY DEF HeldItemHasOneOrder
  <2>1. CASE p \in b /\ i = pick[p]
    BY <1>3, <1>7, <1>8, <1>9, <2>1 DEF Live, Open
  <2>2. CASE i \in reservedFor[p]
    <3>1. /\ stock[i] \notin {"AVAILABLE", "DELETED"}
          /\ stock[i] \in {"RESERVED", "SOLD"} =>
                /\ goods[p] = i
                /\ status[p] \in Live \cup {"DELIVERED"}
          /\ \A q \in Orders \ {p} : i \notin reservedFor[q]
      BY <2>2 DEF Agreement, GoodsFollowOrders, HeldItemHasOneOrder
    <3>2. \A q \in b : pick[q] # i
      BY <1>4, <3>1
    <3>3. stock'[i] = stock[i]
      BY <1>10, <3>1
    <3>4. \A q \in Orders \ {p} : i \notin reservedFor'[q]
      BY <1>8, <1>9, <3>1, <3>2
    <3>5. stock[i] \in {"RESERVED", "SOLD"} => p \notin b
      BY <1>5, <3>1 DEF Live, Open
    <3> QED
      BY <1>8, <3>1, <3>3, <3>4, <3>5
  <2> QED
    BY <1>8, <1>9, <2>1, <2>2
<1>13. NoItemIsHeldByNobody'
  <2> SUFFICES ASSUME NEW i \in Items, stock'[i] \in {"RESERVED", "SOLD"}
               PROVE  \E p \in Orders : i \in reservedFor'[p]
    BY DEF NoItemIsHeldByNobody
  <2>1. CASE \E p \in b : pick[p] = i
    BY <1>0, <1>9, <2>1
  <2>2. CASE ~\E p \in b : pick[p] = i
    <3>1. stock'[i] = stock[i]
      BY <1>2, <2>2
    <3>2. PICK p \in Orders : i \in reservedFor[p]
      BY <3>1 DEF Agreement, GoodsFollowOrders, NoItemIsHeldByNobody
    <3> QED
      BY <1>8, <1>9, <3>2
  <2> QED
    BY <2>1, <2>2
<1>14. RowsFollowOrders'
  <2>1. /\ total' = [p \in Orders |-> IF p \in b THEN tot[p] ELSE total[p]]
        /\ ledger' = [ledger EXCEPT !["purchase"] =
                         [p \in Orders |-> IF p \in b THEN -tot[p]
                                           ELSE ledger["purchase"][p]]]
    BY <1>1 DEF PlaceOrders
  <2>2. /\ ledger'["purchase"] = [p \in Orders |->
                IF p \in b THEN -tot[p] ELSE ledger["purchase"][p]]
        /\ ledger'["reservation-expired"] = ledger["reservation-expired"]
        /\ ledger'["delivery-refund"] = ledger["delivery-refund"]
    BY <2>1 DEF StoreTypeOK, LedgerKey
  <2> SUFFICES ASSUME NEW p \in Orders
               PROVE  /\ ledger'["purchase"][p] =
                            IF status'[p] = "NONE" THEN 0 ELSE -total'[p]
                      /\ ledger'["reservation-expired"][p] =
                            IF status'[p] = "CANCELLED" THEN total'[p] ELSE 0
                      /\ ledger'["delivery-refund"][p] =
                            IF status'[p] = "REFUNDED" THEN total'[p] ELSE 0
    BY DEF RowsFollowOrders
  <2> QED
    BY <1>5, <1>6, <2>1, <2>2 DEF Agreement, RowsFollowOrders
<1> QED
  BY <1>11, <1>12, <1>13, <1>14 DEF Agreement, GoodsFollowOrders

(* The parts of the agreement, in the form the cases below use them.       *)
LEMMA HeldOnce ==
    ASSUME Agreement, NEW o \in Orders, NEW i \in reservedFor[o], i \in Items,
           stock[i] \in {"RESERVED", "SOLD"}
    PROVE  /\ goods[o] = i
           /\ status[o] \in Live \cup {"DELIVERED"}
           /\ \A p \in Orders \ {o} : i \notin reservedFor[p]
BY DEF Agreement, GoodsFollowOrders, HeldItemHasOneOrder

LEMMA OwnItem ==
    ASSUME Agreement, NEW o \in Orders
    PROVE  /\ status[o] \in Live =>
                 /\ goods[o] \in Items
                 /\ goods[o] \in reservedFor[o]
                 /\ stock[goods[o]] = "RESERVED"
           /\ status[o] = "DELIVERED" =>
                 /\ goods[o] \in Items
                 /\ goods[o] \in reservedFor[o]
                 /\ stock[goods[o]] = "SOLD"
           /\ status[o] = "REFUNDED" =>
                 /\ goods[o] \in Items
                 /\ stock[goods[o]] = "DISABLED"
BY DEF Agreement, GoodsFollowOrders, LiveOrderHoldsItem, SettledOrderLeavesItem

(* The rows of an order that gets its money back.                          *)
LEMMA CreditRows ==
    ASSUME StoreTypeOK, NEW o \in Orders, NEW key \in LedgerKey, Credit(key, o)
    PROVE  \A k \in LedgerKey : \A p \in Orders :
             ledger'[k][p] = IF k = key /\ p = o THEN total[o]
                             ELSE ledger[k][p]
BY DEF Credit, StoreTypeOK

LEMMA ReleaseKeeps ==
    ASSUME StoreTypeOK, Agreement, NEW i \in Items, NEW o \in Orders,
           ReleaseReservation(i, o)
    PROVE  Agreement'
<1>1. /\ stock[i] = "RESERVED" /\ i \in reservedFor[o]
      /\ status[o] = "PENDING_DELIVERY"
  BY DEF ReleaseReservation, Releasable
<1>2. goods[o] = i /\ \A p \in Orders \ {o} : i \notin reservedFor[p]
  BY <1>1, HeldOnce
<1>3. /\ stock' = [stock EXCEPT ![i] = "AVAILABLE"]
      /\ reservedFor' = [reservedFor EXCEPT ![o] = @ \ {i}]
      /\ status' = [status EXCEPT ![o] = "CANCELLED"]
      /\ goods' = goods /\ total' = total
  BY DEF ReleaseReservation
<1>4. /\ \A j \in Items : stock'[j] = IF j = i THEN "AVAILABLE" ELSE stock[j]
      /\ \A p \in Orders : /\ reservedFor'[p] = reservedFor[p] \ {i}
                           /\ status'[p] = IF p = o THEN "CANCELLED"
                                                     ELSE status[p]
  BY <1>2, <1>3 DEF StoreTypeOK
<1>5. \A p \in Orders \ {o} :
         status[p] \in Live \cup {"DELIVERED", "REFUNDED"} => goods[p] # i
  BY <1>1, <1>2, OwnItem
<1>6. LiveOrderHoldsItem' /\ SettledOrderLeavesItem'
  BY <1>3, <1>4, <1>5, OwnItem
     DEF LiveOrderHoldsItem, SettledOrderLeavesItem, Live, Open
<1>7. HeldItemHasOneOrder'
  <2> SUFFICES ASSUME NEW j \in Items, NEW p \in Orders, j \in reservedFor'[p]
               PROVE  /\ stock'[j] \notin {"AVAILABLE", "DELETED"}
                      /\ stock'[j] \in {"RESERVED", "SOLD"} =>
                            /\ goods'[p] = j
                            /\ status'[p] \in Live \cup {"DELIVERED"}
                      /\ \A q \in Orders \ {p} : j \notin reservedFor'[q]
    BY DEF HeldItemHasOneOrder
  <2>1. j \in reservedFor[p] /\ j # i /\ stock'[j] = stock[j]
    BY <1>4
  <2>2. stock[j] \in {"RESERVED", "SOLD"} => p # o
    BY <1>2, <2>1, HeldOnce
  <2> QED
    BY <1>3, <1>4, <2>1, <2>2 DEF Agreement, GoodsFollowOrders,
                                  HeldItemHasOneOrder
<1>8. NoItemIsHeldByNobody'
  BY <1>4 DEF Agreement, GoodsFollowOrders, NoItemIsHeldByNobody
<1>9. RowsFollowOrders'
  <2>1. CASE total[o] = 0 /\ UNCHANGED ledger
    BY <1>1, <1>3, <1>4, <2>1 DEF Agreement, RowsFollowOrders
  <2>2. CASE Credit("reservation-expired", o)
    <3>1. \A k \in LedgerKey : \A p \in Orders :
             ledger'[k][p] = IF k = "reservation-expired" /\ p = o
                             THEN total[o] ELSE ledger[k][p]
      BY <2>2, CreditRows DEF LedgerKey
    <3> QED
      BY <1>1, <1>3, <1>4, <3>1 DEF Agreement, RowsFollowOrders, LedgerKey
  <2> QED
    BY <2>1, <2>2 DEF ReleaseReservation
<1> QED
  BY <1>6, <1>7, <1>8, <1>9 DEF Agreement, GoodsFollowOrders

LEMMA ReplaceKeeps ==
    ASSUME StoreTypeOK, Agreement, NEW o \in Orders, MarkReplace(o)
    PROVE  Agreement'
<1>1. PICK i \in Shelf :
        /\ stock' = [j \in Items |->
              IF j = i THEN "RESERVED"
              ELSE IF /\ j = goods[o] /\ j \in reservedFor[o]
                      /\ stock[j] = "RESERVED"
              THEN "DISABLED" ELSE stock[j]]
        /\ reservedFor' = [reservedFor EXCEPT ![o] = @ \cup {i}]
        /\ goods' = [goods EXCEPT ![o] = i]
  BY DEF MarkReplace
<1>2. /\ status[o] = "DELIVERY_FAILED"
      /\ status' = [status EXCEPT ![o] = "PENDING_DELIVERY"]
      /\ total' = total /\ ledger' = ledger
  BY DEF MarkReplace, Recoverable
<1>3. i \in Items /\ stock[i] = "AVAILABLE"
  BY DEF Shelf
<1>4. \A p \in Orders : i \notin reservedFor[p]
  BY <1>3 DEF Agreement, GoodsFollowOrders, HeldItemHasOneOrder
<1>5. /\ goods[o] \in Items /\ goods[o] \in reservedFor[o]
      /\ stock[goods[o]] = "RESERVED"
  BY <1>2, OwnItem DEF Live
<1>6. \A p \in Orders \ {o} : goods[o] \notin reservedFor[p]
  BY <1>5, HeldOnce
<1>7. /\ \A j \in Items : stock'[j] = IF j = i THEN "RESERVED"
                                      ELSE IF j = goods[o] THEN "DISABLED"
                                      ELSE stock[j]
      /\ \A p \in Orders \ {o} : /\ goods'[p] = goods[p]
                                 /\ status'[p] = status[p]
                                 /\ reservedFor'[p] = reservedFor[p]
      /\ goods'[o] = i /\ reservedFor'[o] = reservedFor[o] \cup {i}
      /\ status'[o] = "PENDING_DELIVERY"
  BY <1>1, <1>2, <1>5 DEF StoreTypeOK
<1>8. LiveOrderHoldsItem' /\ SettledOrderLeavesItem'
  <2> SUFFICES ASSUME NEW p \in Orders
               PROVE  /\ status'[p] \in Live =>
                            /\ goods'[p] \in Items
                            /\ goods'[p] \in reservedFor'[p]
                            /\ stock'[goods'[p]] = "RESERVED"
                      /\ status'[p] = "DELIVERED" =>
                            /\ goods'[p] \in Items
                            /\ goods'[p] \in reservedFor'[p]
                            /\ stock'[goods'[p]] = "SOLD"
                      /\ status'[p] = "REFUNDED" =>
                            /\ goods'[p] \in Items
                            /\ stock'[goods'[p]] = "DISABLED"
    BY DEF LiveOrderHoldsItem, SettledOrderLeavesItem
  <2>1. CASE p = o
    BY <1>3, <1>7, <2>1
  <2>2. CASE p # o
    BY <1>3, <1>5, <1>6, <1>7, <2>2, OwnItem
  <2> QED
    BY <2>1, <2>2
<1>9. HeldItemHasOneOrder'
  <2> SUFFICES ASSUME NEW j \in Items, NEW p \in Orders, j \in reservedFor'[p]
               PROVE  /\ stock'[j] \notin {"AVAILABLE", "DELETED"}
                      /\ stock'[j] \in {"RESERVED", "SOLD"} =>
                            /\ goods'[p] = j
                            /\ status'[p] \in Live \cup {"DELIVERED"}
                      /\ \A q \in Orders \ {p} : j \notin reservedFor'[q]
    BY DEF HeldItemHasOneOrder
  <2>1. CASE j = i
    BY <1>4, <1>7, <2>1 DEF Live, Open
  <2>2. CASE j # i
    <3>1. /\ j \in reservedFor[p]
          /\ stock[j] \notin {"AVAILABLE", "DELETED"}
          /\ \A q \in Orders \ {p} : j \notin reservedFor[q]
      BY <1>7, <2>2 DEF Agreement, GoodsFollowOrders, HeldItemHasOneOrder
    <3>2. \A q \in Orders \ {p} : j \notin reservedFor'[q]
      BY <1>7, <2>2, <3>1
    <3>3. ASSUME stock'[j] \in {"RESERVED", "SOLD"}
          PROVE  p # o /\ goods[p] = j /\ status[p] \in Live \cup {"DELIVERED"}
      <4>1. j # goods[o] /\ stock[j] = stock'[j]
        BY <1>7, <2>2, <3>3
      <4> QED
        BY <3>1, <3>3, <4>1, HeldOnce
    <3> QED
      BY <1>7, <2>2, <3>1, <3>2, <3>3
  <2> QED
    BY <2>1, <2>2
<1>10. NoItemIsHeldByNobody'
  <2> SUFFICES ASSUME NEW j \in Items, stock'[j] \in {"RESERVED", "SOLD"}
               PROVE  \E p \in Orders : j \in reservedFor'[p]
    BY DEF NoItemIsHeldByNobody
  <2>1. CASE j = i
    BY <1>7, <2>1
  <2>2. CASE j # i
    BY <1>7, <2>2 DEF Agreement, GoodsFollowOrders, NoItemIsHeldByNobody
  <2> QED
    BY <2>1, <2>2
<1>11. RowsFollowOrders'
  BY <1>2, <1>7 DEF Agreement, RowsFollowOrders
<1> QED
  BY <1>8, <1>9, <1>10, <1>11 DEF Agreement, GoodsFollowOrders

LEMMA RefundKeeps ==
    ASSUME StoreTypeOK, Agreement, NEW o \in Orders, Refund(o)
    PROVE  Agreement'
<1>1. /\ status[o] = "DELIVERY_FAILED"
      /\ stock' = [i \in Items |-> IF i = goods[o] /\ stock[i] = "RESERVED"
                                   THEN "DISABLED" ELSE stock[i]]
      /\ status' = [status EXCEPT ![o] = "REFUNDED"]
      /\ goods' = goods /\ total' = total /\ reservedFor' = reservedFor
  BY DEF Refund, Recoverable
<1>2. /\ goods[o] \in Items /\ goods[o] \in reservedFor[o]
      /\ stock[goods[o]] = "RESERVED"
  BY <1>1, OwnItem DEF Live
<1>3. \A p \in Orders \ {o} : goods[o] \notin reservedFor[p]
  BY <1>2, HeldOnce
<1>4. /\ \A j \in Items : stock'[j] = IF j = goods[o] THEN "DISABLED"
                                      ELSE stock[j]
      /\ \A p \in Orders : status'[p] = IF p = o THEN "REFUNDED" ELSE status[p]
  BY <1>1, <1>2 DEF StoreTypeOK
<1>5. LiveOrderHoldsItem' /\ SettledOrderLeavesItem'
  BY <1>1, <1>2, <1>3, <1>4, OwnItem
     DEF LiveOrderHoldsItem, SettledOrderLeavesItem, Live, Open
<1>6. HeldItemHasOneOrder'
  <2> SUFFICES ASSUME NEW j \in Items, NEW p \in Orders, j \in reservedFor[p]
               PROVE  /\ stock'[j] \notin {"AVAILABLE", "DELETED"}
                      /\ stock'[j] \in {"RESERVED", "SOLD"} =>
                            /\ goods[p] = j
                            /\ status'[p] \in Live \cup {"DELIVERED"}
                      /\ \A q \in Orders \ {p} : j \notin reservedFor[q]
    BY <1>1 DEF HeldItemHasOneOrder
  <2>1. CASE j = goods[o]
    BY <1>2, <1>4, <2>1 DEF Agreement, GoodsFollowOrders, HeldItemHasOneOrder
  <2>2. CASE j # goods[o]
    BY <1>4, <2>2 DEF Agreement, GoodsFollowOrders, HeldItemHasOneOrder
  <2> QED
    BY <2>1, <2>2
<1>7. NoItemIsHeldByNobody'
  BY <1>1, <1>4 DEF Agreement, GoodsFollowOrders, NoItemIsHeldByNobody
<1>8. RowsFollowOrders'
  <2>1. CASE /\ UNCHANGED ledger
             /\ total[o] = 0 \/ ledger["delivery-refund"][o] # 0
    BY <1>1, <1>4, <2>1 DEF Agreement, RowsFollowOrders
  <2>2. CASE Credit("delivery-refund", o)
    <3>1. \A k \in LedgerKey : \A p \in Orders :
             ledger'[k][p] = IF k = "delivery-refund" /\ p = o
                             THEN total[o] ELSE ledger[k][p]
      BY <2>2, CreditRows DEF LedgerKey
    <3> QED
      BY <1>1, <1>4, <3>1 DEF Agreement, RowsFollowOrders, LedgerKey
  <2> QED
    BY <2>1, <2>2 DEF Refund
<1> QED
  BY <1>5, <1>6, <1>7, <1>8 DEF Agreement, GoodsFollowOrders

LEMMA RemoveKeeps ==
    ASSUME StoreTypeOK, Agreement, NEW i \in Items, RemoveItem(i)
    PROVE  Agreement'
<1>1. /\ stock[i] = "AVAILABLE"
      /\ stock' = [stock EXCEPT ![i] = "DELETED"]
      /\ UNCHANGED <<status, goods, total, reservedFor, ledger>>
  BY DEF RemoveItem
<1>2. \A j \in Items : stock'[j] = IF j = i THEN "DELETED" ELSE stock[j]
  BY <1>1 DEF StoreTypeOK
<1>3. LiveOrderHoldsItem' /\ SettledOrderLeavesItem'
  BY <1>1, <1>2, OwnItem DEF LiveOrderHoldsItem, SettledOrderLeavesItem
<1>4. HeldItemHasOneOrder'
  BY <1>1, <1>2 DEF Agreement, GoodsFollowOrders, HeldItemHasOneOrder
<1>5. NoItemIsHeldByNobody'
  BY <1>1, <1>2 DEF Agreement, GoodsFollowOrders, NoItemIsHeldByNobody
<1>6. RowsFollowOrders'
  BY <1>1 DEF Agreement, RowsFollowOrders
<1> QED
  BY <1>3, <1>4, <1>5, <1>6 DEF Agreement, GoodsFollowOrders

(* What a worker hands over: markSold() accepts an item only for an order  *)
(* that is alive or delivered and whose item it is, so that the update of  *)
(* the orders, which looks at no status, revives none that was settled.    *)
LEMMA HandOverTakes ==
    ASSUME TypeOK, Agreement, NEW w \in Workers, HandOver(w)
    PROVE  /\ batch[w] \in SUBSET Orders
           /\ \A o \in batch[w] :
                 /\ parcel[w][o] = goods[o] /\ goods[o] \in Items
                 /\ goods[o] \in reservedFor[o]
                 /\ stock[goods[o]] \in {"RESERVED", "SOLD"}
                 /\ status[o] \in Live \cup {"DELIVERED"}
                 /\ \A p \in Orders \ {o} : goods[o] \notin reservedFor[p]
           /\ \A o \in Orders : status'[o] = IF o \in batch[w] THEN "DELIVERED"
                                             ELSE status[o]
           /\ \A i \in Items : stock'[i] =
                 IF \E o \in batch[w] : goods[o] = i THEN "SOLD" ELSE stock[i]
<1>1. batch[w] \in SUBSET Orders
  BY DEF TypeOK, WorkerTypeOK
<1>2. \A o \in batch[w] : /\ parcel[w][o] \in Items
                          /\ parcel[w][o] \in reservedFor[o]
                          /\ stock[parcel[w][o]] \in {"RESERVED", "SOLD"}
  BY <1>1 DEF HandOver, MaySell, TypeOK, StoreTypeOK
<1>3. \A o \in batch[w] :
         /\ goods[o] = parcel[w][o]
         /\ status[o] \in Live \cup {"DELIVERED"}
         /\ \A p \in Orders \ {o} : parcel[w][o] \notin reservedFor[p]
  BY <1>1, <1>2, HeldOnce
<1>4. \A o \in Orders : status'[o] = IF o \in batch[w] THEN "DELIVERED"
                                    ELSE status[o]
  BY DEF HandOver, Move, TypeOK, StoreTypeOK
<1>5. \A i \in Items : stock'[i] =
         IF \E o \in batch[w] : goods[o] = i THEN "SOLD" ELSE stock[i]
  BY <1>3 DEF HandOver
<1> QED
  BY <1>1, <1>2, <1>3, <1>4, <1>5

LEMMA HandOverKeeps ==
    ASSUME TypeOK, Agreement, NEW w \in Workers, HandOver(w)
    PROVE  Agreement'
<1> DEFINE b == batch[w]
<1>1. /\ b \in SUBSET Orders
      /\ \A o \in b :
            /\ goods[o] \in Items /\ goods[o] \in reservedFor[o]
            /\ stock[goods[o]] \in {"RESERVED", "SOLD"}
            /\ status[o] \in Live \cup {"DELIVERED"}
            /\ \A p \in Orders \ {o} : goods[o] \notin reservedFor[p]
      /\ \A o \in Orders : status'[o] = IF o \in b THEN "DELIVERED"
                                        ELSE status[o]
      /\ \A i \in Items : stock'[i] =
            IF \E o \in b : goods[o] = i THEN "SOLD" ELSE stock[i]
  BY HandOverTakes
<1>2. UNCHANGED <<goods, total, reservedFor, ledger>>
  BY DEF HandOver
<1>3. \A o \in b : stock'[goods[o]] = "SOLD"
  BY <1>1
<1>4. \A o \in Orders \ b : \A p \in b :
         status[o] \in Live \cup {"DELIVERED", "REFUNDED"}
         => goods[o] # goods[p]
  BY <1>1, OwnItem
<1>5. LiveOrderHoldsItem' /\ SettledOrderLeavesItem'
  <2> SUFFICES ASSUME NEW p \in Orders
               PROVE  /\ status'[p] \in Live =>
                            /\ goods[p] \in Items
                            /\ goods[p] \in reservedFor[p]
                            /\ stock'[goods[p]] = "RESERVED"
                      /\ status'[p] = "DELIVERED" =>
                            /\ goods[p] \in Items
                            /\ goods[p] \in reservedFor[p]
                            /\ stock'[goods[p]] = "SOLD"
                      /\ status'[p] = "REFUNDED" =>
                            /\ goods[p] \in Items
                            /\ stock'[goods[p]] = "DISABLED"
    BY <1>2 DEF LiveOrderHoldsItem, SettledOrderLeavesItem
  <2>1. CASE p \in b
    BY <1>1, <1>3, <2>1 DEF Live, Open
  <2>2. CASE p \notin b
    <3>1. status'[p] = status[p]
      BY <1>1, <2>2
    <3>2. status[p] \in Live \cup {"DELIVERED", "REFUNDED"} =>
            goods[p] \in Items /\ stock'[goods[p]] = stock[goods[p]]
      BY <1>1, <1>4, <2>2, OwnItem
    <3> QED
      BY <3>1, <3>2, OwnItem
  <2> QED
    BY <2>1, <2>2
<1>6. HeldItemHasOneOrder'
  <2> SUFFICES ASSUME NEW j \in Items, NEW p \in Orders, j \in reservedFor[p]
               PROVE  /\ stock'[j] \notin {"AVAILABLE", "DELETED"}
                      /\ stock'[j] \in {"RESERVED", "SOLD"} =>
                            /\ goods[p] = j
                            /\ status'[p] \in Live \cup {"DELIVERED"}
                      /\ \A q \in Orders \ {p} : j \notin reservedFor[q]
    BY <1>2 DEF HeldItemHasOneOrder
  <2>1. CASE \E o \in b : goods[o] = j
    BY <1>1, <2>1
  <2>2. CASE ~\E o \in b : goods[o] = j
    <3>1. stock'[j] = stock[j]
      BY <1>1, <2>2
    <3> QED
      BY <1>1, <3>1 DEF Agreement, GoodsFollowOrders, HeldItemHasOneOrder
  <2> QED
    BY <2>1, <2>2
<1>7. NoItemIsHeldByNobody'
  BY <1>1, <1>2 DEF Agreement, GoodsFollowOrders, NoItemIsHeldByNobody
<1>8. RowsFollowOrders'
  BY <1>1, <1>2 DEF Agreement, RowsFollowOrders, Live, Open
<1> QED
  BY <1>5, <1>6, <1>7, <1>8 DEF Agreement, GoodsFollowOrders

LEMMA AgreementStep ==
    ASSUME TypeOK, Agreement, [Next]_vars PROVE Agreement'
<1>1. StoreTypeOK /\ StoreStep
  BY NextStep DEF TypeOK
<1> QED
  BY <1>1, LiveMoveKeeps, PlaceKeeps, ReplaceKeeps, RefundKeeps, ReleaseKeeps,
     RemoveKeeps, HandOverKeeps DEF StoreStep

LEMMA AgreementHolds == Spec => []Agreement
<1>1. Init => Agreement
  BY AgreementInit
<1>2. TypeOK /\ Agreement /\ [Next]_vars => Agreement'
  BY AgreementStep
<1> QED
  BY <1>1, <1>2, TypeCorrect, PTL DEF Spec

(* Orders, inventory and ledger agree in every reachable state, for any    *)
(* number of customers, items, workers and faults.                         *)
THEOREM SaleCorrect == Spec => []SaleInvariant
<1>1. TypeOK /\ Agreement => SaleInvariant
  BY DEF Agreement, SaleInvariant
<1> QED
  BY <1>1, TypeCorrect, AgreementHolds, PTL

(* No item serves two orders, none leaks, and no order on its way is       *)
(* without its item, although Confirm looks at no order's status.          *)
THEOREM GoodsCorrect == Spec => []GoodsFollowOrders
<1>1. SaleInvariant => GoodsFollowOrders
  BY DEF SaleInvariant
<1> QED
  BY <1>1, SaleCorrect, PTL

(* A customer has paid exactly the orders that are alive or delivered.     *)
THEOREM MoneyCorrect == Spec => []MoneyOrGoods
<1>1. SaleInvariant => MoneyOrGoods
  <2> SUFFICES ASSUME SaleInvariant, NEW o \in Orders
               PROVE  Net(o) = IF status[o] \in Live \cup {"DELIVERED"}
                               THEN total[o] ELSE 0
    BY DEF MoneyOrGoods
  <2>1. total[o] \in Nat /\ status[o] \in OrderStatus
    BY DEF SaleInvariant, TypeOK, StoreTypeOK
  <2> QED
    BY <2>1 DEF SaleInvariant, RowsFollowOrders, Net, OrderStatus, Live, Open
<1> QED
  BY <1>1, SaleCorrect, PTL

-----------------------------------------------------------------------------
(* The wallets.                                                            *)

Paid == [o \in Orders |-> Net(o)]
Mine(u) == {o \in Orders : Buyer[o] = u}

(* What MCDelivery says of the wallets, as a sum of a function.            *)
Funds ==
    \A u \in Users :
        /\ balance[u] >= 0
        /\ balance[u] = Opening[u] - SumMap(Paid, Mine(u))

LEMMA MineIsFinite ==
    ASSUME NEW u \in Users
    PROVE  Mine(u) \in SUBSET Orders /\ IsFiniteSet(Mine(u))
BY KeysAreNumbers, FS_Subset DEF Mine

(* The sum that MCDelivery writes with an operator is that of a function.  *)
IsNetSums(g, S) ==
    g = [s \in SUBSET S |->
            IF s = {} THEN 0 ELSE Net(First(s)) + g[s \ {First(s)}]]

LEMMA NetSum ==
    ASSUME NEW S \in SUBSET Orders
    PROVE  MapThenSumSet(Net, S) = SumMap(Paid, S)
<1> DEFINE h == CHOOSE g : IsNetSums(g, S)
<1>1. MapThenSumSet(Net, S) = h[S]
  BY Zenon DEF MapThenSumSet, MapThenFoldSet, First, IsNetSums
<1>2. IsFiniteSet(S)
  BY KeysAreNumbers, FS_Subset
<1>3. \A s \in SUBSET S : s # {} => Paid[First(s)] = Net(First(s))
  BY FirstIn DEF Paid
<1>4. ASSUME NEW g PROVE IsSums(g, Paid, S) <=> IsNetSums(g, S)
  <2> DEFINE u(s) == IF s = {} THEN 0
                     ELSE Paid[First(s)] + g[s \ {First(s)}]
             v(s) == IF s = {} THEN 0
                     ELSE Net(First(s)) + g[s \ {First(s)}]
  <2>1. \A s \in SUBSET S : u(s) = v(s)
    BY <1>3
  <2>2. [s \in SUBSET S |-> u(s)] = [s \in SUBSET S |-> v(s)]
    <3> HIDE DEF u, v
    <3> QED
      BY <2>1
  <2> QED
    BY <2>2 DEF IsSums, IsNetSums
<1>5. IsNetSums(h, S)
  <2>1. \E g : IsSums(g, Paid, S)
    BY <1>2, SumsExist
  <2>2. \E g : IsNetSums(g, S)
    BY <1>4, <2>1
  <2> QED
    BY <2>2
<1> HIDE DEF h
<1>6. SumsUp(h, Paid, S)
  BY <1>4, <1>5, IsSumsUp
<1> QED
  BY <1>1, <1>2, <1>6, SumIsChosen

LEMMA FundsAre == BalanceMatchesLedger <=> Funds
<1> SUFFICES ASSUME NEW u \in Users
             PROVE  MapThenSumSet(Net, Mine(u)) = SumMap(Paid, Mine(u))
  BY DEF BalanceMatchesLedger, Funds, Mine
<1> QED
  BY NetSum, MineIsFinite

LEMMA FundsInit == Init => Funds
<1> SUFFICES ASSUME Init, NEW u \in Users
             PROVE  /\ balance[u] >= 0
                    /\ balance[u] = Opening[u] - SumMap(Paid, Mine(u))
  BY DEF Funds
<1>1. balance[u] = Opening[u] /\ Opening[u] \in Nat
  BY AmountsAreNaturals DEF Init, StoreInit
<1>2. \A o \in Orders : Paid[o] = 0
  <2>1. \A k \in LedgerKey : \A o \in Orders : ledger[k][o] = 0
    BY DEF Init, StoreInit
  <2>2. \A o \in Orders : Net(o) = 0
    BY <2>1 DEF Net, LedgerKey
  <2> QED
    BY <2>2 DEF Paid
<1>3. SumMap(Paid, Mine(u)) = SumMap(Paid, {})
  BY <1>2, MineIsFinite, SumOfPart
<1> QED
  BY <1>1, <1>3, SumOfNone

LEMMA PaidIsInt ==
    ASSUME StoreTypeOK, NEW o \in Orders
    PROVE  Paid[o] = Net(o) /\ Net(o) \in Int
BY DEF StoreTypeOK, Paid, Net, LedgerKey

LEMMA FundsUnchanged ==
    ASSUME Funds, UNCHANGED <<balance, ledger>> PROVE Funds'
<1>1. Paid' = Paid
  BY DEF Paid, Net
<1> QED
  BY <1>1 DEF Funds

(* The orders b of customer v cost `charge' more, and the wallet has that  *)
(* much less.                                                              *)
Spends(v, b, charge, cost) ==
    /\ v \in Users /\ b \in SUBSET Mine(v) /\ charge \in Int
    /\ \A p \in Orders : cost[p] \in Int /\ Net(p)' = Net(p) + cost[p]
    /\ \A p \in Orders \ b : cost[p] = 0
    /\ SumMap(cost, b) = charge /\ balance[v] >= charge
    /\ balance' = [balance EXCEPT ![v] = @ - charge]

LEMMA FundsAfter ==
    ASSUME StoreTypeOK, Funds, NEW v, NEW b, NEW charge, NEW cost,
           Spends(v, b, charge, cost)
    PROVE  Funds'
<1>0. /\ v \in Users /\ b \in SUBSET Mine(v) /\ charge \in Int
      /\ \A p \in Orders : cost[p] \in Int /\ Net(p)' = Net(p) + cost[p]
      /\ \A p \in Orders \ b : cost[p] = 0
      /\ SumMap(cost, b) = charge /\ balance[v] >= charge
      /\ balance' = [balance EXCEPT ![v] = @ - charge]
  BY DEF Spends
<1> SUFFICES ASSUME NEW u \in Users
             PROVE  /\ balance'[u] >= 0
                    /\ balance'[u] = Opening[u] - SumMap(Paid', Mine(u))
  BY DEF Funds
<1>1. Mine(u) \in SUBSET Orders /\ IsFiniteSet(Mine(u))
  BY MineIsFinite
<1>2. /\ balance[u] \in Int /\ balance[u] >= 0 /\ Opening[u] \in Int
      /\ balance[u] = Opening[u] - SumMap(Paid, Mine(u))
  <2>1. balance[u] \in Int
    BY DEF StoreTypeOK
  <2>2. Opening[u] \in Int
    BY AmountsAreNaturals
  <2> QED
    BY <2>1, <2>2 DEF Funds
<1>3. \A p \in Mine(u) :
         Paid[p] \in Int /\ cost[p] \in Int /\ Paid'[p] = Paid[p] + cost[p]
  <2> SUFFICES ASSUME NEW p \in Orders
               PROVE  /\ Paid[p] \in Int /\ cost[p] \in Int
                      /\ Paid'[p] = Paid[p] + cost[p]
    BY <1>1
  <2>1. Paid'[p] = Net(p)'
    BY DEF Paid
  <2> QED
    BY <1>0, <2>1, PaidIsInt
<1>4. SumMap(Paid', Mine(u)) = SumMap(Paid, Mine(u)) + SumMap(cost, Mine(u))
  BY <1>1, <1>3, SumOfPlus
<1>5. SumMap(Paid, Mine(u)) \in Int
  BY <1>1, <1>3, SumIsInt
<1>6. CASE u = v
  <2>1. SumMap(cost, Mine(u)) = charge
    <3>1. \A p \in Mine(u) : cost[p] \in Int
      BY <1>3
    <3>2. \A p \in Mine(u) \ b : cost[p] = 0
      BY <1>0, <1>1
    <3>3. SumMap(cost, Mine(u)) = SumMap(cost, b)
      BY <1>0, <1>1, <1>6, <3>1, <3>2, SumOfPart
    <3> QED
      BY <1>0, <3>3
  <2>2. balance'[u] = balance[u] - charge
    BY <1>0, <1>6 DEF StoreTypeOK
  <2> QED
    BY <1>0, <1>2, <1>4, <1>5, <1>6, <2>1, <2>2
<1>7. CASE u # v
  <2>1. SumMap(cost, Mine(u)) = 0
    <3>1. \A p \in Mine(u) : cost[p] \in Int
      BY <1>3
    <3>2. \A p \in Mine(u) \ {} : cost[p] = 0
      BY <1>0, <1>1, <1>7 DEF Mine
    <3>3. SumMap(cost, Mine(u)) = SumMap(cost, {})
      BY <1>1, <3>1, <3>2, SumOfPart
    <3> QED
      BY <3>3, SumOfNone
  <2>2. balance'[u] = balance[u]
    BY <1>0, <1>7 DEF StoreTypeOK
  <2> QED
    BY <1>2, <1>4, <1>5, <2>1, <2>2
<1> QED
  BY <1>6, <1>7

LEMMA PlaceFunds ==
    ASSUME StoreTypeOK, Agreement, Funds, NEW o \in Orders, PlaceSome(o)
    PROVE  Funds'
<1> DEFINE b == BatchOf[o]
<1>1. PICK tot \in [b -> Nat], charge \in Int :
        /\ PlaceOrders(b, Buyer[o], tot, charge)
        /\ SumMap(CostOf(tot, o), b) = charge
  BY DEF PlaceSome
<1> DEFINE cost == CostOf(tot, o)
<1>2. Buyer[o] \in Users /\ b \in SUBSET Mine(Buyer[o])
  BY BatchesPartitionOrders DEF Mine
<1>3. /\ \A p \in Orders : cost[p] \in Int
      /\ \A p \in Orders \ b : cost[p] = 0
      /\ \A p \in Orders : cost[p] = IF p \in b THEN tot[p] ELSE 0
  BY DEF CostOf
<1>4. ASSUME NEW p \in Orders PROVE Net(p)' = Net(p) + cost[p]
  <2>1. /\ ledger'["purchase"][p] = IF p \in b THEN -tot[p]
                                    ELSE ledger["purchase"][p]
        /\ ledger'["reservation-expired"][p] = ledger["reservation-expired"][p]
        /\ ledger'["delivery-refund"][p] = ledger["delivery-refund"][p]
    BY <1>1 DEF PlaceOrders, StoreTypeOK, LedgerKey
  <2>2. p \in b => ledger["purchase"][p] = 0
    BY <1>1 DEF PlaceOrders, Agreement, RowsFollowOrders
  <2>3. /\ ledger["purchase"][p] \in Int
        /\ ledger["reservation-expired"][p] \in Int
        /\ ledger["delivery-refund"][p] \in Int
    BY DEF StoreTypeOK, LedgerKey
  <2>4. p \in b => tot[p] \in Nat
    OBVIOUS
  <2> HIDE DEF b, cost
  <2> QED
    BY <1>3, <2>1, <2>2, <2>3, <2>4 DEF Net
<1>5. /\ balance' = [balance EXCEPT ![Buyer[o]] = @ - charge]
      /\ balance[Buyer[o]] >= charge
  BY <1>1 DEF PlaceOrders
<1>6. SumMap(cost, b) = charge
  BY <1>1
<1> HIDE DEF b, cost
<1>7. Spends(Buyer[o], b, charge, cost)
  BY <1>2, <1>3, <1>4, <1>5, <1>6 DEF Spends
<1> QED
  BY <1>7, FundsAfter

LEMMA CreditFunds ==
    ASSUME StoreTypeOK, Funds, NEW o \in Orders, NEW key \in LedgerKey,
           ledger[key][o] = 0, Credit(key, o)
    PROVE  Funds'
<1> DEFINE charge == -total[o]
           cost == [p \in Orders |-> IF p = o THEN charge ELSE 0]
<1>1. total[o] \in Nat /\ charge \in Int /\ charge <= 0
  BY DEF StoreTypeOK
<1>2. Buyer[o] \in Users /\ {o} \in SUBSET Mine(Buyer[o])
  BY BatchesPartitionOrders DEF Mine
<1>3. /\ \A p \in Orders : cost[p] \in Int
      /\ \A p \in Orders \ {o} : cost[p] = 0
      /\ cost[o] = charge
  BY <1>1
<1>4. SumMap(cost, {o}) = charge
  BY <1>3, SumOfOne
<1>5. balance[Buyer[o]] \in Int /\ balance[Buyer[o]] >= 0
  BY <1>2 DEF Funds, StoreTypeOK
<1>6. balance[Buyer[o]] >= charge
  <2> HIDE DEF charge
  <2> QED
    BY <1>1, <1>5
<1>7. balance' = [balance EXCEPT ![Buyer[o]] = @ - charge]
  <2>1. balance' = [balance EXCEPT ![Buyer[o]] = balance[Buyer[o]] + total[o]]
    BY DEF Credit
  <2>2. balance[Buyer[o]] + total[o] = balance[Buyer[o]] - charge
    BY <1>1, <1>5
  <2> HIDE DEF charge
  <2> QED
    BY <2>1, <2>2
<1>8. ASSUME NEW p \in Orders PROVE Net(p)' = Net(p) + cost[p]
  <2>1. \A k \in LedgerKey : ledger'[k][p] = IF k = key /\ p = o THEN total[o]
                                             ELSE ledger[k][p]
    BY CreditRows
  <2>2. \A k \in LedgerKey : ledger[k][p] \in Int
    BY DEF StoreTypeOK
  <2>3. CASE p = o
    BY <1>1, <1>3, <2>1, <2>2, <2>3 DEF Net, LedgerKey
  <2>4. CASE p # o
    <3>1. \A k \in LedgerKey : ledger'[k][p] = ledger[k][p]
      BY <2>1, <2>4
    <3>2. Net(p)' = Net(p)
      BY <3>1 DEF Net, LedgerKey
    <3>3. Net(p) \in Int /\ cost[p] = 0
      BY <1>3, <2>4, PaidIsInt
    <3> HIDE DEF cost
    <3> QED
      BY <3>2, <3>3
  <2> QED
    BY <2>3, <2>4
<1>9. Spends(Buyer[o], {o}, charge, cost)
  <2> HIDE DEF charge, cost
  <2> QED
    BY <1>1, <1>2, <1>3, <1>4, <1>6, <1>7, <1>8 DEF Spends
<1> QED
  BY <1>9, FundsAfter

LEMMA FundsStep ==
    ASSUME TypeOK, Agreement, Funds, [Next]_vars PROVE Funds'
<1>1. StoreTypeOK /\ StoreStep
  BY NextStep DEF TypeOK
<1>2. ASSUME NEW o \in Orders, Refund(o) PROVE Funds'
  <2>1. CASE Credit("delivery-refund", o) /\ ledger["delivery-refund"][o] = 0
    BY <1>1, <2>1, CreditFunds DEF LedgerKey
  <2> QED
    BY <1>2, <2>1, FundsUnchanged DEF Refund
<1>3. ASSUME NEW i \in Items, NEW o \in Orders, ReleaseReservation(i, o)
      PROVE  Funds'
  <2>1. CASE /\ Credit("reservation-expired", o)
             /\ ledger["reservation-expired"][o] = 0
    BY <1>1, <2>1, CreditFunds DEF LedgerKey
  <2> QED
    BY <1>3, <2>1, FundsUnchanged DEF ReleaseReservation
<1>4. CASE LiveMove \/ (\E w \in Workers : HandOver(w))
  BY <1>4, FundsUnchanged DEF LiveMove, HandOver
<1>5. CASE \/ \E o \in Orders : MarkReplace(o)
           \/ \E i \in Items : RemoveItem(i)
  BY <1>5, FundsUnchanged DEF MarkReplace, RemoveItem
<1> QED
  BY <1>1, <1>2, <1>3, <1>4, <1>5, PlaceFunds DEF StoreStep

(* The wallet is the opening balance less what the orders cost, and never  *)
(* negative: a purchase charges what the amounts of its orders add up to,  *)
(* with the remainder of a coupon's discount spread over them, and expiry  *)
(* and refund give back the amount of the order once.                      *)
THEOREM WalletCorrect == Spec => []BalanceMatchesLedger
<1>1. TypeOK /\ Agreement /\ Funds /\ [Next]_vars => Funds'
  BY FundsStep
<1>2. Funds => BalanceMatchesLedger
  BY FundsAre
<1> QED
  BY <1>1, <1>2, FundsInit, TypeCorrect, AgreementHolds, PTL DEF Spec

-----------------------------------------------------------------------------
(* A delivered, cancelled or refunded order stays so.                      *)
THEOREM SettledForGood == Spec => SettledIsFinal
<1>1. ASSUME SaleInvariant, [Next]_vars
      PROVE  \A o \in Orders : status[o] \in Settled => status'[o] = status[o]
  <2> SUFFICES ASSUME NEW o \in Orders, status[o] \in Settled
               PROVE  status'[o] = status[o]
    OBVIOUS
  <2>1. TypeOK /\ StoreTypeOK /\ Agreement /\ StoreStep
    BY <1>1, NextStep DEF SaleInvariant, Agreement, TypeOK
  <2>2. status[o] \notin Live \cup {"NONE"}
    BY DEF Settled, Live, Open
  <2>3. CASE LiveMove
    BY <2>2, <2>3 DEF LiveMove
  <2>4. ASSUME NEW p \in Orders, PlaceSome(p) PROVE status'[o] = status[o]
    BY <2>2, <2>4 DEF PlaceSome, PlaceOrders
  <2>5. ASSUME NEW p \in Orders, MarkReplace(p) \/ Refund(p)
        PROVE  status'[o] = status[o]
    BY <2>1, <2>2, <2>5
       DEF MarkReplace, Refund, Recoverable, Live, StoreTypeOK
  <2>6. ASSUME NEW i \in Items, NEW p \in Orders, ReleaseReservation(i, p)
        PROVE  status'[o] = status[o]
    BY <2>1, <2>2, <2>6
       DEF ReleaseReservation, Releasable, Live, Open, StoreTypeOK
  <2>7. ASSUME NEW i \in Items, RemoveItem(i) PROVE status'[o] = status[o]
    BY <2>7 DEF RemoveItem
  <2>8. ASSUME NEW w \in Workers, HandOver(w) PROVE status'[o] = status[o]
    <3>1. /\ status'[o] = IF o \in batch[w] THEN "DELIVERED" ELSE status[o]
          /\ o \in batch[w] => status[o] \in Live \cup {"DELIVERED"}
      BY <2>1, <2>8, HandOverTakes
    <3> QED
      BY <2>2, <3>1
  <2> QED
    BY <2>1, <2>3, <2>4, <2>5, <2>6, <2>7, <2>8 DEF StoreStep
<1>2. SaleInvariant /\ [Next]_vars =>
        [\A o \in Orders :
            status[o] \in Settled => status'[o] = status[o]]_vars
  BY <1>1
<1> QED
  BY <1>2, SaleCorrect, PTL DEF Spec, SettledIsFinal

-----------------------------------------------------------------------------
(* The shop keeps what Sale promises of an order.                          *)

(* A step that changes neither where an order stands nor its rows is a     *)
(* stutter of the promise.                                                 *)
LEMMA PromiseStutters ==
    ASSUME \A o \in Orders :
             /\ PhaseOf(o)' = PhaseOf(o)
             /\ Net(o)' = Net(o)
             /\ status'[o] = "DELIVERED" <=> status[o] = "DELIVERED"
             /\ status[o] = "DELIVERED" => goods'[o] = goods[o]
    PROVE  UNCHANGED Promise!saleVars
BY DEF Promise!saleVars

(* Net is what MoneyOrGoods says, in either of two states.                 *)
LEMMA NetOf ==
    ASSUME StoreTypeOK, Agreement, NEW o \in Orders
    PROVE  /\ Net(o) = IF status[o] \in Live \cup {"DELIVERED"}
                       THEN total[o] ELSE 0
           /\ total[o] \in Nat
<1>1. total[o] \in Nat /\ status[o] \in OrderStatus
  BY DEF StoreTypeOK
<1> QED
  BY <1>1 DEF Agreement, RowsFollowOrders, Net, OrderStatus, Live, Open
LEMMA NetAfter ==
    ASSUME StoreTypeOK', Agreement', NEW o \in Orders
    PROVE  /\ Net(o)' = IF status'[o] \in Live \cup {"DELIVERED"}
                        THEN total'[o] ELSE 0
           /\ total'[o] \in Nat
<1>1. total'[o] \in Nat /\ status'[o] \in OrderStatus
  BY DEF StoreTypeOK
<1> QED
  BY <1>1 DEF Agreement, RowsFollowOrders, Net, OrderStatus, Live, Open

LEMMA PlaceIsPromised ==
    ASSUME StoreTypeOK, Agreement, StoreTypeOK', Agreement',
           NEW o \in Orders, PlaceSome(o)
    PROVE  Promise!Place(BatchOf[o])
<1> DEFINE b == BatchOf[o]
<1>0. b \in SUBSET Orders
  BY BatchesPartitionOrders
<1>1. PICK tot \in [b -> Nat], charge \in Int :
        PlaceOrders(b, Buyer[o], tot, charge)
  BY DEF PlaceSome
<1>2. /\ \A p \in b : status[p] = "NONE" /\ status'[p] = "PENDING_DELIVERY"
      /\ \A p \in Orders \ b : /\ status'[p] = status[p]
                               /\ total'[p] = total[p]
  BY <1>0, <1>1 DEF PlaceOrders
<1>3. \A p \in Orders \ b : goods'[p] = goods[p]
  BY <1>1 DEF PlaceOrders
<1>4. \A p \in Orders : PhaseOf(p)' = IF p \in b THEN "open" ELSE PhaseOf(p)
  BY <1>2 DEF PhaseOf, Live, Open
<1>5. \A p \in b : PhaseOf(p) = "absent"
  BY <1>2 DEF PhaseOf, Live, Open
<1>6. \A p \in Orders : Net(p)' \in Nat
  BY NetAfter
<1>7. \A p \in Orders \ b : Net(p)' = Net(p)
  BY <1>2, NetOf, NetAfter
<1>8. \A p \in Orders :
         (IF status'[p] = "DELIVERED" THEN goods'[p] ELSE NoItem)
           = IF status[p] = "DELIVERED" THEN goods[p] ELSE NoItem
  BY <1>2, <1>3
<1> QED
  BY <1>0, <1>4, <1>5, <1>6, <1>7, <1>8 DEF Promise!Place

(* What a worker hands over that was not delivered before.                 *)
LEMMA HandOverIsPromised ==
    ASSUME TypeOK, Agreement, TypeOK', Agreement',
           NEW w \in Workers, HandOver(w),
           NEW S, S = {o \in batch[w] : status[o] # "DELIVERED"}
    PROVE  Promise!Hand(S)
<1> DEFINE gift(o) == IF status[o] = "DELIVERED" THEN goods[o] ELSE NoItem
<1>1. /\ batch[w] \in SUBSET Orders
      /\ \A o \in batch[w] : status[o] \in Live \cup {"DELIVERED"}
      /\ \A o \in Orders : status'[o] = IF o \in batch[w] THEN "DELIVERED"
                                        ELSE status[o]
  BY HandOverTakes
<1>2. goods' = goods /\ ledger' = ledger
  BY DEF HandOver
<1>3. \A o \in S : PhaseOf(o) = "open"
  BY <1>1 DEF PhaseOf, Live, Open
<1>4. \A o \in Orders : PhaseOf(o)' = IF o \in S THEN "kept" ELSE PhaseOf(o)
  BY <1>1 DEF PhaseOf, Live, Open
<1>5. \A o \in Orders : Net(o)' = Net(o)
  BY <1>2 DEF Net
<1>6. \A o \in Orders \ S : gift(o)' = gift(o)
  BY <1>1, <1>2
<1>7. \A o \in Orders : gift(o)' \in Items \cup {NoItem}
  BY DEF TypeOK, StoreTypeOK
<1>8. \A o \in S : /\ gift(o)' = goods[o] /\ goods[o] \in Items
                   /\ goods'[o] \in reservedFor'[o]
                   /\ stock'[goods'[o]] = "SOLD"
  <2>1. ASSUME NEW o \in Orders, status'[o] = "DELIVERED"
        PROVE  /\ goods'[o] \in Items /\ goods'[o] \in reservedFor'[o]
               /\ stock'[goods'[o]] = "SOLD"
    BY <2>1 DEF Agreement, GoodsFollowOrders, SettledOrderLeavesItem
  <2> QED
    BY <1>1, <1>2, <2>1
<1>9. \A o \in S : \A p \in Orders \ {o} : gift(p)' # gift(o)'
  <2> SUFFICES ASSUME NEW o \in S, NEW p \in Orders \ {o}, gift(p)' = gift(o)'
               PROVE  FALSE
    OBVIOUS
  <2>1. status'[p] = "DELIVERED" /\ goods'[p] = goods'[o]
    BY <1>2, <1>8, KeysAreNumbers
  <2>2. goods'[p] \in reservedFor'[p] /\ goods'[p] \in Items
    BY <2>1 DEF Agreement, GoodsFollowOrders, SettledOrderLeavesItem
  <2>3. o \in Orders /\ goods'[p] \in reservedFor'[o]
    BY <1>1, <1>8, <2>1
  <2> QED
    BY <1>8, <2>1, <2>2, <2>3
       DEF Agreement, GoodsFollowOrders, HeldItemHasOneOrder
<1>10. \A o \in S : gift(o)' # NoItem
  BY <1>8, KeysAreNumbers
<1> QED
  BY <1>1, <1>3, <1>4, <1>5, <1>6, <1>7, <1>9, <1>10 DEF Promise!Hand

LEMMA ReturnIsPromised ==
    ASSUME StoreTypeOK, Agreement, StoreTypeOK', Agreement',
           NEW o \in Orders, NEW end \in {"CANCELLED", "REFUNDED"},
           status[o] \in Live, status' = [status EXCEPT ![o] = end],
           goods' = goods, total' = total
    PROVE  Promise!Return(o)
<1>1. \A p \in Orders : status'[p] = IF p = o THEN end ELSE status[p]
  BY DEF StoreTypeOK
<1>2. PhaseOf(o) = "open"
  BY DEF PhaseOf, Live, Open
<1>3. \A p \in Orders : PhaseOf(p)' = IF p = o THEN "returned" ELSE PhaseOf(p)
  BY <1>1 DEF PhaseOf, Live, Open
<1>4. \A p \in Orders : Net(p)' = IF p = o THEN 0 ELSE Net(p)
  BY <1>1, NetOf, NetAfter DEF Live, Open
<1>5. \A p \in Orders :
         (IF status'[p] = "DELIVERED" THEN goods'[p] ELSE NoItem)
           = IF status[p] = "DELIVERED" THEN goods[p] ELSE NoItem
  BY <1>1 DEF Live, Open
<1> QED
  BY <1>2, <1>3, <1>4, <1>5 DEF Promise!Return

LEMMA PromiseStep ==
    ASSUME TypeOK, Agreement, TypeOK', Agreement', StoreStep
    PROVE  [Promise!SaleNext]_(Promise!saleVars)
<1>0. StoreTypeOK /\ StoreTypeOK'
  BY DEF TypeOK
<1>1. CASE LiveMove
  <2>1. \A o \in Orders : PhaseOf(o)' = PhaseOf(o)
    BY <1>1 DEF LiveMove, PhaseOf, Live, Open
  <2>2. \A o \in Orders : Net(o)' = Net(o)
    BY <1>1 DEF LiveMove, Net
  <2>3. \A o \in Orders :
           /\ status'[o] = "DELIVERED" <=> status[o] = "DELIVERED"
           /\ status[o] = "DELIVERED" => goods'[o] = goods[o]
    BY <1>1 DEF LiveMove, Live, Open
  <2> QED
    BY <2>1, <2>2, <2>3, PromiseStutters
<1>2. ASSUME NEW o \in Orders, PlaceSome(o) PROVE Promise!SaleNext
  <2>1. BatchOf[o] \in SUBSET Orders
    BY BatchesPartitionOrders
  <2> QED
    BY <1>0, <1>2, <2>1, PlaceIsPromised DEF Promise!SaleNext
<1>3. ASSUME NEW o \in Orders, MarkReplace(o)
      PROVE  UNCHANGED Promise!saleVars
  <2>1. /\ status[o] = "DELIVERY_FAILED"
        /\ \A p \in Orders : /\ status'[p] = IF p = o THEN "PENDING_DELIVERY"
                                              ELSE status[p]
                             /\ p # o => goods'[p] = goods[p]
        /\ ledger' = ledger
    BY <1>0, <1>3 DEF MarkReplace, Recoverable, StoreTypeOK
  <2>2. \A p \in Orders : PhaseOf(p)' = PhaseOf(p)
    <3>1. PhaseOf(o) = "open" /\ PhaseOf(o)' = "open"
      BY <2>1 DEF PhaseOf, Live, Open
    <3>2. \A p \in Orders \ {o} : PhaseOf(p)' = PhaseOf(p)
      BY <2>1 DEF PhaseOf
    <3> QED
      BY <3>1, <3>2
  <2>3. \A p \in Orders : Net(p)' = Net(p)
    BY <2>1 DEF Net
  <2>4. \A p \in Orders :
           /\ status'[p] = "DELIVERED" <=> status[p] = "DELIVERED"
           /\ status[p] = "DELIVERED" => goods'[p] = goods[p]
    BY <2>1
  <2> QED
    BY <2>2, <2>3, <2>4, PromiseStutters
<1>4. ASSUME NEW o \in Orders, Refund(o) PROVE Promise!SaleNext
  <2>1. Promise!Return(o)
    BY <1>0, <1>4, ReturnIsPromised DEF Refund, Recoverable, Live
  <2> QED
    BY <2>1 DEF Promise!SaleNext
<1>5. ASSUME NEW i \in Items, NEW o \in Orders, ReleaseReservation(i, o)
      PROVE  Promise!SaleNext
  <2>1. Promise!Return(o)
    BY <1>0, <1>5, ReturnIsPromised
       DEF ReleaseReservation, Releasable, Live, Open
  <2> QED
    BY <2>1 DEF Promise!SaleNext
<1>6. ASSUME NEW i \in Items, RemoveItem(i) PROVE UNCHANGED Promise!saleVars
  <2>1. UNCHANGED <<status, goods, ledger>>
    BY <1>6 DEF RemoveItem
  <2> QED
    BY <2>1, PromiseStutters DEF PhaseOf, Net
<1>7. ASSUME NEW w \in Workers, HandOver(w) PROVE Promise!SaleNext
  <2>1. PICK S \in SUBSET Orders :
          S = {o \in batch[w] : status[o] # "DELIVERED"}
    BY DEF TypeOK, WorkerTypeOK
  <2>2. Promise!Hand(S)
    BY <1>7, <2>1, HandOverIsPromised
  <2> QED
    BY <2>1, <2>2 DEF Promise!SaleNext
<1> QED
  BY <1>1, <1>2, <1>3, <1>4, <1>5, <1>6, <1>7 DEF StoreStep

LEMMA PromiseInit == Init => Promise!SaleInit
<1> SUFFICES ASSUME Init PROVE Promise!SaleInit
  OBVIOUS
<1>1. \A o \in Orders : status[o] = "NONE"
  BY DEF Init, StoreInit
<1>2. \A k \in LedgerKey : \A o \in Orders : ledger[k][o] = 0
  BY DEF Init, StoreInit
<1>3. \A o \in Orders : Net(o) = 0
  BY <1>2 DEF Net, LedgerKey
<1>4. \A o \in Orders : PhaseOf(o) = "absent"
  BY <1>1 DEF PhaseOf, Live, Open
<1> QED
  BY <1>1, <1>3, <1>4 DEF Promise!SaleInit

(* The shop, its queue and its workers implement the abstract sale: every  *)
(* step places, hands over or returns as Sale allows, or changes nothing   *)
(* the customer can see.                                                   *)
THEOREM ShopKeepsPromise == Spec => KeepsPromise
<1>1. /\ TypeOK /\ Agreement /\ TypeOK' /\ Agreement' /\ [Next]_vars
      => [Promise!SaleNext]_(Promise!saleVars)
  BY NextStep, PromiseStep
<1> QED
  BY <1>1, PromiseInit, TypeCorrect, AgreementHolds, PTL
     DEF Spec, KeepsPromise, Promise!SaleSpec

-----------------------------------------------------------------------------
(* The positions of a worker.                                              *)

(* An attempt to deliver a batch, and its part before the message is out.  *)
Early == {"mark", "load", "send", "reset"}
Attempt == Early \cup {"confirm"}
Attempts(w, o) == pc[w] \in Attempt /\ o \in batch[w]

(* Item i was sent for o, or a worker is about to.                         *)
Known(o, i) ==
    \/ <<o, i>> \in disclosed
    \/ \E w \in Workers : pc[w] = "send" /\ o \in batch[w] /\ parcel[w][o] = i

(* An item named by an order is named by no other; one that became known   *)
(* is still named by the order it was sent for, or is withdrawn for good   *)
(* and named by none.                                                      *)
ItemsNamedOnce ==
    /\ \A o \in Orders : status[o] = "NONE" => goods[o] = NoItem
    /\ \A o, p \in Orders : goods[o] \in Items /\ goods[o] = goods[p] => o = p

KnownIsNamed ==
    /\ \A o \in Orders : \A i \in Items : Known(o, i) =>
          goods[o] = i \/ (stock[i] = "DISABLED" /\ IndexAdmits(i))
    /\ \A o, p \in Orders : \A i \in Items :
          Known(o, i) /\ Known(p, i) => o = p

SecretInvariant == ItemsNamedOnce /\ KnownIsNamed

(* Orders delivered alone that no administrator has recovered.             *)
Untouched(o) == o \in Orders \ Quick /\ recovery[o] = "NONE"

IsOut(o) == \E i \in Items : <<o, i>> \in disclosed

(* While it waits nobody attempts it and nothing of it is known; it is     *)
(* attempted by one worker at a time, and nothing of it is out before that *)
(* worker's message is.                                                    *)
AttemptedOnce ==
    \A o \in Orders : Untouched(o) =>
        /\ status[o] \in {"NONE", "PENDING_DELIVERY"} =>
              ~IsOut(o) /\ \A w \in Workers : ~Attempts(w, o)
        /\ \A v, w \in Workers : Attempts(v, o) /\ Attempts(w, o) => v = w
        /\ \A w \in Workers : Attempts(w, o) /\ pc[w] \in Early => ~IsOut(o)

GatherIsQuick == \A w \in Workers : pc[w] = "gather" => job[w] \in Quick

ShelfIsUnknown ==
    \A o \in Orders : \A i \in Items :
        Untouched(o) /\ Known(o, i) => stock[i] \notin {"AVAILABLE", "DELETED"}

AloneInvariant == GatherIsQuick /\ AttemptedOnce /\ ShelfIsUnknown

-----------------------------------------------------------------------------
(* What a step of one worker does to its position and to what is known.    *)

WorkStep(w) == \/ \E o \in Orders : Take(w, o)
               \/ Advance(w) \/ Crash(w) \/ Fails(w)

(* The other workers stand still.                                          *)
OthersStay(w) ==
    \A v \in Workers \ {w} : /\ pc'[v] = pc[v] /\ job'[v] = job[v]
                             /\ batch'[v] = batch[v] /\ parcel'[v] = parcel[v]

(* The kinds of a worker's step: it attempts nothing afterwards; it claims *)
(* an order, or the group of a checkout; it goes on with its attempt.      *)
Rests(w) == pc'[w] \notin Attempt /\ (pc'[w] = "gather" => job'[w] \in Quick)

Begins(w) ==
    /\ pc'[w] = "mark" /\ job[w] \in Orders \ Quick /\ batch'[w] = {job[w]}
    /\ status[job[w]] = "PENDING_DELIVERY" /\ status'[job[w]] = "DELIVERING"

BeginsGroup(w) ==
    pc'[w] = "mark" /\ batch'[w] \in SUBSET Quick

GoesOn(w) ==
    /\ batch'[w] = batch[w]
    /\ <<pc[w], pc'[w]>> \in {<<"mark", "load">>, <<"load", "send">>,
                              <<"send", "confirm">>, <<"send", "reset">>}
    /\ pc[w] = "load" => /\ \A o \in batch[w] : CanLoad(o, parcel'[w][o])
                         /\ UNCHANGED storeVars

Discloses(w) ==
    pc[w] = "send" /\ pc'[w] \notin Early /\ disclosed' = Sent(w)

Turn(w) ==
    /\ OthersStay(w)
    /\ Rests(w) \/ Begins(w) \/ BeginsGroup(w) \/ GoesOn(w)
    /\ UNCHANGED disclosed \/ Discloses(w)

LEMMA Leaves ==
    ASSUME WorkerTypeOK, NEW w \in Workers,
           Idle(w) \/ Unrecoverable(w) \/ Finish(w) \/ Rethrow(w)
           \/ EndOfFailure(w)
    PROVE  OthersStay(w) /\ pc'[w] \in {"idle", "reject"}
BY DEF Idle, Unrecoverable, Finish, Rethrow, EndOfFailure, OthersStay,
       WorkerTypeOK

LEMMA Goes ==
    ASSUME WorkerTypeOK, NEW w \in Workers, NEW label, Goto(w, label)
    PROVE  OthersStay(w) /\ pc'[w] = label /\ batch'[w] = batch[w]
           /\ job'[w] = job[w]
BY DEF Goto, OthersStay, WorkerTypeOK

LEMMA TakeTurn ==
    ASSUME TypeOK, NEW w \in Workers, NEW o \in Orders, Take(w, o)
    PROVE  Turn(w)
<1>1. Start(o) \notin Attempt \cup {"gather"}
  BY DEF Start, Attempt, Early
<1>2. pc'[w] \notin Attempt \cup {"gather"} /\ OthersStay(w)
  BY <1>1 DEF Take, TypeOK, WorkerTypeOK, OthersStay, Attempt, Early
<1> QED
  BY <1>2 DEF Turn, Rests, Take

LEMMA ClaimTurn ==
    ASSUME TypeOK, NEW w \in Workers, Claim(w) PROVE Turn(w)
<1>1. job[w] \in Orders /\ WorkerTypeOK /\ StoreTypeOK
  BY DEF Claim, TypeOK, WorkerTypeOK
<1>2. CASE Goto(w, "recheck")
  BY <1>1, <1>2, Goes DEF Claim, Turn, Rests, Attempt, Early
<1>3. CASE /\ job[w] \in Quick
           /\ pc' = [pc EXCEPT ![w] = "gather"]
           /\ UNCHANGED <<batch, job, parcel>>
  BY <1>1, <1>3
  DEF Claim, Turn, Rests, OthersStay, WorkerTypeOK, Attempt, Early
<1>4. CASE /\ job[w] \notin Quick /\ Claimable(job[w])
           /\ status' = [status EXCEPT ![job[w]] = "DELIVERING"]
           /\ pc' = [pc EXCEPT ![w] = "mark"]
           /\ batch' = [batch EXCEPT ![w] = {job[w]}]
           /\ UNCHANGED <<job, parcel>>
  <2>1. Begins(w)
    BY <1>1, <1>4 DEF Begins, Claimable, StoreTypeOK, WorkerTypeOK
  <2>. QED  BY <1>1, <1>4, <2>1 DEF Claim, Turn, OthersStay, WorkerTypeOK
<1> QED
  BY <1>2, <1>3, <1>4 DEF Claim

LEMMA GatherTurn ==
    ASSUME TypeOK, GatherIsQuick, NEW w \in Workers, Gather(w) PROVE Turn(w)
<1>1. /\ job[w] \in Orders /\ job[w] \in Quick /\ WorkerTypeOK
      /\ UNCHANGED disclosed
  BY DEF Gather, GatherIsQuick, TypeOK, WorkerTypeOK
<1>2. CASE Finish(w)
  BY <1>1, <1>2, Leaves DEF Turn, Rests, Attempt, Early
<1>3. CASE /\ pc' = [pc EXCEPT ![w] = "mark"]
           /\ batch' = [batch EXCEPT ![w] = OpenIn(Group(job[w]))]
           /\ UNCHANGED <<job, parcel>>
  <2>1. OpenIn(Group(job[w])) \in SUBSET Quick
    BY <1>1, BatchesPartitionOrders DEF OpenIn, Group
  <2>2. BeginsGroup(w) /\ OthersStay(w)
    BY <1>1, <1>3, <2>1 DEF BeginsGroup, OthersStay, WorkerTypeOK
  <2>. QED  BY <1>1, <2>2 DEF Turn
<1> QED
  BY <1>2, <1>3 DEF Gather

LEMMA LoadTurn ==
    ASSUME TypeOK, NEW w \in Workers, Load(w) PROVE Turn(w)
<1>1. WorkerTypeOK /\ pc[w] = "load" /\ batch[w] \in SUBSET Orders
      /\ UNCHANGED disclosed
  BY DEF Load, TypeOK, WorkerTypeOK
<1>2. CASE Unrecoverable(w)
  BY <1>1, <1>2, Leaves DEF Turn, Rests, Attempt, Early
<1>3. CASE ~Unrecoverable(w)
  <2>1. PICK pick \in [batch[w] -> Items] :
          /\ \A o \in batch[w] : CanLoad(o, pick[o])
          /\ parcel' = [parcel EXCEPT ![w] =
                [o \in Orders |->
                    IF o \in batch[w] THEN pick[o] ELSE NoItem]]
          /\ pc' = [pc EXCEPT ![w] = "send"]
          /\ UNCHANGED <<job, batch>>
    BY <1>3 DEF Load
  <2>2. \A o \in batch[w] : parcel'[w][o] = pick[o]
    BY <1>1, <2>1 DEF WorkerTypeOK
  <2>3. /\ OthersStay(w) /\ pc'[w] = "send" /\ batch'[w] = batch[w]
        /\ UNCHANGED storeVars
    BY <1>1, <2>1 DEF WorkerTypeOK, OthersStay, Load
  <2>4. GoesOn(w)
    BY <1>1, <2>1, <2>2, <2>3 DEF GoesOn
  <2>. QED  BY <1>1, <2>3, <2>4 DEF Turn
<1> QED
  BY <1>2, <1>3

LEMMA SendTurn ==
    ASSUME TypeOK, NEW w \in Workers, Send(w) PROVE Turn(w)
<1>1. WorkerTypeOK /\ pc[w] = "send"
  BY DEF Send, TypeOK
<1>2. CASE Goto(w, "confirm") /\ disclosed' = Sent(w)
  BY <1>1, <1>2, Goes DEF Turn, GoesOn, Discloses, Early
<1>3. CASE Goto(w, "reset") /\ UNCHANGED disclosed
  BY <1>1, <1>3, Goes DEF Turn, GoesOn
<1>4. CASE Unrecoverable(w) /\ disclosed' \in {disclosed, Sent(w)}
  BY <1>1, <1>4, Leaves DEF Turn, Rests, Discloses, Attempt, Early
<1> QED
  BY <1>2, <1>3, <1>4 DEF Send

LEMMA WorkTurn ==
    ASSUME TypeOK, GatherIsQuick, NEW w \in Workers, WorkStep(w)
    PROVE  Turn(w)
<1>1. WorkerTypeOK
  BY DEF TypeOK
<1>2. CASE Crash(w) \/ Fails(w) \/ Recheck(w) \/ RejectGroup(w) \/ Reset(w)
           \/ Confirm(w)
  BY <1>1, <1>2, Leaves
  DEF Crash, Fails, Recheck, RejectGroup, Reset, Confirm, Turn, Rests,
      Attempt, Early
<1>3. CASE FindRoot(w)
  BY <1>1, <1>3, Leaves, Goes DEF FindRoot, Turn, Rests, Attempt, Early
<1>4. CASE Mark(w)
  BY <1>1, <1>4, Goes DEF Mark, Turn, GoesOn
<1>5. CASE Reject(w)
  BY <1>1, <1>5, Leaves, Goes DEF Reject, Turn, Rests, Attempt, Early
<1> QED
  BY <1>2, <1>3, <1>4, <1>5, TakeTurn, ClaimTurn, GatherTurn, LoadTurn,
     SendTurn DEF WorkStep, Advance

(* Everybody else leaves the workers where they are.                       *)
LEMMA NextTurn ==
    ASSUME TypeOK, GatherIsQuick, [Next]_vars
    PROVE  \/ UNCHANGED <<workerVars, disclosed>>
           \/ \E w \in Workers : WorkStep(w) /\ Turn(w)
<1>1. CASE Shop
  BY <1>1 DEF Shop, PurchaseOne, PurchaseBatch, RepeatPurchase, Dispatch
<1>2. CASE Administer
  BY <1>2 DEF Administer, Resend, Replace, RefundOrder, Requeue, RequeueFails,
              ReleaseExpired, Housekeeping
<1>3. CASE Maintain
  BY <1>3 DEF Maintain, MaintenanceRead, MaintenancePublish
<1>4. CASE Work
  BY <1>4, WorkTurn DEF Work, WorkStep
<1>5. CASE UNCHANGED vars
  BY <1>5 DEF vars
<1> QED
  BY <1>1, <1>2, <1>3, <1>4, <1>5 DEF Next

LEMMA GatherKept ==
    ASSUME TypeOK, GatherIsQuick, [Next]_vars PROVE GatherIsQuick'
<1>1. CASE UNCHANGED <<workerVars, disclosed>>
  BY <1>1 DEF GatherIsQuick, workerVars
<1>2. ASSUME NEW w \in Workers, Turn(w) PROVE GatherIsQuick'
  BY <1>2 DEF Turn, GatherIsQuick, OthersStay, Rests, Begins, BeginsGroup,
              GoesOn
<1> QED
  BY <1>1, <1>2, NextTurn

(* A secret becomes known only as one loads the item that is reserved.     *)
LEMMA KnownFrom ==
    ASSUME TypeOK, GatherIsQuick, [Next]_vars, NEW o \in Orders,
           NEW i \in Items, Known(o, i)'
    PROVE  Known(o, i) \/ (CanLoad(o, i) /\ UNCHANGED storeVars)
<1>1. CASE UNCHANGED <<workerVars, disclosed>>
  BY <1>1 DEF Known, workerVars
<1>2. ASSUME NEW w \in Workers, Turn(w)
      PROVE  Known(o, i) \/ (CanLoad(o, i) /\ UNCHANGED storeVars)
  <2>1. CASE <<o, i>> \in disclosed'
    BY <1>2, <2>1 DEF Turn, Discloses, Sent, Known
  <2>2. ASSUME NEW v \in Workers, pc'[v] = "send", o \in batch'[v],
               parcel'[v][o] = i
        PROVE  Known(o, i) \/ (CanLoad(o, i) /\ UNCHANGED storeVars)
    <3>1. CASE v # w
      BY <1>2, <2>2, <3>1 DEF Turn, OthersStay, Known
    <3>2. CASE v = w
      BY <1>2, <2>2, <3>2
      DEF Turn, Rests, Begins, BeginsGroup, GoesOn, Attempt, Early
    <3>. QED  BY <3>1, <3>2
  <2>. QED  BY <2>1, <2>2 DEF Known
<1> QED
  BY <1>1, <1>2, NextTurn

-----------------------------------------------------------------------------
(* A secret is for one order.                                              *)

(* A step that neither stores an order nor gives one another item.         *)
NamesStay ==
    /\ goods' = goods
    /\ \A o \in Orders : status'[o] = "NONE" => status[o] = "NONE"
    /\ \A i \in Items : stock[i] = "DISABLED" => stock'[i] = "DISABLED"

(* The other steps: orders are placed, or one gets another item.           *)
NewNames(b, pick) ==
    /\ b \in SUBSET Orders /\ pick \in [b -> Items]
    /\ \A o \in b : status[o] = "NONE"
    /\ \A o \in b : \A p \in Orders : goods[p] # pick[o]
    /\ \A o \in b : stock[pick[o]] = "AVAILABLE"
    /\ \A o, p \in b : o # p => pick[o] # pick[p]
    /\ \A o \in Orders : goods'[o] = IF o \in b THEN pick[o] ELSE goods[o]
    /\ \A o \in Orders :
          status'[o] = "NONE" => status[o] = "NONE" /\ o \notin b
    /\ \A i \in Items : stock[i] = "DISABLED" => stock'[i] = "DISABLED"

OtherName(o, i) ==
    /\ i \in Items /\ stock[i] = "AVAILABLE"
    /\ goods[o] \in Items /\ goods[o] # i
    /\ \A p \in Orders : goods[p] # i
    /\ \A p \in Orders : goods'[p] = IF p = o THEN i ELSE goods[p]
    /\ stock'[goods[o]] = "DISABLED"
    /\ \A p \in Orders : status'[p] = "NONE" => status[p] = "NONE" /\ p # o
    /\ \A j \in Items : stock[j] = "DISABLED" => stock'[j] = "DISABLED"

LEMMA PlaceNames ==
    ASSUME StoreTypeOK, NEW o \in Orders, PlaceSome(o)
    PROVE  \E b, pick : NewNames(b, pick)
<1>. DEFINE b == BatchOf[o]
<1>0. b \in SUBSET Orders
  BY BatchesPartitionOrders
<1>1. PICK tot \in [b -> Nat], charge \in Int :
        PlaceOrders(b, Buyer[o], tot, charge)
  BY DEF PlaceSome
<1>2. PICK pick \in [b -> Shelf] :
         /\ OldestFirst(pick)
         /\ \A p \in b : IndexAdmits(pick[p])
         /\ goods' = [p \in Orders |-> IF p \in b THEN pick[p] ELSE goods[p]]
         /\ stock' = [i \in Items |-> IF \E p \in b : pick[p] = i
                                      THEN "RESERVED" ELSE stock[i]]
  BY <1>1 DEF PlaceOrders
<1>3. \A p \in b : pick[p] \in Items /\ stock[pick[p]] = "AVAILABLE"
  BY <1>2 DEF Shelf
<1>4. \A p, q \in b : p # q => pick[p] # pick[q]
  <2>1. \A p, q \in b : p < q => pick[p] < pick[q]
    BY <1>2 DEF OldestFirst
  <2>2. \A p \in b : p \in Nat /\ pick[p] \in Nat
    BY <1>0, <1>3, KeysAreNumbers
  <2>3. \A p, q \in b : p # q => p < q \/ q < p
    BY <2>2
  <2>4. \A p, q \in b : p < q => pick[p] # pick[q]
    BY <2>1, <2>2
  <2>. QED  BY <2>3, <2>4
<1>5. \A p \in Orders :
         status'[p] = IF p \in b THEN "PENDING_DELIVERY" ELSE status[p]
  BY <1>1 DEF PlaceOrders
<1>6. \A p \in b : status[p] = "NONE"
  BY <1>1 DEF PlaceOrders
<1>7. pick \in [b -> Items]
  BY <1>2, <1>3
<1>8. \A i \in Items : stock[i] = "DISABLED" => stock'[i] = "DISABLED"
  BY <1>2, <1>3
<1>9. NewNames(b, pick)
  BY <1>0, <1>2, <1>3, <1>4, <1>5, <1>6, <1>7, <1>8
  DEF NewNames, IndexAdmits
<1>. QED  BY <1>9

LEMMA ReplaceNames ==
    ASSUME StoreTypeOK, Agreement, NEW o \in Orders, MarkReplace(o)
    PROVE  \E i : OtherName(o, i)
<1>1. PICK i \in Shelf :
        /\ IndexAdmits(i)
        /\ stock' = [j \in Items |->
              IF j = i THEN "RESERVED"
              ELSE IF /\ j = goods[o] /\ j \in reservedFor[o]
                      /\ stock[j] = "RESERVED"
              THEN "DISABLED" ELSE stock[j]]
        /\ goods' = [goods EXCEPT ![o] = i]
  BY DEF MarkReplace
<1>2. i \in Items /\ stock[i] = "AVAILABLE"
  BY DEF Shelf
<1>3. /\ status[o] = "DELIVERY_FAILED"
      /\ status' = [status EXCEPT ![o] = "PENDING_DELIVERY"]
  BY DEF MarkReplace, Recoverable
<1>4. /\ goods[o] \in Items /\ goods[o] \in reservedFor[o]
      /\ stock[goods[o]] = "RESERVED"
  BY <1>3, OwnItem DEF Live
<1>5. \A p \in Orders : goods'[p] = IF p = o THEN i ELSE goods[p]
  BY <1>1 DEF StoreTypeOK
<1>6. stock'[goods[o]] = "DISABLED"
  BY <1>1, <1>2, <1>4
<1>7. \A p \in Orders : status'[p] = "NONE" => status[p] = "NONE" /\ p # o
  BY <1>3 DEF StoreTypeOK
<1>8. \A j \in Items : stock[j] = "DISABLED" => stock'[j] = "DISABLED"
  BY <1>1, <1>2
<1>9. OtherName(o, i)
  BY <1>1, <1>2, <1>4, <1>5, <1>6, <1>7, <1>8 DEF OtherName, IndexAdmits
<1>. QED  BY <1>9

LEMMA NamesStep ==
    ASSUME TypeOK, Agreement, [Next]_vars
    PROVE  \/ NamesStay
           \/ \E b, pick : NewNames(b, pick)
           \/ \E o \in Orders : \E i : OtherName(o, i)
<1>0. StoreTypeOK /\ StoreStep
  BY NextStep DEF TypeOK
<1>1. CASE LiveMove
  BY <1>1 DEF LiveMove, NamesStay, Live, Open
<1>2. ASSUME NEW o \in Orders, Refund(o) PROVE NamesStay
  BY <1>0, <1>2 DEF Refund, NamesStay, StoreTypeOK
<1>3. ASSUME NEW i \in Items, NEW o \in Orders, ReleaseReservation(i, o)
      PROVE  NamesStay
  BY <1>0, <1>3 DEF ReleaseReservation, NamesStay, StoreTypeOK
<1>4. ASSUME NEW i \in Items, RemoveItem(i) PROVE NamesStay
  BY <1>0, <1>4 DEF RemoveItem, NamesStay, StoreTypeOK
<1>5. ASSUME NEW w \in Workers, HandOver(w) PROVE NamesStay
  <2>1. /\ \A o \in Orders : status'[o] = IF o \in batch[w] THEN "DELIVERED"
                                          ELSE status[o]
        /\ \A i \in Items : stock'[i] =
              IF \E o \in batch[w] : goods[o] = i THEN "SOLD" ELSE stock[i]
        /\ \A o \in batch[w] : stock[goods[o]] \in {"RESERVED", "SOLD"}
    BY <1>5, HandOverTakes
  <2>. QED  BY <1>5, <2>1 DEF HandOver, NamesStay
<1>. QED
  BY <1>0, <1>1, <1>2, <1>3, <1>4, <1>5, PlaceNames, ReplaceNames
  DEF StoreStep

LEMMA NamedOnceKept ==
    ASSUME TypeOK, Agreement, ItemsNamedOnce, [Next]_vars
    PROVE  ItemsNamedOnce'
<1>0. goods \in [Orders -> Items \cup {NoItem}] /\ NoItem \notin Items
  BY KeysAreNumbers DEF TypeOK, StoreTypeOK
<1>1. CASE NamesStay
  BY <1>1 DEF NamesStay, ItemsNamedOnce
<1>2. ASSUME NEW b, NEW pick, NewNames(b, pick) PROVE ItemsNamedOnce'
  BY <1>0, <1>2 DEF NewNames, ItemsNamedOnce
<1>3. ASSUME NEW o \in Orders, NEW i, OtherName(o, i) PROVE ItemsNamedOnce'
  BY <1>0, <1>3 DEF OtherName, ItemsNamedOnce
<1>. QED  BY <1>1, <1>2, <1>3, NamesStep

(* What the store does with an item that is known.                         *)
LEMMA KnownStays ==
    ASSUME TypeOK, Agreement, SecretInvariant, [Next]_vars, NEW o \in Orders,
           NEW i \in Items, Known(o, i)
    PROVE  goods'[o] = i \/ (stock'[i] = "DISABLED" /\ IndexAdmits(i)')
<1>0. goods[o] = i \/ (stock[i] = "DISABLED" /\ IndexAdmits(i))
  BY DEF SecretInvariant, KnownIsNamed
<1>1. CASE NamesStay
  BY <1>0, <1>1 DEF NamesStay, IndexAdmits
<1>2. ASSUME NEW b, NEW pick, NewNames(b, pick)
      PROVE  goods'[o] = i \/ (stock'[i] = "DISABLED" /\ IndexAdmits(i)')
  <2>1. CASE goods[o] = i
    <3>1. o \notin b
      BY <1>2, <2>1, KeysAreNumbers
      DEF NewNames, SecretInvariant, ItemsNamedOnce
    <3>. QED  BY <1>2, <2>1, <3>1 DEF NewNames
  <2>2. CASE stock[i] = "DISABLED" /\ IndexAdmits(i)
    <3>1. \A p \in b : pick[p] # i
      BY <1>2, <2>2 DEF NewNames
    <3>. QED  BY <1>2, <2>2, <3>1 DEF NewNames, IndexAdmits
  <2>. QED  BY <1>0, <2>1, <2>2
<1>3. ASSUME NEW p \in Orders, NEW j, OtherName(p, j)
      PROVE  goods'[o] = i \/ (stock'[i] = "DISABLED" /\ IndexAdmits(i)')
  <2>1. CASE goods[o] = i /\ o # p
    BY <1>3, <2>1 DEF OtherName
  <2>2. CASE goods[o] = i /\ o = p
    BY <1>3, <2>2 DEF OtherName, SecretInvariant, ItemsNamedOnce, IndexAdmits
  <2>3. CASE stock[i] = "DISABLED" /\ IndexAdmits(i)
    <3>1. j # i
      BY <1>3, <2>3 DEF OtherName
    <3>. QED  BY <1>3, <2>3, <3>1 DEF OtherName, IndexAdmits
  <2>. QED  BY <1>0, <2>1, <2>2, <2>3
<1>. QED  BY <1>1, <1>2, <1>3, NamesStep

LEMMA SecretKept ==
    ASSUME TypeOK, Agreement, GatherIsQuick, SecretInvariant, [Next]_vars
    PROVE  SecretInvariant'
<1>1. ItemsNamedOnce'
  BY NamedOnceKept DEF SecretInvariant
<1>2. ASSUME NEW o \in Orders, NEW i \in Items, CanLoad(o, i)
      PROVE  goods[o] = i
  BY <1>2, HeldOnce DEF CanLoad
<1>3. ASSUME NEW o \in Orders, NEW i \in Items, Known(o, i)'
      PROVE  goods'[o] = i \/ (stock'[i] = "DISABLED" /\ IndexAdmits(i)')
  BY <1>2, <1>3, KnownFrom, KnownStays DEF storeVars
<1>4. ASSUME NEW o \in Orders, NEW p \in Orders, NEW i \in Items,
             Known(o, i)', Known(p, i)'
      PROVE  o = p
  <2>1. CASE Known(o, i) /\ Known(p, i)
    BY <2>1 DEF SecretInvariant, KnownIsNamed
  <2>2. CASE UNCHANGED storeVars /\ (CanLoad(o, i) \/ CanLoad(p, i))
    <3>1. goods[o] = i \/ goods[p] = i
      BY <1>2, <2>2
    <3>2. (goods[o] = i \/ IndexAdmits(i)) /\ (goods[p] = i \/ IndexAdmits(i))
      BY <1>3, <1>4, <2>2 DEF IndexAdmits, storeVars
    <3>3. goods[o] = i /\ goods[p] = i
      BY <3>1, <3>2 DEF IndexAdmits
    <3>. QED  BY <3>3 DEF SecretInvariant, ItemsNamedOnce
  <2>. QED  BY <1>4, <2>1, <2>2, KnownFrom
<1>5. KnownIsNamed'
  <2>1. \A o \in Orders : \A i \in Items : Known(o, i)' =>
          goods'[o] = i \/ (stock'[i] = "DISABLED" /\ IndexAdmits(i)')
    BY <1>3
  <2>2. \A o, p \in Orders : \A i \in Items :
          Known(o, i)' /\ Known(p, i)' => o = p
    BY <1>4
  <2>. QED  BY <2>1, <2>2 DEF KnownIsNamed
<1>. QED  BY <1>1, <1>5 DEF SecretInvariant

LEMMA SecretBegins == Init => SecretInvariant /\ AloneInvariant
<1>. SUFFICES ASSUME Init PROVE SecretInvariant /\ AloneInvariant
  OBVIOUS
<1>1. /\ goods = [o \in Orders |-> NoItem]
      /\ pc = [w \in Workers |-> "idle"] /\ disclosed = {}
  BY DEF Init, StoreInit
<1>2. ItemsNamedOnce
  BY <1>1, KeysAreNumbers DEF ItemsNamedOnce
<1>3. \A o \in Orders : \A i \in Items : ~Known(o, i)
  BY <1>1 DEF Known
<1>4. KnownIsNamed /\ ShelfIsUnknown
  BY <1>3 DEF KnownIsNamed, ShelfIsUnknown
<1>5. GatherIsQuick /\ AttemptedOnce
  BY <1>1 DEF GatherIsQuick, AttemptedOnce, Attempts, Attempt, Early, IsOut
<1>. QED  BY <1>2, <1>4, <1>5 DEF SecretInvariant, AloneInvariant

LEMMA SecretHolds == Spec => [](GatherIsQuick /\ SecretInvariant)
<1>1. Init => GatherIsQuick /\ SecretInvariant
  BY SecretBegins DEF AloneInvariant
<1>2. TypeOK /\ Agreement /\ GatherIsQuick /\ SecretInvariant /\ [Next]_vars
        => (GatherIsQuick /\ SecretInvariant)'
  BY GatherKept, SecretKept
<1>. QED  BY <1>1, <1>2, TypeCorrect, AgreementHolds, PTL DEF Spec

(* What was sent for one order is never sent for another, although items   *)
(* are released, replaced and bought again while workers hold them.        *)
THEOREM SecretIsForOne == Spec => []OneOrderPerSecret
<1>1. SecretInvariant => OneOrderPerSecret
  BY DEF SecretInvariant, KnownIsNamed, Known, OneOrderPerSecret
<1>. QED  BY <1>1, SecretHolds, PTL

-----------------------------------------------------------------------------
(* An order delivered alone is sent once before it is recovered.           *)

(* An administrator's action stays on record.                              *)
LEMMA RecoveryStays ==
    ASSUME TypeOK, [Next]_vars, NEW o \in Orders, Untouched(o)'
    PROVE  Untouched(o)
<1>0. StoreTypeOK
  BY DEF TypeOK
<1>1. CASE Shop
  BY <1>1 DEF Shop, PurchaseOne, PurchaseBatch, RepeatPurchase, Dispatch,
              BuyOne, BuyBatch, PlaceOrders, storeVars, Untouched
<1>2. CASE Administer
  <2>1. ASSUME NEW p \in Orders, MarkResend(p) \/ MarkReplace(p) \/ Refund(p)
        PROVE  Untouched(o)
    BY <1>0, <2>1 DEF MarkResend, MarkReplace, Refund, StoreTypeOK, Untouched
  <2>2. CASE UNCHANGED recovery
    BY <2>2 DEF Untouched
  <2>. QED
    BY <1>2, <2>1, <2>2
    DEF Administer, Resend, Replace, RefundOrder, Requeue, RequeueFails,
        StatusOnly, ReleaseExpired, ReleaseReservation, Housekeeping,
        RemoveItem, ToggleUser, storeVars
<1>3. CASE Maintain
  BY <1>3 DEF Maintain, MaintenanceRead, MaintenancePublish, storeVars,
              Untouched
<1>4. CASE Work
  <2>1. recovery' = recovery
    BY <1>4 DEF Work, Take, Advance, Crash, Fails, FindRoot, Claim, Recheck,
                Gather, Mark, Load, Send, Confirm, Reset, Reject, RejectGroup,
                StatusOnly, storeVars
  <2>. QED  BY <2>1 DEF Untouched
<1>5. CASE UNCHANGED vars
  BY <1>5 DEF vars, storeVars, Untouched
<1>. QED  BY <1>1, <1>2, <1>3, <1>4, <1>5 DEF Next

(* An order that waits and was not recovered waited before, was not stored *)
(* before, or was put back by the worker that attempted it.                *)
LEMMA WaitsFrom ==
    ASSUME TypeOK, Agreement, [Next]_vars, NEW o \in Orders, Untouched(o)',
           status'[o] \in {"NONE", "PENDING_DELIVERY"}
    PROVE  \/ status[o] \in {"NONE", "PENDING_DELIVERY"}
           \/ \E w \in Workers : Reset(w) /\ o \in batch[w]
<1>. DEFINE Waits == status[o] \in {"NONE", "PENDING_DELIVERY"}
<1>0. StoreTypeOK
  BY DEF TypeOK
<1>1. ASSUME NEW S, NEW from, NEW to, Move(S, from, to),
             to # "PENDING_DELIVERY", to # "NONE"
      PROVE  Waits
  BY <1>0, <1>1 DEF Move, StoreTypeOK
<1>2. CASE status' = status
  BY <1>2
<1>3. ASSUME NEW b, NEW u, NEW tot, NEW charge, PlaceOrders(b, u, tot, charge)
      PROVE  Waits
  BY <1>0, <1>3 DEF PlaceOrders, StoreTypeOK
<1>4. CASE Shop
  BY <1>2, <1>3, <1>4 DEF Shop, PurchaseOne, PurchaseBatch, RepeatPurchase,
              Dispatch, BuyOne, BuyBatch, storeVars
<1>5. CASE Administer
  <2>1. ASSUME NEW p \in Orders, MarkResend(p) \/ MarkReplace(p) \/ Refund(p)
        PROVE  Waits
    BY <1>0, <2>1 DEF MarkResend, MarkReplace, Refund, StoreTypeOK, Untouched
  <2>2. ASSUME NEW i \in Items, NEW p \in Orders, ReleaseReservation(i, p)
        PROVE  Waits
    BY <1>0, <2>2 DEF ReleaseReservation, StoreTypeOK
  <2>3. ASSUME NEW p \in Orders, RequeueFails(p)
        PROVE  Waits
    BY <1>1, <2>3 DEF RequeueFails
  <2>. QED
    BY <1>2, <1>5, <2>1, <2>2, <2>3
    DEF Administer, Resend, Replace, RefundOrder, Requeue, ReleaseExpired,
        Housekeeping, RemoveItem, ToggleUser, storeVars
<1>6. CASE Maintain
  BY <1>2, <1>6 DEF Maintain, MaintenanceRead, MaintenancePublish, storeVars
<1>7. CASE Work
  <2>. PICK w \in Workers : \/ \E p \in Orders : Take(w, p)
                            \/ Advance(w) \/ Crash(w) \/ Fails(w)
    BY <1>7 DEF Work
  <2>1. CASE \/ \E p \in Orders : Take(w, p)
             \/ Crash(w) \/ Fails(w) \/ FindRoot(w) \/ Recheck(w) \/ Gather(w)
             \/ Load(w) \/ Send(w)
    BY <1>2, <2>1 DEF Take, Crash, Fails, FindRoot, Recheck, Gather, Load,
                      Send, storeVars
  <2>2. CASE Claim(w)
    BY <1>0, <1>2, <2>2 DEF Claim, StoreTypeOK
  <2>3. CASE Mark(w) \/ Reject(w) \/ RejectGroup(w)
    BY <1>1, <2>3 DEF Mark, Reject, RejectGroup
  <2>4. CASE Confirm(w)
    BY <1>1, <1>2, <2>4 DEF Confirm, storeVars
  <2>5. CASE Reset(w)
    BY <1>0, <2>5 DEF Reset, Move, StoreTypeOK
  <2>. QED  BY <2>1, <2>2, <2>3, <2>4, <2>5 DEF Advance
<1>8. CASE UNCHANGED vars
  BY <1>2, <1>8 DEF vars, storeVars
<1>. QED  BY <1>4, <1>5, <1>6, <1>7, <1>8 DEF Next

LEMMA AttemptFrom ==
    ASSUME NEW w \in Workers, Turn(w), NEW v \in Workers,
           NEW o \in Orders \ Quick, Attempts(v, o)'
    PROVE  \/ Attempts(v, o) /\ (pc'[v] \in Early => pc[v] \in Early)
           \/ v = w /\ Begins(w) /\ o = job[w]
<1>1. CASE v # w
  BY <1>1 DEF Turn, OthersStay, Attempts
<1>2. CASE v = w
  BY <1>2 DEF Turn, Rests, Begins, BeginsGroup, GoesOn, Attempts, Attempt,
              Early
<1>. QED  BY <1>1, <1>2

LEMMA OutFrom ==
    ASSUME NEW w \in Workers, Turn(w), NEW o \in Orders, IsOut(o)'
    PROVE  IsOut(o) \/ (Discloses(w) /\ Attempts(w, o))
BY DEF Turn, IsOut, Discloses, Sent, Attempts, Attempt, Early

LEMMA ResetEnds ==
    ASSUME TypeOK, NEW w \in Workers, Reset(w)
    PROVE  /\ pc[w] = "reset" /\ pc'[w] \notin Attempt /\ OthersStay(w)
           /\ UNCHANGED disclosed
BY Leaves DEF Reset, TypeOK, Attempt, Early

LEMMA AttemptedKept ==
    ASSUME TypeOK, Agreement, AloneInvariant, [Next]_vars
    PROVE  AttemptedOnce'
<1>. SUFFICES ASSUME NEW o \in Orders, Untouched(o)'
              PROVE
        /\ status'[o] \in {"NONE", "PENDING_DELIVERY"} =>
              ~IsOut(o)' /\ \A w \in Workers : ~Attempts(w, o)'
        /\ \A v, w \in Workers : Attempts(v, o)' /\ Attempts(w, o)' => v = w
        /\ \A w \in Workers : Attempts(w, o)' /\ pc'[w] \in Early => ~IsOut(o)'
  BY DEF AttemptedOnce
<1>0. Untouched(o) /\ o \in Orders \ Quick
  BY RecoveryStays DEF Untouched
<1>1. /\ status[o] \in {"NONE", "PENDING_DELIVERY"} =>
            ~IsOut(o) /\ \A w \in Workers : ~Attempts(w, o)
      /\ \A v, w \in Workers : Attempts(v, o) /\ Attempts(w, o) => v = w
      /\ \A w \in Workers : Attempts(w, o) /\ pc[w] \in Early => ~IsOut(o)
  BY <1>0 DEF AloneInvariant, AttemptedOnce
<1>2. CASE UNCHANGED <<workerVars, disclosed>>
  <2>1. /\ IsOut(o)' <=> IsOut(o)
        /\ pc' = pc
        /\ \A w \in Workers : Attempts(w, o)' <=> Attempts(w, o)
    BY <1>2 DEF IsOut, Attempts, workerVars
  <2>2. \A w \in Workers : ~Reset(w)
    BY <2>1, ResetEnds DEF Attempt, Early
  <2>3. status'[o] \in {"NONE", "PENDING_DELIVERY"} =>
          status[o] \in {"NONE", "PENDING_DELIVERY"}
    BY <2>2, WaitsFrom
  <2>. QED  BY <1>1, <2>1, <2>3
<1>3. ASSUME NEW w \in Workers, Turn(w)
      PROVE
        /\ status'[o] \in {"NONE", "PENDING_DELIVERY"} =>
              ~IsOut(o)' /\ \A v \in Workers : ~Attempts(v, o)'
        /\ \A u, v \in Workers : Attempts(u, o)' /\ Attempts(v, o)' => u = v
        /\ \A v \in Workers : Attempts(v, o)' /\ pc'[v] \in Early => ~IsOut(o)'
  <2>1. \A v \in Workers : Attempts(v, o)' =>
           \/ Attempts(v, o) /\ (pc'[v] \in Early => pc[v] \in Early)
           \/ v = w /\ Begins(w) /\ o = job[w]
    BY <1>0, <1>3, AttemptFrom
  <2>2. IsOut(o)' => IsOut(o) \/ (Discloses(w) /\ Attempts(w, o))
    BY <1>3, OutFrom
  <2>3. Begins(w) /\ o = job[w] => /\ status[o] = "PENDING_DELIVERY"
                                   /\ status'[o] = "DELIVERING"
    BY DEF Begins
  <2>4. ASSUME status'[o] \in {"NONE", "PENDING_DELIVERY"}
        PROVE  ~IsOut(o)' /\ \A v \in Workers : ~Attempts(v, o)'
    <3>1. CASE status[o] \in {"NONE", "PENDING_DELIVERY"}
      BY <1>1, <2>1, <2>2, <2>3, <2>4, <3>1
    <3>2. ASSUME NEW v \in Workers, Reset(v), o \in batch[v]
          PROVE  ~IsOut(o)' /\ \A u \in Workers : ~Attempts(u, o)'
      <4>1. /\ pc[v] = "reset" /\ pc'[v] \notin Attempt
            /\ UNCHANGED disclosed
        BY <3>2, ResetEnds
      <4>2. Attempts(v, o) /\ pc[v] \in Early /\ ~Attempts(v, o)'
        BY <3>2, <4>1 DEF Attempts, Attempt, Early
      <4>3. ~IsOut(o)'
        BY <1>1, <4>1, <4>2 DEF IsOut
      <4>4. \A u \in Workers : ~Attempts(u, o)'
        BY <1>1, <2>1, <2>3, <2>4, <4>2
      <4>. QED  BY <4>3, <4>4
    <3>. QED  BY <2>4, <3>1, <3>2, WaitsFrom
  <2>5. \A u, v \in Workers : Attempts(u, o)' /\ Attempts(v, o)' => u = v
    BY <1>1, <2>1, <2>3
  <2>6. ASSUME NEW v \in Workers, Attempts(v, o)', pc'[v] \in Early
        PROVE  ~IsOut(o)'
    <3>1. CASE Attempts(v, o) /\ pc[v] \in Early
      <4>1. Discloses(w) /\ Attempts(w, o) => v = w
        BY <1>1, <3>1
      <4>2. ~(Discloses(w) /\ Attempts(w, o))
        BY <2>6, <4>1 DEF Discloses
      <4>. QED  BY <1>1, <2>2, <3>1, <4>2
    <3>2. CASE v = w /\ Begins(w) /\ o = job[w]
      BY <1>1, <2>2, <2>3, <3>2
    <3>. QED  BY <2>1, <2>6, <3>1, <3>2
  <2>. QED  BY <2>4, <2>5, <2>6
<1>. QED  BY <1>2, <1>3, NextTurn DEF AloneInvariant

(* Stock comes back to the shelf by a release alone.                       *)
LEMMA ShelvedBy ==
    ASSUME TypeOK, Agreement, [Next]_vars, NEW i \in Items,
           stock[i] \notin {"AVAILABLE", "DELETED"},
           stock'[i] \in {"AVAILABLE", "DELETED"}
    PROVE  \E o \in Orders : ReleaseReservation(i, o)
<1>0. StoreTypeOK /\ StoreStep
  BY NextStep DEF TypeOK
<1>1. ~LiveMove
  BY DEF LiveMove
<1>2. ASSUME NEW o \in Orders, PlaceSome(o) \/ MarkReplace(o) \/ Refund(o)
      PROVE  FALSE
  BY <1>0, <1>2 DEF PlaceSome, PlaceOrders, MarkReplace, Refund, StoreTypeOK
<1>3. ASSUME NEW j \in Items, NEW o \in Orders, ReleaseReservation(j, o)
      PROVE  ReleaseReservation(i, o)
  BY <1>0, <1>3 DEF ReleaseReservation, StoreTypeOK
<1>4. ASSUME NEW j \in Items, RemoveItem(j) PROVE FALSE
  BY <1>0, <1>4 DEF RemoveItem, StoreTypeOK
<1>5. ASSUME NEW w \in Workers, HandOver(w) PROVE FALSE
  BY <1>5 DEF HandOver
<1>. QED  BY <1>0, <1>1, <1>2, <1>3, <1>4, <1>5 DEF StoreStep

LEMMA ShelfKept ==
    ASSUME TypeOK, Agreement, SecretInvariant, AloneInvariant, [Next]_vars
    PROVE  ShelfIsUnknown'
<1>. SUFFICES ASSUME NEW o \in Orders, NEW i \in Items, Untouched(o)',
                     Known(o, i)', stock'[i] \in {"AVAILABLE", "DELETED"}
              PROVE  FALSE
  BY DEF ShelfIsUnknown
<1>0. Untouched(o) /\ GatherIsQuick
  BY RecoveryStays DEF AloneInvariant
<1>1. Known(o, i)
  <2>1. CASE CanLoad(o, i) /\ UNCHANGED storeVars
    BY <2>1 DEF CanLoad, storeVars
  <2>. QED  BY <1>0, <2>1, KnownFrom
<1>2. stock[i] \notin {"AVAILABLE", "DELETED"}
  BY <1>0, <1>1 DEF AloneInvariant, ShelfIsUnknown
<1>3. PICK p \in Orders : ReleaseReservation(i, p)
  BY <1>2, ShelvedBy
<1>4. /\ stock[i] = "RESERVED" /\ i \in reservedFor[p]
      /\ status[p] = "PENDING_DELIVERY"
  BY <1>3 DEF ReleaseReservation, Releasable
<1>5. goods[p] = i
  BY <1>4, HeldOnce
<1>6. o = p
  BY <1>1, <1>4, <1>5
  DEF SecretInvariant, KnownIsNamed, ItemsNamedOnce
<1>7. ~IsOut(o) /\ \A w \in Workers : ~Attempts(w, o)
  BY <1>0, <1>4, <1>6 DEF AloneInvariant, AttemptedOnce
<1>. QED  BY <1>1, <1>7 DEF Known, IsOut, Attempts, Attempt, Early

LEMMA AloneHolds == Spec => []AloneInvariant
<1>1. Init => AloneInvariant
  BY SecretBegins
<1>2. TypeOK /\ Agreement /\ GatherIsQuick /\ SecretInvariant
        /\ AloneInvariant /\ [Next]_vars => AloneInvariant'
  BY GatherKept, AttemptedKept, ShelfKept DEF AloneInvariant
<1>. QED  BY <1>1, <1>2, TypeCorrect, AgreementHolds, SecretHolds, PTL DEF Spec

(* Where no checkout groups orders, a worker that is about to send what    *)
(* was sent before works after an administrator's recovery, however many   *)
(* workers hold the task and wherever they die (delivery.processor.ts:49). *)
THEOREM SentOnce ==
    ASSUME Quick = {}
    PROVE  Spec => []NeverSendTwiceAutomatically
<1>1. TypeOK /\ AloneInvariant => NeverSendTwiceAutomatically
  <2>. SUFFICES ASSUME TypeOK, AloneInvariant, NEW w \in Workers,
                       pc[w] = "send", NEW o \in batch[w],
                       <<o, parcel[w][o]>> \in disclosed
                PROVE  \E p \in Group(o) : recovery[p] # "NONE"
    BY DEF NeverSendTwiceAutomatically
  <2>1. o \in Orders /\ parcel[w][o] \in Items
    BY DEF TypeOK, WorkerTypeOK
  <2>2. IsOut(o) /\ Attempts(w, o) /\ pc[w] \in Early
    BY <2>1 DEF IsOut, Attempts, Attempt, Early
  <2>3. recovery[o] # "NONE"
    BY <2>1, <2>2 DEF AloneInvariant, AttemptedOnce, Untouched
  <2>. QED  BY <2>3 DEF Group
<1>. QED  BY <1>1, TypeCorrect, AloneHolds, PTL

(* An item that an order delivered alone has disclosed does not come back  *)
(* on the shelf before that order was recovered                            *)
(* (inventory-reservation.service.ts:67).                                  *)
THEOREM ShelfIsSafe == Spec => []ShelfSafeBeforeRecovery
<1>1. AloneInvariant => ShelfSafeBeforeRecovery
  BY DEF AloneInvariant, ShelfIsUnknown, Untouched, Known,
         ShelfSafeBeforeRecovery
<1>. QED  BY <1>1, AloneHolds, PTL

-----------------------------------------------------------------------------
(* The purchase limit.                                                     *)

(* The orders that count for a customer.                                   *)
Counted(u) == {o \in Orders : /\ Buyer[o] = u
                              /\ status[o] \in Live \cup {"DELIVERED"}}

LEMMA CountedIsFinite ==
    ASSUME NEW u
    PROVE  IsFiniteSet(Counted(u)) /\ Cardinality(Counted(u)) \in Nat
<1>1. Counted(u) \in SUBSET Orders
  BY DEF Counted
<1>. QED  BY <1>1, KeysAreNumbers, FS_Subset, FS_CardinalityType

(* Only a purchase adds to them.                                           *)
LEMMA CountedFrom ==
    ASSUME TypeOK, Agreement, [Next]_vars
    PROVE  \/ \A u : Counted(u)' \subseteq Counted(u)
           \/ \E o \in Orders : PlaceSome(o)
<1>0. StoreTypeOK /\ StoreStep
  BY NextStep DEF TypeOK
<1>. DEFINE Count(s) == s \in Live \cup {"DELIVERED"}
            Less == \A o \in Orders : Count(status'[o]) => Count(status[o])
<1>1. ASSUME LiveMove PROVE Less
  BY <1>1 DEF LiveMove, Live, Open
<1>2. ASSUME NEW o \in Orders, MarkReplace(o) \/ Refund(o) PROVE Less
  BY <1>0, <1>2 DEF MarkReplace, Refund, Recoverable, StoreTypeOK, Live, Open
<1>3. ASSUME NEW i \in Items, NEW o \in Orders, ReleaseReservation(i, o)
      PROVE  Less
  BY <1>0, <1>3 DEF ReleaseReservation, StoreTypeOK, Live, Open
<1>4. ASSUME NEW i \in Items, RemoveItem(i) PROVE Less
  BY <1>4 DEF RemoveItem
<1>5. ASSUME NEW w \in Workers, HandOver(w) PROVE Less
  <2>1. \A o \in Orders :
           /\ status'[o] = IF o \in batch[w] THEN "DELIVERED" ELSE status[o]
           /\ o \in batch[w] => Count(status[o])
    BY <1>5, HandOverTakes
  <2>. QED  BY <2>1
<1>6. Less => \A u : Counted(u)' \subseteq Counted(u)
  BY DEF Counted
<1>. QED  BY <1>0, <1>1, <1>2, <1>3, <1>4, <1>5, <1>6 DEF StoreStep

LEMMA PlaceWithinLimit ==
    ASSUME TypeOK, WithinPurchaseLimit, Limit > 0, NEW o \in Orders,
           PlaceSome(o), NEW u \in Users
    PROVE  Cardinality(Counted(u)') <= Limit
<1>. DEFINE b == BatchOf[o]
<1>0. /\ StoreTypeOK /\ Limit \in Nat
      /\ b \in SUBSET Orders /\ \A p \in b : Buyer[p] = Buyer[o]
  BY AmountsAreNaturals, BatchesPartitionOrders DEF TypeOK
<1>1. /\ WithinLimit(Buyer[o], Cardinality(b))
      /\ \A p \in Orders : status'[p] = IF p \in b THEN "PENDING_DELIVERY"
                                        ELSE status[p]
  BY DEF PlaceSome, PlaceOrders
<1>2. /\ IsFiniteSet(b) /\ Cardinality(b) \in Nat
      /\ IsFiniteSet(Counted(u)) /\ Cardinality(Counted(u)) \in Nat
      /\ IsFiniteSet(Counted(u)') /\ Cardinality(Counted(u)') \in Nat
  <2>1. Counted(u)' \in SUBSET Orders
    BY DEF Counted
  <2>. QED
    BY <1>0, <2>1, CountedIsFinite, KeysAreNumbers, FS_Subset,
       FS_CardinalityType
<1>3. CASE u # Buyer[o]
  <2>1. Counted(u)' = Counted(u)
    BY <1>0, <1>1, <1>3 DEF Counted
  <2>. QED  BY <2>1 DEF WithinPurchaseLimit, Counted
<1>4. CASE u = Buyer[o]
  <2>1. Counted(u) = {p \in Orders : /\ Buyer[p] = u
                                     /\ status[p] \notin {"NONE", "CANCELLED",
                                                          "REFUNDED"}}
    BY <1>0 DEF Counted, StoreTypeOK, OrderStatus, Live, Open
  <2>2. Cardinality(Counted(u)) + Cardinality(b) <= Limit
    BY <1>0, <1>1, <1>4, <2>1 DEF WithinLimit
  <2>3. Counted(u)' \in SUBSET (Counted(u) \cup b)
    BY <1>1 DEF Counted
  <2>4. /\ IsFiniteSet(Counted(u) \cup b)
        /\ Cardinality(Counted(u) \cup b) =
              Cardinality(Counted(u)) + Cardinality(b)
                - Cardinality(Counted(u) \cap b)
    BY <1>2, FS_Union
  <2>5. Cardinality(Counted(u) \cap b) \in Nat
    <3>1. Counted(u) \cap b \in SUBSET b
      OBVIOUS
    <3>. QED  BY <1>2, <3>1, FS_Subset, FS_CardinalityType
  <2>6. Cardinality(Counted(u)') <= Cardinality(Counted(u) \cup b)
    BY <2>3, <2>4, FS_Subset
  <2>. QED  BY <1>0, <1>2, <2>2, <2>4, <2>5, <2>6
<1>. QED  BY <1>3, <1>4

LEMMA LimitKept ==
    ASSUME TypeOK, Agreement, WithinPurchaseLimit, [Next]_vars
    PROVE  WithinPurchaseLimit'
<1>. SUFFICES ASSUME Limit > 0, NEW u \in Users
              PROVE  Cardinality(Counted(u)') <= Limit
  BY DEF WithinPurchaseLimit, Counted
<1>1. CASE Counted(u)' \subseteq Counted(u)
  <2>1. /\ Cardinality(Counted(u)') <= Cardinality(Counted(u))
        /\ Cardinality(Counted(u)') \in Nat
    BY <1>1, CountedIsFinite, FS_Subset, FS_CardinalityType
  <2>2. Cardinality(Counted(u)) <= Limit
    BY DEF WithinPurchaseLimit, Counted
  <2>. QED  BY <2>1, <2>2, CountedIsFinite, AmountsAreNaturals
<1>. QED  BY <1>1, CountedFrom, PlaceWithinLimit

(* No customer holds more of the product than the limit, over any number   *)
(* of requests, checkouts and recoveries.                                  *)
THEOREM LimitIsKept == Spec => []WithinPurchaseLimit
<1>1. Init => WithinPurchaseLimit
  <2>. SUFFICES ASSUME Init, Limit > 0, NEW u \in Users
                PROVE  Cardinality(Counted(u)) <= Limit
    BY DEF WithinPurchaseLimit, Counted
  <2>1. Counted(u) = {}
    BY DEF Init, StoreInit, Counted, Live, Open
  <2>2. Cardinality(Counted(u)) = 0
    BY <2>1, FS_EmptySet
  <2>. QED  BY <2>2, AmountsAreNaturals
<1>2. TypeOK /\ Agreement /\ WithinPurchaseLimit /\ [Next]_vars
        => WithinPurchaseLimit'
  BY LimitKept
<1>. QED  BY <1>1, <1>2, TypeCorrect, AgreementHolds, PTL DEF Spec
=============================================================================
