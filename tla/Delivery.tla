------------------------------ MODULE Delivery ------------------------------
(***************************************************************************)
(* A sale from the purchase to the customer's hands: the API commits the   *)
(* orders (module Store), publishes a delivery task, and the workers run   *)
(* DeliveryProcessor.process on it while an administrator resends,         *)
(* replaces or refunds and the maintenance route republishes.              *)
(*                                                                         *)
(* A step of a worker is what happens between two awaits, so that workers, *)
(* the API and the administrator interleave wherever the code lets them.   *)
(* The queue is at-least-once: taking a task leaves it queued until it is  *)
(* acknowledged, and it may be handed to a second worker meanwhile (a      *)
(* stalled BullMQ job, a QStash redelivery).  Two runtimes are modelled:   *)
(* "server" (BullMQ: a job has failed before onFailed runs) and            *)
(* "serverless" (QStash: the task is acknowledged after onFailed).         *)
(***************************************************************************)
EXTENDS Store

CONSTANTS
    Workers,    \* the delivery workers
    NoOrder,    \* the job of a worker that has none
    Singles,    \* orders placed by purchase(), the others by purchaseBatch()
    Runtime,    \* "server" or "serverless"
    MayExhaust, \* whether the queue may run out of attempts for a task
    Repeatable, \* bound: the orders whose request may be repeated
    Removable,  \* bound: the items an administrator may remove
    Suspendable,\* bound: the users an operator may suspend
    MaxFaults   \* bound on the faults of a behaviour: crashes, lost or
                \* absorbed publications, failed sends, duplicate deliveries

VARIABLES
    tasks,         \* the orders whose delivery task is in the queue
    dispatching,   \* orders committed, their first publication still to come
    recovering,    \* orders an admin recovered, their requeue still to come
    republishing,  \* orders the maintenance run has read as pending
    pc,            \* pc[w]: where worker w is in process()
    job,           \* job[w]: the order of its task
    batch,         \* batch[w]: groupOrders
    parcel,        \* parcel[w][o]: the item it loaded for o
    disclosed,     \* history: <<o, i>> when item i was sent for order o
    faults         \* the faults so far

queueVars == <<tasks, dispatching, recovering, republishing>>
workerVars == <<pc, job, batch, parcel>>
vars == <<storeVars, queueVars, workerVars, disclosed, faults>>

ASSUME RuntimeIsKnown ==
    /\ Runtime \in {"server", "serverless"}
    /\ NoOrder \notin Orders
    /\ Singles \subseteq Orders \ Quick
    /\ \A o \in Singles : BatchOf[o] = {o}
    /\ MayExhaust \in BOOLEAN
    /\ Repeatable \subseteq Orders
    /\ Removable \subseteq Items /\ Suspendable \subseteq Users
    /\ MaxFaults \in Nat

PC == {"idle", "root", "rootBusy", "claim", "recheck", "gather", "mark",
       "load", "send", "confirm", "reset", "reject", "rejectGroup"}

NoParcel == [o \in Orders |-> NoItem]

QueueTypeOK ==
    /\ tasks \in SUBSET Orders
    /\ dispatching \in SUBSET Orders
    /\ recovering \in SUBSET Orders
    /\ republishing \in SUBSET Orders

WorkerTypeOK ==
    /\ pc \in [Workers -> PC]
    /\ job \in [Workers -> Orders \cup {NoOrder}]
    /\ batch \in [Workers -> SUBSET Orders]
    /\ parcel \in [Workers -> [Orders -> Items \cup {NoItem}]]
    /\ \A w \in Workers : pc[w] # "idle" => job[w] \in Orders
    /\ \A w \in Workers : pc[w] = "send" =>
          \A o \in batch[w] : parcel[w][o] \in Items

(* Every variable has its type; a worker at work has an order at hand, and *)
(* before it sends, an item for every order of its batch                   *)
(* (delivery.processor.ts:84-95).                                          *)
TypeOK ==
    /\ StoreTypeOK
    /\ QueueTypeOK
    /\ WorkerTypeOK
    /\ disclosed \in SUBSET (Orders \X Items)
    /\ faults \in 0..MaxFaults

Init ==
    /\ StoreInit
    /\ tasks = {} /\ dispatching = {} /\ recovering = {}
    /\ republishing = {}
    /\ pc = [w \in Workers |-> "idle"]
    /\ job = [w \in Workers |-> NoOrder]
    /\ batch = [w \in Workers |-> {}]
    /\ parcel = [w \in Workers |-> NoParcel]
    /\ disclosed = {}
    /\ faults = 0

Fault == faults < MaxFaults /\ faults' = faults + 1

(* The orders delivered together with o: those of its QR checkout.         *)
Group(o) == IF o \in Quick THEN BatchOf[o] ELSE {o}

OpenIn(S) == {o \in S : status[o] \in Open}

(* o comes first in createdAt order among the orders of S.                 *)
IsFirst(o, S) == o \in S /\ \A p \in S : o <= p

(* Orders whose status is in `from' move to `to'.                          *)
Move(S, from, to) ==
    status' = [o \in Orders |-> IF o \in S /\ status[o] \in from
                                THEN to ELSE status[o]]

StatusOnly == UNCHANGED <<goods, total, recovery, stock, reservedFor,
                          balance, active, ledger>>

-----------------------------------------------------------------------------
(* The API: purchases and the publication of their tasks.                  *)

(* The orders a committed purchase publishes: one task per order, a single *)
(* one for the orders of a QR checkout.                                    *)
ToDispatch(b) == {o \in b : o \in Quick => IsFirst(o, b)}

PurchaseOne(o) ==
    /\ o \in Singles
    /\ BuyOne(o)
    /\ dispatching' = dispatching \cup {o}
    /\ UNCHANGED <<tasks, recovering, republishing, workerVars, disclosed,
                   faults>>

PurchaseBatch(o) ==
    /\ o \notin Singles /\ IsFirst(o, BatchOf[o])
    /\ BuyBatch(BatchOf[o], Buyer[o])
    /\ dispatching' = dispatching \cup ToDispatch(BatchOf[o])
    /\ UNCHANGED <<tasks, recovering, republishing, workerVars, disclosed,
                   faults>>

(* A request is repeated, or a checkout asked about again: nothing is      *)
(* created.  purchase() publishes a pending order again, purchaseBatch()   *)
(* what it published before, redispatchPendingOrders() what is pending.    *)
Republishable(o) ==
    LET pending == {p \in BatchOf[o] : status[p] = "PENDING_DELIVERY"} IN
    \/ o \in ToDispatch(pending)
    \/ o \notin Singles /\ status[o] # "NONE" /\ o \in ToDispatch(BatchOf[o])

RepeatPurchase(o) ==
    /\ o \in Repeatable /\ Republishable(o)
    /\ dispatching' = dispatching \cup {o}
    /\ UNCHANGED <<storeVars, tasks, recovering, republishing, workerVars,
                   disclosed, faults>>

(* One publication.  It may be lost: the broker is unreachable, a finished *)
(* task of the same identifier absorbs it, or the API stops before it.     *)
Publish(o) ==
    \/ tasks' = tasks \cup {o} /\ UNCHANGED faults
    \/ Fault /\ UNCHANGED tasks

Dispatch(o) ==
    /\ o \in dispatching
    /\ dispatching' = dispatching \ {o}
    /\ Publish(o)
    /\ UNCHANGED <<storeVars, recovering, republishing, workerVars, disclosed>>

-----------------------------------------------------------------------------
(* The administrator.                                                      *)

Resend(o) ==
    /\ MarkResend(o)
    /\ recovering' = recovering \cup {o}
    /\ UNCHANGED <<tasks, dispatching, republishing, workerVars, disclosed,
                   faults>>

Replace(o) ==
    /\ MarkReplace(o)
    /\ recovering' = recovering \cup {o}
    /\ UNCHANGED <<tasks, dispatching, republishing, workerVars, disclosed,
                   faults>>

RefundOrder(o) ==
    /\ Refund(o)
    /\ UNCHANGED <<queueVars, workerVars, disclosed, faults>>

Requeue(o) ==
    /\ o \in recovering
    /\ recovering' = recovering \ {o}
    /\ Publish(o)
    /\ UNCHANGED <<storeVars, dispatching, republishing, workerVars,
                   disclosed>>

(* enqueueRecovery(): when the requeue fails the order is failed again.    *)
RequeueFails(o) ==
    /\ o \in recovering
    /\ recovering' = recovering \ {o}
    /\ Fault
    /\ Move({o}, {"PENDING_DELIVERY"}, "DELIVERY_FAILED")
    /\ StatusOnly
    /\ UNCHANGED <<tasks, dispatching, republishing, workerVars, disclosed>>

(* POST /inventory/reservations/release-expired, one item of its loop.     *)
ReleaseExpired(i) ==
    /\ \E o \in Orders : ReleaseReservation(i, o)
    /\ UNCHANGED <<queueVars, workerVars, disclosed, faults>>

Housekeeping ==
    /\ \/ \E i \in Removable : RemoveItem(i)
       \/ \E u \in Suspendable : ToggleUser(u)
    /\ UNCHANGED <<queueVars, workerVars, disclosed, faults>>

-----------------------------------------------------------------------------
(* The maintenance route, which only the serverless runtime has.           *)

(* Mutated: the route looks for deliveries that are under way.             *)
MaintenanceReadRunning(o) ==
    /\ Runtime = "serverless"
    /\ o \notin republishing /\ status[o] = "DELIVERING"
    /\ republishing' = republishing \cup {o}
    /\ UNCHANGED <<storeVars, tasks, dispatching, recovering, workerVars,
                   disclosed, faults>>

MaintenanceRead(o) ==
    /\ Runtime = "serverless"
    /\ o \notin republishing /\ status[o] = "PENDING_DELIVERY"
    /\ republishing' = republishing \cup {o}
    /\ UNCHANGED <<storeVars, tasks, dispatching, recovering, workerVars,
                   disclosed, faults>>

(* The status read earlier is not looked at again.  A fresh reservation    *)
(* window follows (see ReleaseReservation).                                *)
MaintenancePublish(o) ==
    /\ o \in republishing
    /\ republishing' = republishing \ {o}
    /\ Publish(o)
    /\ UNCHANGED <<storeVars, dispatching, recovering, workerVars, disclosed>>

-----------------------------------------------------------------------------
(* DeliveryProcessor.process, one action per stretch between two awaits.   *)

Goto(w, label) ==
    /\ pc' = [pc EXCEPT ![w] = label]
    /\ UNCHANGED <<job, batch, parcel>>

Idle(w) ==
    /\ pc' = [pc EXCEPT ![w] = "idle"]
    /\ job' = [job EXCEPT ![w] = NoOrder]
    /\ batch' = [batch EXCEPT ![w] = {}]
    /\ parcel' = [parcel EXCEPT ![w] = NoParcel]

(* The task is acknowledged.                                               *)
Finish(w) == Idle(w) /\ tasks' = tasks \ {job[w]}

(* An UnrecoverableError.  BullMQ fails the job and then calls onFailed;   *)
(* the serverless task calls onFailed and is acknowledged after it.        *)
GiveUp(o) == tasks' = IF Runtime = "server" THEN tasks \ {o} ELSE tasks
Unrecoverable(w) ==
    /\ pc' = [pc EXCEPT ![w] = "reject"]
    /\ batch' = [batch EXCEPT ![w] = {}]
    /\ parcel' = [parcel EXCEPT ![w] = NoParcel]
    /\ UNCHANGED job
    /\ GiveUp(job[w])

(* Any other error: the queue runs the task again until its attempts are   *)
(* used up; then BullMQ calls onFailed, while QStash drops the task.       *)
Rethrow(w) ==
    \/ Idle(w) /\ UNCHANGED tasks
    \/ MayExhaust /\ Runtime = "server" /\ Unrecoverable(w)
    \/ MayExhaust /\ Runtime = "serverless" /\ Finish(w)

(* The variables no step of a worker changes, but for those of the store.  *)
QueueOnly == UNCHANGED <<dispatching, recovering, republishing>>

(* A worker holds the task of o: taking it once more is a second delivery. *)
InHand(o) ==
    \E w \in Workers :
        /\ job[w] = o
        /\ Runtime = "server" => pc[w] \notin {"reject", "rejectGroup"}

(* The first read of the order decides; no await separates it from the     *)
(* claim, or from the search of the group's root.                          *)
Start(o) ==
    CASE status[o] = "DELIVERY_FAILED" -> "reject"
      [] o \in Quick /\ status[o] = "DELIVERING" -> "rootBusy"
      [] o \in Quick /\ status[o] # "DELIVERING" -> "root"
      [] o \notin Quick /\ status[o] = "DELIVERING" -> "reject"
      [] OTHER -> "claim"

Take(w, o) ==
    /\ pc[w] = "idle" /\ o \in tasks
    /\ IF InHand(o) THEN Fault ELSE UNCHANGED faults
    /\ \/ /\ status[o] = "DELIVERED"
          /\ tasks' = tasks \ {o}
          /\ UNCHANGED <<pc, job>>
       \/ /\ status[o] # "DELIVERED"
          /\ job' = [job EXCEPT ![w] = o]
          /\ pc' = [pc EXCEPT ![w] = Start(o)]
          /\ IF Start(o) = "reject" THEN GiveUp(o) ELSE UNCHANGED tasks
    /\ UNCHANGED <<storeVars, batch, parcel, disclosed>> /\ QueueOnly

(* A QR checkout is delivered by the task of its first open order.         *)
FindRoot(w) ==
    /\ pc[w] \in {"root", "rootBusy"}
    /\ LET open == OpenIn(Group(job[w])) IN
       \/ open # {} /\ ~IsFirst(job[w], open) /\ Finish(w)
       \/ /\ open = {} \/ IsFirst(job[w], open)
          /\ \/ pc[w] = "rootBusy" /\ Unrecoverable(w)
             \/ pc[w] = "root" /\ Goto(w, "claim") /\ UNCHANGED tasks
    /\ UNCHANGED <<storeVars, disclosed, faults>> /\ QueueOnly

(* Mutated: a claim that does not look at a running attempt.               *)
ClaimableTwice(o) == status[o] \in Open

(* markDelivering(): the claim is a compare-and-set on the status.         *)
Claimable(o) == status[o] = "PENDING_DELIVERY"

Claim(w) ==
    /\ pc[w] = "claim"
    /\ \/ /\ Claimable(job[w])
          /\ status' = [status EXCEPT ![job[w]] = "DELIVERING"]
          /\ \/ /\ job[w] \in Quick
                /\ pc' = [pc EXCEPT ![w] = "gather"]
                /\ UNCHANGED batch
             \/ /\ job[w] \notin Quick
                /\ pc' = [pc EXCEPT ![w] = "mark"]
                /\ batch' = [batch EXCEPT ![w] = {job[w]}]
          /\ UNCHANGED <<job, parcel>>
       \/ /\ ~Claimable(job[w])
          /\ Goto(w, "recheck")
          /\ UNCHANGED status
    /\ StatusOnly /\ QueueOnly
    /\ UNCHANGED <<tasks, disclosed, faults>>

Recheck(w) ==
    /\ pc[w] = "recheck"
    /\ \/ status[job[w]] \in {"DELIVERED", "DELIVERING"} /\ Finish(w)
       \/ status[job[w]] \notin {"DELIVERED", "DELIVERING"} /\ Unrecoverable(w)
    /\ UNCHANGED <<storeVars, disclosed, faults>> /\ QueueOnly

(* groupOrders: the orders of the checkout that are open now.              *)
Gather(w) ==
    /\ pc[w] = "gather"
    /\ LET open == OpenIn(Group(job[w])) IN
       \/ job[w] \notin open /\ Finish(w)
       \/ /\ job[w] \in open
          /\ pc' = [pc EXCEPT ![w] = "mark"]
          /\ batch' = [batch EXCEPT ![w] = open]
          /\ UNCHANGED <<tasks, job, parcel>>
    /\ UNCHANGED <<storeVars, disclosed, faults>> /\ QueueOnly

Mark(w) ==
    /\ pc[w] = "mark"
    /\ Move(batch[w], {"PENDING_DELIVERY"}, "DELIVERING")
    /\ Goto(w, "load")
    /\ StatusOnly /\ QueueOnly
    /\ UNCHANGED <<tasks, disclosed, faults>>

(* The item reserved for each order of the batch is decrypted; without an  *)
(* item, or when it cannot be decrypted, nothing is sent.                  *)
CanLoad(o, i) == stock[i] = "RESERVED" /\ i \in reservedFor[o]

Load(w) ==
    /\ pc[w] = "load"
    /\ \/ /\ \E o \in batch[w] : \A i \in Items : ~CanLoad(o, i)
          /\ Unrecoverable(w) /\ UNCHANGED faults
       \/ Fault /\ Unrecoverable(w)
       \/ \E pick \in [batch[w] -> Items] :
             /\ \A o \in batch[w] : CanLoad(o, pick[o])
             /\ parcel' = [parcel EXCEPT ![w] =
                   [o \in Orders |->
                       IF o \in batch[w] THEN pick[o] ELSE NoItem]]
             /\ pc' = [pc EXCEPT ![w] = "send"]
             /\ UNCHANGED <<tasks, job, batch, faults>>
    /\ UNCHANGED <<storeVars, disclosed>> /\ QueueOnly

(* What the customer has in hand once the message is sent.                 *)
Sent(w) == disclosed \cup {<<o, parcel[w][o]>> : o \in batch[w]}

(* sendMessage and sendDocument: sent; refused for now (429, 5xx); refused *)
(* for good (400, 401, 403); or no answer, and perhaps sent.               *)
Send(w) ==
    /\ pc[w] = "send"
    /\ \/ /\ disclosed' = Sent(w)
          /\ Goto(w, "confirm") /\ UNCHANGED <<tasks, faults>>
       \/ /\ Fault /\ UNCHANGED disclosed
          /\ Goto(w, "reset") /\ UNCHANGED tasks
       \/ /\ Fault /\ disclosed' \in {disclosed, Sent(w)}
          /\ Unrecoverable(w)
    /\ UNCHANGED storeVars /\ QueueOnly

(* Mutated: the outcome of markSold() is not looked at.                    *)
MaySellAnything(o, i) == TRUE

(* markSold() accepts i for o, or it is sold to o already.                 *)
MaySell(o, i) == i \in reservedFor[o] /\ stock[i] \in {"RESERVED", "SOLD"}

(* The second transaction: items SOLD and orders DELIVERED, whatever the   *)
(* status of the orders; an item that was taken away fails it.             *)
Confirm(w) ==
    /\ pc[w] = "confirm"
    /\ \/ /\ \A o \in batch[w] : MaySell(o, parcel[w][o])
          /\ stock' = [i \in Items |-> IF \E o \in batch[w] : parcel[w][o] = i
                                       THEN "SOLD" ELSE stock[i]]
          /\ Move(batch[w], OrderStatus, "DELIVERED")
          /\ UNCHANGED <<goods, total, recovery, reservedFor, balance, active,
                         ledger>>
          /\ \/ Finish(w) /\ UNCHANGED faults
             \/ Idle(w) /\ UNCHANGED tasks /\ Fault
       \/ /\ IF \A o \in batch[w] : MaySell(o, parcel[w][o])
             THEN Fault ELSE UNCHANGED faults
          /\ Unrecoverable(w)
          /\ UNCHANGED storeVars
    /\ UNCHANGED disclosed /\ QueueOnly

(* A temporary refusal puts the batch back and lets the queue retry.       *)
Reset(w) ==
    /\ pc[w] = "reset"
    /\ Move(batch[w], {"DELIVERING"}, "PENDING_DELIVERY")
    /\ Rethrow(w)
    /\ StatusOnly /\ QueueOnly
    /\ UNCHANGED <<disclosed, faults>>

(* The end of onFailed; only the serverless task is acknowledged by it.    *)
EndOfFailure(w) ==
    /\ Idle(w)
    /\ tasks' = IF Runtime = "server" THEN tasks ELSE tasks \ {job[w]}

(* onFailed: the order, if open, is failed ...                             *)
Reject(w) ==
    /\ pc[w] = "reject"
    /\ Move({job[w]}, Open, "DELIVERY_FAILED")
    /\ IF status[job[w]] \in Open /\ job[w] \in Quick
       THEN Goto(w, "rejectGroup") /\ UNCHANGED tasks
       ELSE EndOfFailure(w)
    /\ StatusOnly /\ QueueOnly
    /\ UNCHANGED <<disclosed, faults>>

(* ... and then whatever is open of its checkout.                          *)
RejectGroup(w) ==
    /\ pc[w] = "rejectGroup"
    /\ Move(Group(job[w]), Open, "DELIVERY_FAILED")
    /\ EndOfFailure(w)
    /\ StatusOnly /\ QueueOnly
    /\ UNCHANGED <<disclosed, faults>>

(* The process stops; the queue hands an unacknowledged task out again,    *)
(* or drops it when that was the last time (maxStalledCount, retries).     *)
Crash(w) ==
    /\ pc[w] # "idle"
    /\ Fault
    /\ \/ Idle(w) /\ UNCHANGED tasks
       \/ MayExhaust /\ Finish(w)
    /\ UNCHANGED <<storeVars, disclosed>> /\ QueueOnly

(* A database call before the send fails: an error like any other.         *)
Fails(w) ==
    /\ pc[w] \in {"root", "rootBusy", "claim", "recheck", "gather", "mark",
                  "load", "reset"}
    /\ Fault /\ Rethrow(w)
    /\ UNCHANGED <<storeVars, disclosed>> /\ QueueOnly

-----------------------------------------------------------------------------
Shop == \E o \in Orders : \/ PurchaseOne(o) \/ PurchaseBatch(o)
                          \/ RepeatPurchase(o) \/ Dispatch(o)

Administer == \/ \E o \in Orders : \/ Resend(o) \/ Replace(o) \/ RefundOrder(o)
                                   \/ Requeue(o) \/ RequeueFails(o)
              \/ \E i \in Items : ReleaseExpired(i)
              \/ Housekeeping

Maintain == \E o \in Orders : \/ MaintenanceRead(o) \/ MaintenancePublish(o)

Advance(w) == \/ FindRoot(w) \/ Claim(w) \/ Recheck(w) \/ Gather(w) \/ Mark(w)
              \/ Load(w) \/ Send(w) \/ Confirm(w) \/ Reset(w) \/ Reject(w)
              \/ RejectGroup(w)

Work == \E w \in Workers : \/ \E o \in Orders : Take(w, o)
                           \/ Advance(w) \/ Crash(w) \/ Fails(w)

Next == Shop \/ Administer \/ Maintain \/ Work

Spec == Init /\ [][Next]_vars

(* Nothing is assumed of customers, of the administrator, of time or of    *)
(* faults.  What is: the API goes on to publish what it committed, the     *)
(* cron keeps running the maintenance route, a worker that holds a task    *)
(* goes on, and a queued task is handed out over and over (strong: every   *)
(* worker may be busy with another task in between).                       *)
Fairness ==
    /\ \A o \in Orders :
          /\ WF_vars(Dispatch(o)) /\ WF_vars(Requeue(o))
          /\ WF_vars(MaintenanceRead(o)) /\ WF_vars(MaintenancePublish(o))
          /\ SF_vars(\E w \in Workers : Take(w, o))
    /\ \A w \in Workers : WF_vars(Advance(w))

FairSpec == Spec /\ Fairness

-----------------------------------------------------------------------------
(* Safety.                                                                 *)

Settled == {"DELIVERED", "CANCELLED", "REFUNDED"}

(* An order on its way, or waiting for an administrator, has its item      *)
(* reserved, and for itself.                                               *)
LiveOrderHoldsItem ==
    \A o \in Orders : status[o] \in Live =>
        /\ goods[o] \in Items
        /\ goods[o] \in reservedFor[o]
        /\ stock[goods[o]] = "RESERVED"

(* A delivered order owns its item, a refunded one has none on the shelf.  *)
SettledOrderLeavesItem ==
    \A o \in Orders :
        /\ status[o] = "DELIVERED" => /\ goods[o] \in Items
                                      /\ goods[o] \in reservedFor[o]
                                      /\ stock[goods[o]] = "SOLD"
        /\ status[o] = "REFUNDED" => /\ goods[o] \in Items
                                     /\ stock[goods[o]] = "DISABLED"

(* No item is reserved, or sold, without an order that accounts for it:    *)
(* stock neither leaks nor serves two orders.                              *)
HeldItemHasOneOrder ==
    \A i \in Items : \A o \in Orders : i \in reservedFor[o] =>
        /\ stock[i] \notin {"AVAILABLE", "DELETED"}
        /\ stock[i] \in {"RESERVED", "SOLD"} =>
              /\ goods[o] = i
              /\ status[o] \in Live \cup {"DELIVERED"}
        /\ \A p \in Orders \ {o} : i \notin reservedFor[p]

NoItemIsHeldByNobody ==
    \A i \in Items : stock[i] \in {"RESERVED", "SOLD"} =>
        \E o \in Orders : i \in reservedFor[o]

(* Orders and inventory always agree, whatever the workers, the            *)
(* administrator and the clock interleave: the transaction that marks      *)
(* items SOLD (delivery.processor.ts:127-140) writes the orders without a  *)
(* look at their status, so this is what keeps it right.                   *)
GoodsFollowOrders ==
    /\ LiveOrderHoldsItem
    /\ SettledOrderLeavesItem
    /\ HeldItemHasOneOrder
    /\ NoItemIsHeldByNobody

(* What the ledger took from the customer for o and did not give back.     *)
Net(o) == -(ledger["purchase"][o] + ledger["reservation-expired"][o]
            + ledger["delivery-refund"][o])

(* The customer has paid an order exactly when it is alive or delivered:   *)
(* a delivered order was never refunded, a cancelled or refunded one was   *)
(* given back once, by one of the two ways there are.                      *)
MoneyOrGoods ==
    \A o \in Orders :
        Net(o) = IF status[o] \in Live \cup {"DELIVERED"} THEN total[o] ELSE 0

(* Why: the rows of the ledger follow the status of the order.             *)
RowsFollowOrders ==
    \A o \in Orders :
        /\ ledger["purchase"][o] = IF status[o] = "NONE" THEN 0 ELSE -total[o]
        /\ ledger["reservation-expired"][o] =
              IF status[o] = "CANCELLED" THEN total[o] ELSE 0
        /\ ledger["delivery-refund"][o] =
              IF status[o] = "REFUNDED" THEN total[o] ELSE 0

(* The inductive invariant behind the safety of the sale: every step of    *)
(* every actor keeps it, from any state in which it holds.                 *)
SaleInvariant == TypeOK /\ GoodsFollowOrders /\ RowsFollowOrders

(* "A prior process may have sent the secret but crashed before            *)
(* confirmation. Never send twice automatically" (delivery.processor.ts:   *)
(* 49): a worker about to send an item that was sent before for the same   *)
(* order works after an administrator recovered an order of the checkout.  *)
(* It holds for orders delivered alone; a QR checkout can break it.        *)
NeverSendTwiceAutomatically ==
    \A w \in Workers : pc[w] = "send" =>
        \A o \in batch[w] : <<o, parcel[w][o]>> \in disclosed =>
            \E p \in Group(o) : recovery[p] # "NONE"

(* "Never make such inventory available automatically"                     *)
(* (inventory-reservation.service.ts:67), as far as it holds: an item that *)
(* reached a customer through an order delivered alone is back on the      *)
(* shelf only after an administrator recovered the order.                  *)
ShelfSafeBeforeRecovery ==
    \A o \in Orders \ Quick : \A i \in Items :
        /\ <<o, i>> \in disclosed
        /\ stock[i] \in {"AVAILABLE", "DELETED"}
        => recovery[o] # "NONE"

(* "The system does not put the item back in stock by itself"              *)
(* (README.md:35): an item that reached a customer is never for sale.      *)
DisclosedNeverForSale ==
    \A o \in Orders : \A i \in Items :
        <<o, i>> \in disclosed => stock[i] # "AVAILABLE"

(* What one order disclosed is never sent for another.                     *)
OneOrderPerSecret ==
    \A o, p \in Orders : \A i \in Items :
        <<o, i>> \in disclosed /\ <<p, i>> \in disclosed => o = p

(* What releaseExpired() puts back on the shelf can be sold again: no      *)
(* order keeps the item in the unique index of order.schema.ts:39.         *)
ReleasedStockIsSellable ==
    \A i \in Items : stock[i] = "AVAILABLE" => IndexAdmits(i)

(* No customer holds more orders of the product than its limit, over any   *)
(* number of requests and recoveries.                                      *)
WithinPurchaseLimit ==
    Limit > 0 => \A u \in Users :
        Cardinality({o \in Orders : /\ Buyer[o] = u
                                    /\ status[o] \in Live \cup {"DELIVERED"}})
            <= Limit

(* An order that was delivered, cancelled or refunded stays so, although   *)
(* late workers still write it.                                            *)
SettledIsFinal ==
    [][\A o \in Orders : status[o] \in Settled => status'[o] = status[o]]_vars

(* The orders, as what Sale promises about them.                           *)
PhaseOf(o) == CASE status[o] = "NONE" -> "absent"
                [] status[o] \in Live -> "open"
                [] status[o] = "DELIVERED" -> "kept"
                [] OTHER -> "returned"

Promise == INSTANCE Sale WITH
    Nothing <- NoItem,
    Amounts <- Nat,
    phase <- [o \in Orders |-> PhaseOf(o)],
    paid <- [o \in Orders |-> Net(o)],
    given <- [o \in Orders |-> IF status[o] = "DELIVERED" THEN goods[o]
                                                           ELSE NoItem]

(* Every behaviour of orders, queue and workers keeps the promise.         *)
KeepsPromise == Promise!SaleSpec

-----------------------------------------------------------------------------
(* Liveness.                                                               *)

(* "The committed PENDING_DELIVERY order is the durable outbox. Scheduled  *)
(* maintenance republishes pending orders" (purchase.service.ts:489): no   *)
(* order waits for its delivery for ever.                                  *)
OutboxDrains ==
    \A o \in Orders : status[o] = "PENDING_DELIVERY"
                      ~> status[o] # "PENDING_DELIVERY"

(* "When the result of the send is unclear [...] the order moves to        *)
(* DELIVERY_FAILED for an administrator" (README.md:35): an order whose    *)
(* secret may be out does not stay DELIVERING for ever.                    *)
AmbiguousReachesAdmin ==
    \A o \in Orders :
        status[o] = "DELIVERING" /\ (\E i \in Items : <<o, i>> \in disclosed)
        ~> status[o] # "DELIVERING"
=============================================================================
