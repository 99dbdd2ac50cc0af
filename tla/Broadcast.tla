------------------------------ MODULE Broadcast ------------------------------
(***************************************************************************)
(* A notice to all customers: an announcement of an administrator (with a  *)
(* campaign document), a restock alert or a purchase alert (without).  It  *)
(* goes out page by page: a queued task sends one page of customers and    *)
(* queues the next.  The queue delivers a task at least once, and when it  *)
(* has failed too often no more; a record per customer, claimed before the *)
(* send, keeps notices from being repeated.                                *)
(***************************************************************************)
EXTENDS Integers, FiniteSets

CONSTANTS
    Customers,   \* the _ids of the customers
    PageSizes,   \* limits of a page: small ones, or all customers
    Workers,     \* functions or workers that process tasks
    Kinds,       \* the kinds of notices: subset of NoticeKinds
    MaxRetries,  \* how often QStash calls a function again that failed
    MaxStalls,   \* maxStalledCount: ... BullMQ, after a worker that died
    MaxErrors,   \* ... and after an error: attempts, less the first
    MaxMishaps   \* bound: workers that die or are late, errors of the
                 \* database or the queue, repeated campaigns, sends that
                 \* flood control refuses, customers suspended, products
                 \* withdrawn, together

VARIABLES
    kind,        \* the kind of the notice
    serverless,  \* QStash queues its pages, or else BullMQ one job
    limit,       \* the limit of its pages
    finished,    \* the campaign is SENT; an alert has sent its last page
    public,      \* the product of an alert can be bought
    record,      \* record[u]: the state of u's notice
    job,         \* job[w]: the page that w works on
    tasks,       \* tasks[t]: queued tasks of the page and budget t
    dropped,     \* the queue has given up a page
    reached,     \* reached[u]: how often u got the notice
    active,      \* customers that are ACTIVE
    steady,      \* customers that have always been
    unsaved,     \* unsaved[u]: sends to u whose outcome was not stored
    mishaps

broadcastVars == <<kind, serverless, limit, finished, public, record, job,
                   tasks, dropped, reached, active, steady, unsaved, mishaps>>

NoticeKinds == {"announcement", "restock", "purchase"}

ASSUME BroadcastConstants ==
    /\ Customers \subseteq Nat \ {0} /\ IsFiniteSet(Customers)
    /\ PageSizes \subseteq Nat \ {0}
    /\ Kinds \subseteq NoticeKinds
    /\ {MaxRetries, MaxStalls, MaxErrors, MaxMishaps} \subseteq Nat

RecordStates == {"NONE", "PENDING", "SENDING", "AGED", "SENT", "FAILED"}
Resting == [page |-> {}]

(* How often a page may be tried again after a death, and after an error;  *)
(* QStash does not tell them apart.                                        *)
Fresh == IF serverless THEN <<MaxRetries, MaxRetries>>
         ELSE <<MaxStalls, MaxErrors>>
Spent(left, why) == IF serverless THEN <<left[1] - 1, left[2] - 1>>
                    ELSE [left EXCEPT ![why] = @ - 1]
Death == 1
Error == 2

(* The page after a customer, and how often it may be tried again.         *)
PageTasks == (Customers \cup {0}) \X
             ({<<n, n>> : n \in 0..MaxRetries}
              \cup ((0..MaxStalls) \X (0..MaxErrors)))

BroadcastInit ==
    /\ kind \in Kinds /\ serverless \in BOOLEAN /\ limit \in PageSizes
    /\ ~serverless => Cardinality(Customers) <= limit
    /\ finished = FALSE /\ public = TRUE
    /\ record = [u \in Customers |-> "NONE"]
    /\ job = [w \in Workers |-> Resting]
    /\ tasks = [t \in PageTasks |-> IF t = <<0, Fresh>> THEN 1 ELSE 0]
    /\ dropped = FALSE
    /\ reached = [u \in Customers |-> 0]
    /\ active = Customers /\ steady = Customers
    /\ unsaved = [u \in Customers |-> 0]
    /\ mishaps = 0

NoticeStays == UNCHANGED <<kind, serverless, limit, public, active, steady>>
Mishap == mishaps < MaxMishaps /\ mishaps' = mishaps + 1
CountsStay == UNCHANGED <<unsaved, mishaps>>

Queued(queue, c, left) == [queue EXCEPT ![<<c, left>>] = @ + 1]

(* sendBroadcast() is repeated.  QStash takes it for a new task after ten  *)
(* minutes; BullMQ keeps the job, and its id, for days, and does nothing.  *)
Requeue ==
    /\ kind = "announcement" /\ serverless /\ ~finished /\ Mishap
    /\ tasks' = Queued(tasks, 0, Fresh)
    /\ UNCHANGED <<finished, dropped, record, job, reached, unsaved>>
    /\ NoticeStays

(* The next customers after the cursor, who are ACTIVE.                    *)
After(c) == {u \in active : u > c}
Page(c) == {u \in After(c) :
              Cardinality({v \in After(c) : v <= u}) <= limit}

(* processBatch() begins: nothing to do for a campaign that is SENT or a   *)
(* product that is not public.                                             *)
TakeTask(w, t) ==
    /\ job[w] = Resting /\ tasks[t] > 0
    /\ tasks' = [tasks EXCEPT ![t] = @ - 1]
    /\ IF (kind = "announcement" /\ finished) \/ ~public
       THEN UNCHANGED job
       ELSE job' = [job EXCEPT ![w] =
              [page |-> Page(t[1]), cursor |-> t[1], left |-> t[2],
               more |-> Page(t[1]) # After(t[1]),
               at |-> [u \in Page(t[1]) |-> "todo"], failed |-> FALSE,
               broke |-> FALSE, counted |-> FALSE]]
    /\ UNCHANGED <<finished, dropped, record, reached>>
    /\ NoticeStays /\ CountsStay

Works(w) == job[w] # Resting
Turns(w, u, step) == job' = [job EXCEPT ![w].at[u] = step]
(* Mutated: a customer who must be retried is passed over.                *)
FailsSilently(w, u) == Turns(w, u, "done")

(* The page is given up, and will be queued again; unless an error of      *)
(* another kind broke it off before.                                       *)
Fails(w, u) == job' = [job EXCEPT ![w].at[u] = "done", ![w].failed = TRUE]
Breaks(w, u) == job' = [job EXCEPT ![w].at[u] = "done", ![w].failed = TRUE,
                                   ![w].broke = @ \/ ~job[w].failed]

Record(u, state) == record' = [record EXCEPT ![u] = state]
RecordStays == UNCHANGED <<finished, tasks, dropped>> /\ NoticeStays
NewRecord == IF kind = "purchase" THEN "SENDING" ELSE "PENDING"

(* createDeliveryRecord(), createRestockNotification() and                 *)
(* createPurchaseNotification(), whose new record is claimed already.      *)
FindRecord(w, u) ==
    /\ Works(w) /\ u \in job[w].page /\ job[w].at[u] = "todo"
    /\ ~job[w].failed
    /\ \/ /\ record[u] \in {"SENT", "FAILED"} /\ Turns(w, u, "done")
          /\ UNCHANGED record
       \/ /\ record[u] = "NONE" /\ Record(u, NewRecord)
          /\ Turns(w, u, IF kind = "purchase" THEN "claimed" ELSE "found")
       \/ /\ record[u] \in {"PENDING", "SENDING", "AGED"}
          /\ Turns(w, u, "found") /\ UNCHANGED record
    /\ UNCHANGED reached /\ RecordStays /\ CountsStay

(* Mutated: the claim takes whatever the record was found to be.           *)
NoticeClaimableAsFound(u) == TRUE

(* claimableCustomerMessageDelivery() and claimableNotificationDelivery(), *)
(* without the FAILED ones: an aged claim is five minutes old.             *)
NoticeClaimable(u) == record[u] \in {"PENDING", "AGED"}

ClaimRecord(w, u) ==
    /\ Works(w) /\ u \in job[w].page /\ job[w].at[u] = "found"
    /\ IF NoticeClaimable(u)
       THEN Record(u, "SENDING") /\ Turns(w, u, "claimed")
       ELSE UNCHANGED record /\ Fails(w, u)
    /\ UNCHANGED reached /\ RecordStays /\ CountsStay

(* BroadcastSender.send(): the customer gets it, or not, and the answer    *)
(* comes, or another one, or none; or flood control refuses it for good.   *)
SendNotice(w, u) ==
    /\ Works(w) /\ u \in job[w].page /\ job[w].at[u] = "claimed"
    /\ \/ /\ reached' = [reached EXCEPT ![u] = @ + 1]
          /\ \E answer \in {"delivered", "refused"} : Turns(w, u, answer)
          /\ UNCHANGED mishaps
       \/ Turns(w, u, "refused") /\ UNCHANGED <<reached, mishaps>>
       \/ Mishap /\ Turns(w, u, "limited") /\ UNCHANGED reached
    /\ UNCHANGED <<record, unsaved>> /\ RecordStays

(* Mutated: whatever was not confirmed is tried again.                     *)
AfterRefusalRetry == "PENDING"

(* Only a confirmed flood-control rejection is safe to send again.         *)
AfterRefusal == "FAILED"

SettleRecord(w, u) ==
    /\ Works(w) /\ u \in job[w].page
    /\ \/ /\ job[w].at[u] = "delivered"
          /\ Record(u, "SENT") /\ Turns(w, u, "done")
       \/ /\ job[w].at[u] = "refused"
          /\ Record(u, AfterRefusal) /\ Turns(w, u, "done")
       \/ /\ job[w].at[u] = "limited"
          /\ Record(u, "PENDING") /\ Fails(w, u)
    /\ UNCHANGED reached /\ RecordStays /\ CountsStay

(* The database fails in any of these, before or after it has stored what  *)
(* it should.  A send that was answered is then on record, or it is not.   *)
StoreFails(w, u) ==
    /\ Works(w) /\ u \in job[w].page /\ Mishap /\ Breaks(w, u)
    /\ LET step == job[w].at[u]
           answered == step \in {"delivered", "refused"}
           begun == step = "todo" /\ ~job[w].failed
       IN  \/ /\ begun \/ step \in {"found", "delivered", "refused", "limited"}
              /\ UNCHANGED record
              /\ unsaved' = IF answered THEN [unsaved EXCEPT ![u] = @ + 1]
                            ELSE unsaved
           \/ /\ \/ begun /\ record[u] = "NONE" /\ Record(u, NewRecord)
                 \/ /\ step = "found" /\ NoticeClaimable(u)
                    /\ Record(u, "SENDING")
                 \/ step = "delivered" /\ Record(u, "SENT")
                 \/ step = "refused" /\ Record(u, AfterRefusal)
                 \/ step = "limited" /\ Record(u, "PENDING")
              /\ UNCHANGED unsaved
    /\ UNCHANGED reached /\ RecordStays

(* forEachBroadcastRecipient() has drained the page.                       *)
Drained(w) ==
    /\ Works(w)
    /\ \A u \in job[w].page : \/ job[w].at[u] = "done"
                              \/ job[w].failed /\ job[w].at[u] = "todo"

(* campaignCounts(): only announcements are counted.                       *)
Outstanding == IF kind # "announcement" THEN {}
               ELSE {u \in Customers :
                       record[u] \in {"PENDING", "SENDING", "AGED"}}

Rests(w) == job' = [job EXCEPT ![w] = Resting]

(* Mutated: a page that failed is dropped.                                 *)
QueueAgainNever(c, left) == UNCHANGED <<tasks, dropped>>

QueueAgain(c, left) ==
    tasks' = Queued(tasks, c, left) /\ UNCHANGED dropped

(* A page that must be retried is queued again as it is: by QStash as a    *)
(* new task, by BullMQ as the same job, delayed.                           *)
RetryPage(w) ==
    /\ Drained(w) /\ ~job[w].counted /\ ~job[w].broke
    /\ job[w].failed \/ (~job[w].more /\ Outstanding # {})
    /\ QueueAgain(job[w].cursor, IF serverless THEN Fresh ELSE job[w].left)
    /\ Rests(w)
    /\ UNCHANGED <<finished, record, reached>> /\ NoticeStays /\ CountsStay

(* The queue calls for the page once more, or drops it; queue are the      *)
(* tasks beside it.                                                        *)
TryAgain(w, why, queue) ==
    IF job[w].left[why] > 0
    THEN /\ tasks' = Queued(queue, job[w].cursor, Spent(job[w].left, why))
         /\ UNCHANGED dropped
    ELSE tasks' = queue /\ dropped' = TRUE

(* A page that an error broke off.                                         *)
FailPage(w) ==
    /\ Drained(w) /\ job[w].broke
    /\ TryAgain(w, Error, tasks) /\ Rests(w)
    /\ UNCHANGED <<finished, record, reached>> /\ NoticeStays /\ CountsStay

(* The counts of an announcement are read before the campaign is written.  *)
CountPage(w) ==
    /\ Drained(w) /\ ~job[w].failed /\ ~job[w].counted
    /\ job[w].more \/ Outstanding = {}
    /\ job' = [job EXCEPT ![w].counted = TRUE]
    /\ UNCHANGED <<finished, dropped, record, tasks, reached>>
    /\ NoticeStays /\ CountsStay

Last(page) == CHOOSE u \in page : \A v \in page : v <= u
NextPage(w) == Queued(tasks, Last(job[w].page), Fresh)

(* The page is complete: the next one is queued, or the campaign SENT.     *)
EndPage(w) ==
    /\ Works(w) /\ job[w].counted
    /\ IF job[w].more
       THEN tasks' = NextPage(w) /\ UNCHANGED finished
       ELSE finished' = TRUE /\ UNCHANGED tasks
    /\ Rests(w)
    /\ UNCHANGED <<dropped, record, reached>> /\ NoticeStays /\ CountsStay

(* The database or the queue fails before the first customer or after the  *)
(* last, or the worker is gone before the queue has its answer: what it    *)
(* was at may have been done.                                              *)
PageFails(w) ==
    /\ Works(w) /\ Mishap /\ Rests(w)
    /\ Drained(w) \/ \A u \in job[w].page : job[w].at[u] = "todo"
    /\ \E why \in {Death, Error} :
          \/ TryAgain(w, why, tasks) /\ UNCHANGED finished
          \/ /\ job[w].counted /\ job[w].more
             /\ TryAgain(w, why, NextPage(w)) /\ UNCHANGED finished
          \/ /\ job[w].counted /\ ~job[w].more
             /\ TryAgain(w, why, tasks) /\ finished' = TRUE
          \/ /\ job[w].failed /\ ~job[w].broke /\ serverless
             /\ TryAgain(w, why, Queued(tasks, job[w].cursor, Fresh))
             /\ UNCHANGED finished
    /\ UNCHANGED <<record, reached, unsaved>> /\ NoticeStays

(* Five minutes pass; a worker is done with a customer long before.        *)
AtWork(w) == IF Works(w) THEN {u \in job[w].page :
                 job[w].at[u] \in {"claimed", "delivered", "refused",
                                   "limited"}} ELSE {}
RecordAges(u) ==
    /\ record[u] = "SENDING" /\ \A w \in Workers : u \notin AtWork(w)
    /\ Record(u, "AGED")
    /\ UNCHANGED <<job, reached>> /\ RecordStays /\ CountsStay

WorkerDies(w) ==
    /\ Works(w) /\ Mishap
    /\ unsaved' = [u \in Customers |-> unsaved[u]
                       + IF u \in AtWork(w) THEN 1 ELSE 0]
    /\ TryAgain(w, Death, tasks) /\ Rests(w)
    /\ UNCHANGED <<finished, record, reached>> /\ NoticeStays

(* QStash waits 55 seconds; the function lives for another five.           *)
WorkerIsLate(w) ==
    /\ Works(w) /\ serverless /\ Mishap
    /\ TryAgain(w, Death, tasks)
    /\ UNCHANGED <<finished, record, job, reached, unsaved>> /\ NoticeStays

(* An administrator suspends a customer, or no longer sells the product.   *)
Suspend(u) ==
    /\ u \in active /\ active' = active \ {u} /\ steady' = steady \ {u}
    /\ Mishap
    /\ UNCHANGED <<kind, serverless, limit, finished, public, record, job,
                   tasks, dropped, reached, unsaved>>

Readmit(u) ==
    /\ u \notin active /\ active' = active \cup {u}
    /\ UNCHANGED <<kind, serverless, limit, finished, public, record, job,
                   tasks, dropped, reached, steady>>
    /\ CountsStay

Withdraw ==
    /\ kind # "announcement" /\ public /\ public' = FALSE /\ Mishap
    /\ UNCHANGED <<kind, serverless, limit, finished, record, job, tasks,
                   dropped, reached, active, steady, unsaved>>

WorkOn(w, u) == \/ FindRecord(w, u) \/ ClaimRecord(w, u)
                \/ SendNotice(w, u) \/ SettleRecord(w, u)
WorkOf(w) == \/ \E u \in Customers : WorkOn(w, u)
             \/ RetryPage(w) \/ FailPage(w) \/ CountPage(w) \/ EndPage(w)

BroadcastNext ==
    \/ Requeue \/ Withdraw
    \/ \E w \in Workers : \/ \E t \in PageTasks : TakeTask(w, t)
                          \/ \E u \in Customers : StoreFails(w, u)
                          \/ WorkOf(w) \/ PageFails(w)
                          \/ WorkerDies(w) \/ WorkerIsLate(w)
    \/ \E u \in Customers : RecordAges(u) \/ Suspend(u) \/ Readmit(u)

(* The queue delivers its tasks, a worker goes on, and time passes.        *)
BroadcastFairness ==
    /\ \A c \in Customers \cup {0} :
          SF_broadcastVars(\E w \in Workers, t \in PageTasks :
                              t[1] = c /\ TakeTask(w, t))
    /\ \A w \in Workers : WF_broadcastVars(WorkOf(w))
    /\ \A u \in Customers : WF_broadcastVars(RecordAges(u))

BroadcastSpec ==
    BroadcastInit /\ [][BroadcastNext]_broadcastVars /\ BroadcastFairness

(* A customer gets a notice once, whatever tasks are repeated, pages are   *)
(* retried and answers get lost, and once more only after a send whose     *)
(* outcome was not stored: the worker died before, or the database failed  *)
(* (broadcast-sender.ts:33, admin-broadcast.processor.ts:42-66).           *)
NoticeAtMostOnce ==
    \A u \in Customers : reached[u] <= 1 + unsaved[u]

(* When a campaign is SENT, or an alert has sent its last page, nobody who *)
(* was a customer all the time was left out: each one's notice was sent or *)
(* has failed (admin-broadcast.processor.ts:69-74).                        *)
FinishedReachedAll ==
    finished => \A u \in steady : record[u] \in {"SENT", "FAILED"}

(* A notice comes to its end: unless its product is withdrawn, a page of   *)
(* it failed so often that the queue has given it up, or it waits for a    *)
(* customer who was suspended before his notice was sent.                  *)
NoticeEnds ==
    <>[](finished \/ ~public \/ dropped \/ Outstanding \ steady # {})
=============================================================================
