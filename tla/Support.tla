------------------------------- MODULE Support -------------------------------
(***************************************************************************)
(* The support desk: complaints about one order (warranty_requests), and   *)
(* the messages an administrator sends to the customer (customer_messages),*)
(* either direct ones or answers to a complaint, which are claimed and     *)
(* sent the same way.  A browser may repeat a request under its id, and    *)
(* each request is a sequence of database accesses and Telegram calls.     *)
(***************************************************************************)
EXTENDS Integers, FiniteSets

CONSTANTS
    Reports,     \* complaints that may be made about the order
    Messages,    \* messages, by the id of the request (X-Request-ID)
    Answers,     \* the messages that answer a complaint
    About,       \* About[m]: the complaint that m answers
    Desks,       \* requests of administrators that run at the same time
    Nothing,     \* no complaint, no message
    MaxStops     \* bound: processes that die and answers that get lost

VARIABLES
    complaint,   \* complaint[r]: its status, NONE before it is made
    opening,     \* complaints whose opening message is stored
    filing,      \* complaints being made: the order was looked up
    covered,     \* the warranty of the order has not run out
    message,     \* message[m]: its status and whether the claim is old
    told,        \* told[m]: how often the customer got m
    desk,        \* desk[d]: what request d is about, how far, and the
                 \* status of the complaint when it was read
    stops        \* stops[m]: processes that died and answers that were lost
                 \* while m was sent

supportVars == <<complaint, opening, filing, covered, message, told, desk,
                 stops>>

ASSUME SupportConstants ==
    /\ Answers \subseteq Messages /\ About \in [Answers -> Reports]
    /\ MaxStops \in Nat /\ Nothing \notin Reports \cup Messages

Open == {"PENDING", "REVIEWING", "APPROVED"}
Closed == {"RESOLVED", "REJECTED"}
ReportStatuses == {"NONE", "PENDING", "REVIEWING"} \cup Closed
MessageStatuses == {"NONE", "PENDING", "SENDING", "SENT", "FAILED"}
AtDesk == [of |-> Nothing, step |-> "idle", seen |-> "NONE"]

SupportTypeOK ==
    /\ complaint \in [Reports -> ReportStatuses]
    /\ opening \subseteq Reports /\ filing \subseteq Reports
    /\ covered \in BOOLEAN
    /\ message \in [Messages -> [status: MessageStatuses, aged: BOOLEAN]]
    /\ told \in [Messages -> Nat] /\ stops \in [Messages -> Nat]
    /\ desk \in [Desks -> [of: {Nothing} \cup Messages, seen: ReportStatuses,
          step: {"idle", "stored", "sending", "sent", "refused"}]]

SupportInit ==
    /\ complaint = [r \in Reports |-> "NONE"]
    /\ opening = {} /\ filing = {} /\ covered = TRUE
    /\ message = [m \in Messages |-> [status |-> "NONE", aged |-> FALSE]]
    /\ told = [m \in Messages |-> 0] /\ stops = [m \in Messages |-> 0]
    /\ desk = [d \in Desks |-> AtDesk]

AboutReports == UNCHANGED <<message, told, stops>>
AboutMessages == UNCHANGED <<opening, filing, covered>>

-----------------------------------------------------------------------------
(* Complaints.                                                             *)

ActiveReports == {r \in Reports : complaint[r] \in Open}

(* create(): an active complaint is returned, whoever asks.                *)
FileReport(r) ==
    /\ complaint[r] = "NONE" /\ r \notin filing
    /\ \/ /\ ActiveReports # {}
          /\ opening' = opening \cup ActiveReports /\ UNCHANGED filing
       \/ /\ ActiveReports = {} /\ covered
          /\ filing' = filing \cup {r} /\ UNCHANGED opening
    /\ UNCHANGED <<complaint, covered, desk>> /\ AboutReports

WarrantyEnds ==
    /\ covered /\ covered' = FALSE
    /\ UNCHANGED <<complaint, opening, filing, desk>> /\ AboutReports

(* The partial unique index on orderId.                                    *)
IndexFree == ActiveReports = {}

(* create() inserts, or returns the one that was faster.                   *)
StoreReport(r) ==
    /\ r \in filing
    /\ IF IndexFree THEN complaint' = [complaint EXCEPT ![r] = "PENDING"]
                         /\ UNCHANGED opening
       ELSE opening' = opening \cup ActiveReports /\ UNCHANGED complaint
    /\ filing' = filing \ {r}
    /\ UNCHANGED <<covered, desk>> /\ AboutReports

(* ensureOpeningMessage(), of create() or when somebody opens the chat.    *)
EnsureOpening(r) ==
    /\ complaint[r] # "NONE" /\ r \notin opening
    /\ opening' = opening \cup {r}
    /\ UNCHANGED <<complaint, filing, covered, desk>> /\ AboutReports

(* assertStatusTransition(), without the legacy statuses.                  *)
MayBecome(from, to) == \/ from = "PENDING" /\ to # from
                       \/ from = "REVIEWING" /\ to \in Closed

(* update(), one transaction.  The notice to the customer that follows it  *)
(* is tried once and tells nothing about the complaint.                    *)
Decide(r) ==
    /\ \E to \in Closed \cup {"REVIEWING"} :
          /\ complaint[r] # "NONE" /\ MayBecome(complaint[r], to)
          /\ complaint' = [complaint EXCEPT ![r] = to]
    /\ UNCHANGED <<opening, filing, covered, desk>> /\ AboutReports

-----------------------------------------------------------------------------
(* Messages to the customer.                                               *)

SeenStatus(m) == IF m \in Answers THEN complaint[About[m]] ELSE "NONE"
Goes(d, step) == desk' = [desk EXCEPT ![d].step = step]
Mark(m, status) == message' = [message EXCEPT ![m] =
                                  [status |-> status, aged |-> FALSE]]

(* sendDirect() and reply(): createMessageOnce() under the request's id,   *)
(* and nothing more to send when it was sent before.                       *)
Compose(d, m) ==
    /\ desk[d] = AtDesk
    /\ m \in Answers => complaint[About[m]] # "NONE"
    /\ message[m].status = "SENT" => m \in Answers
    /\ IF message[m].status = "NONE" THEN Mark(m, "PENDING")
                                     ELSE UNCHANGED message
    /\ desk' = [desk EXCEPT ![d] =
                    [of |-> m, seen |-> SeenStatus(m),
                     step |-> IF message[m].status = "SENT" THEN "sent"
                              ELSE "stored"]]
    /\ UNCHANGED <<complaint, told, stops>> /\ AboutMessages

(* Mutated: a message that is being sent may be sent by another request.   *)
ClaimableAlways(m) == message[m].status # "SENT"

(* claimableCustomerMessageDelivery().                                     *)
MessageClaimable(m) ==
    \/ message[m].status \in {"PENDING", "FAILED"}
    \/ message[m].status = "SENDING" /\ message[m].aged

(* The claim, or an early return when another request has it.             *)
ClaimMessage(d) ==
    LET m == desk[d].of IN
    /\ desk[d].step = "stored"
    /\ IF MessageClaimable(m) THEN Mark(m, "SENDING") /\ Goes(d, "sending")
       ELSE UNCHANGED message /\ desk' = [desk EXCEPT ![d] = AtDesk]
    /\ UNCHANGED <<complaint, told, stops>> /\ AboutMessages

Stop(m) == stops[m] < MaxStops /\ stops' = [stops EXCEPT ![m] = @ + 1]

(* sendSupportMessage(): sent, refused, or sent without an answer.  A      *)
(* result that cannot be stored counts as no answer as well.               *)
SendMessage(d) ==
    LET m == desk[d].of IN
    /\ desk[d].step = "sending"
    /\ \/ told' = [told EXCEPT ![m] = @ + 1] /\ Goes(d, "sent")
          /\ UNCHANGED stops
       \/ Goes(d, "refused") /\ UNCHANGED <<told, stops>>
       \/ told' = [told EXCEPT ![m] = @ + 1] /\ Goes(d, "refused") /\ Stop(m)
    /\ UNCHANGED <<complaint, message>> /\ AboutMessages

(* Mutated: the complaint counts as new, as the request read it.           *)
TakesUpAsRead(d) == desk[d].of \in Answers /\ desk[d].seen = "PENDING"

(* An answer takes a new complaint into review, if it was new when the     *)
(* request read it and still is.                                           *)
TakesUp(d) == TakesUpAsRead(d) /\ complaint[About[desk[d].of]] = "PENDING"

(* The result is stored.                                                   *)
SettleMessage(d) ==
    LET m == desk[d].of IN
    /\ desk[d].step \in {"sent", "refused"}
    /\ Mark(m, IF desk[d].step = "sent" THEN "SENT" ELSE "FAILED")
    /\ IF desk[d].step = "sent" /\ TakesUp(d)
       THEN complaint' = [complaint EXCEPT ![About[m]] = "REVIEWING"]
       ELSE UNCHANGED complaint
    /\ desk' = [desk EXCEPT ![d] = AtDesk]
    /\ UNCHANGED <<told, stops>> /\ AboutMessages

(* Five minutes pass: the request, of a minute at most, is over.           *)
ClaimAges(m) ==
    /\ message[m].status = "SENDING" /\ ~message[m].aged
    /\ \A d \in Desks : desk[d].of # m \/ desk[d].step \in {"idle", "stored"}
    /\ message' = [message EXCEPT ![m].aged = TRUE]
    /\ UNCHANGED <<complaint, told, stops, desk>> /\ AboutMessages

DeskDies(d) ==
    /\ desk[d] # AtDesk /\ Stop(desk[d].of)
    /\ desk' = [desk EXCEPT ![d] = AtDesk]
    /\ UNCHANGED <<complaint, message, told>> /\ AboutMessages

-----------------------------------------------------------------------------
SupportNext ==
    \/ WarrantyEnds
    \/ \E r \in Reports : \/ FileReport(r) \/ StoreReport(r)
                          \/ EnsureOpening(r) \/ Decide(r)
    \/ \E d \in Desks : \/ \E m \in Messages : Compose(d, m)
                        \/ ClaimMessage(d) \/ SendMessage(d)
                        \/ SettleMessage(d) \/ DeskDies(d)
    \/ \E m \in Messages : ClaimAges(m)

SupportSpec == SupportInit /\ [][SupportNext]_supportVars

(* An order has at most one complaint that is open, through any race of    *)
(* customers who complain, administrators who close, and answers on their  *)
(* way that take a complaint into review (warranty-request.schema.ts:24,   *)
(* warranty.service.ts:212-216); and only a stored complaint is shown.     *)
OneActiveReport ==
    /\ Cardinality(ActiveReports) <= 1
    /\ opening \subseteq {r \in Reports : complaint[r] # "NONE"}

(* However often a request is repeated under its id, the customer gets the *)
(* message once, and once more only for a process that died or an answer   *)
(* that got lost while it was sent (customer-message.schema.ts:12-25); a   *)
(* message that is SENT was received.                                      *)
MessageOnce ==
    \A m \in Messages :
        /\ told[m] <= 1 + stops[m]
        /\ message[m].status = "SENT" => told[m] > 0
=============================================================================
