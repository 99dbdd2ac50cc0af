---------------------------- MODULE MessageCenter ----------------------------
(***************************************************************************)
(* The administrators' page of messages: the list of conversations, the    *)
(* thread of the customer selected in it, and the notices to everybody.    *)
(* Each is loaded by its effect, by a button, by a poll every ten seconds  *)
(* and after a message was sent; a tab that is hidden loads nothing.       *)
(***************************************************************************)
EXTENDS Integers, FiniteSets

CONSTANTS
    Customers,  \* numbers from 1: telegramId; 0 stands for none
    MaxActs     \* bound: acts of the administrator, and failures

VARIABLES
    mode,       \* direct or broadcast
    hidden,     \* document.hidden
    customer,   \* telegramId of the customer selected
    thread,     \* messages: of whom, and how many messages it has
    notices,    \* broadcasts: how many
    loaded,     \* the list of conversations has come
    due,        \* what a timer will load
    fetches,    \* requests under way
    waits,      \* what the page says it is loading
    broken,     \* what failed when it was loaded last
    sends,      \* messages on their way: to whom, and arrived or not
    arrived,    \* arrived[c]: messages to c in the database, 0: the notices
    sent,       \* sent[c]: those an answer has come for
    acts

centerVars == <<mode, hidden, customer, thread, notices, loaded, due, fetches,
                waits, broken, sends, arrived, sent, acts>>

Whom == {0} \cup Customers
Kinds == {"list", "thread", "notices"}
KindsOf(m) == IF m = "direct" THEN {"list", "thread"} ELSE {"notices"}
Blank == [of |-> 0, has |-> 0]
NotRead == -1

CenterTypeOK ==
    /\ mode \in {"direct", "broadcast"} /\ customer \in Whom
    /\ thread.of \in Whom /\ due \subseteq Kinds /\ waits \subseteq Kinds
    /\ \A c \in Whom : sent[c] <= arrived[c]
    /\ \A r \in fetches : r.kind \in Kinds /\ r.of \in Whom

(* The address of the page may name a customer.                            *)
CenterInit ==
    /\ mode = "direct" /\ hidden = FALSE /\ customer \in Whom
    /\ thread = Blank /\ notices = 0 /\ loaded = FALSE
    /\ due = {"list", "thread"} /\ fetches = {} /\ waits = {} /\ broken = {}
    /\ sends = {} /\ arrived = [c \in Whom |-> 0] /\ sent = arrived /\ acts = 0

Acts == acts < MaxActs /\ acts' = acts + 1
Running(k) == {r \in fetches : r.kind = k /\ ~r.aborted}

(* An aborted request for a thread is kept, for its answer may come.       *)
AbortedOf(ks) ==
    {r \in fetches : r.kind \notin ks}
    \cup {[r EXCEPT !.aborted = TRUE, !.saw = 0] :
             r \in {q \in fetches : q.kind \in ks \cap {"thread"}}}

(* loadConversations(), loadMessages() and loadBroadcasts(), of ks at once:*)
(* a silent one leaves a request that runs alone, another one aborts it.   *)
(* Without a customer there is no thread to load.                          *)
Load(ks, silent) ==
    LET wanted == {k \in ks : ~silent \/ Running(k) = {}}
        asked  == IF customer = 0 THEN wanted \ {"thread"} ELSE wanted
    IN  /\ fetches' = AbortedOf(wanted)
                   \cup {[kind |-> k,
                          of |-> IF k = "thread" THEN customer ELSE 0,
                          saw |-> IF k = "list" THEN 0 ELSE NotRead,
                          aborted |-> FALSE] : k \in asked}
        /\ waits' = (waits \cup IF silent THEN {} ELSE asked)
                    \ (wanted \ asked)
        /\ broken' = broken \ asked
        /\ thread' = IF wanted = asked THEN thread ELSE Blank

(* An effect that runs again aborts its request and sets its timer.        *)
RunEffects(ks) == fetches' = AbortedOf(ks) /\ due' = due \cup ks

TimerRuns(k) ==
    /\ k \in due /\ due' = due \ {k}
    /\ IF hidden THEN UNCHANGED <<fetches, waits, broken, thread>>
       ELSE Load({k}, FALSE)
    /\ UNCHANGED <<mode, hidden, customer, notices, loaded, sends, arrived,
                   sent, acts>>

(* selectConversation(): the messages of the other customer go at once.    *)
Select(c) ==
    /\ c \in Customers \ {customer}
    /\ customer' = c /\ thread' = Blank
    /\ RunEffects({"thread"})
    /\ UNCHANGED <<mode, hidden, notices, loaded, waits, broken, sends,
                   arrived, sent>>

(* By hand, or by itself when nobody is selected and the list has come.    *)
SelectConversation(c) ==
    /\ mode = "direct"
    /\ \/ Acts /\ Select(c)
       \/ /\ customer = 0 /\ loaded
          /\ Select(CHOOSE d \in Customers : TRUE) /\ UNCHANGED acts

Search ==
    /\ mode = "direct" /\ Acts /\ RunEffects({"list"})
    /\ UNCHANGED <<mode, hidden, customer, thread, notices, loaded, waits,
                   broken, sends, arrived, sent>>

SwitchMode(m) ==
    /\ m # mode /\ Acts /\ mode' = m
    /\ fetches' = AbortedOf(Kinds) /\ due' = KindsOf(m)
    /\ UNCHANGED <<hidden, customer, thread, notices, loaded, waits, broken,
                   sends, arrived, sent>>

Poll ==
    /\ ~hidden /\ Load(KindsOf(mode), TRUE) /\ fetches' # fetches
    /\ UNCHANGED <<mode, hidden, customer, notices, loaded, due, sends,
                   arrived, sent, acts>>

PressRefresh ==
    /\ waits \cap KindsOf(mode) = {} /\ ~hidden /\ Acts
    /\ Load(KindsOf(mode), FALSE)
    /\ UNCHANGED <<mode, hidden, customer, notices, loaded, due, sends,
                   arrived, sent>>

Hide ==
    /\ ~hidden /\ Acts /\ hidden' = TRUE /\ fetches' = AbortedOf(Kinds)
    /\ UNCHANGED <<mode, customer, thread, notices, loaded, due, waits,
                   broken, sends, arrived, sent>>

ComeBack ==
    /\ hidden /\ hidden' = FALSE /\ Load(KindsOf(mode), TRUE)
    /\ UNCHANGED <<mode, customer, notices, loaded, due, sends, arrived, sent,
                   acts>>

(* The server reads; messages arrived later are not in its answer.          *)
Read(r) ==
    /\ r \in fetches /\ r.saw = NotRead
    /\ fetches' = (fetches \ {r})
               \cup {[r EXCEPT !.saw = arrived[r.of]]}
    /\ UNCHANGED <<mode, hidden, customer, thread, notices, loaded, due,
                   waits, broken, sends, arrived, sent, acts>>

(* Mutated: an answer counts whether its request was aborted or not.       *)
HeardAlways(r) == TRUE
Heard(r) == ~r.aborted

LoadReturns(r) ==
    /\ r \in fetches /\ r.saw # NotRead /\ fetches' = fetches \ {r}
    /\ thread' = IF Heard(r) /\ r.kind = "thread"
                 THEN [of |-> r.of, has |-> r.saw] ELSE thread
    /\ notices' = IF Heard(r) /\ r.kind = "notices" THEN r.saw ELSE notices
    /\ loaded' = (loaded \/ (Heard(r) /\ r.kind = "list"))
    /\ waits' = IF r.aborted THEN waits ELSE waits \ {r.kind}
    /\ UNCHANGED <<mode, hidden, customer, due, broken, sends, arrived, sent,
                   acts>>

LoadFails(r) ==
    /\ r \in fetches /\ ~r.aborted /\ Acts
    /\ fetches' = fetches \ {r}
    /\ waits' = waits \ {r.kind} /\ broken' = broken \cup {r.kind}
    /\ UNCHANGED <<mode, hidden, customer, thread, notices, loaded, due,
                   sends, arrived, sent>>

(* sendDirect() and sendBroadcast(): one at a time.                        *)
WriteMessage ==
    /\ sends = {} /\ Acts
    /\ mode = "direct" => customer # 0
    /\ sends' = {[to |-> IF mode = "direct" THEN customer ELSE 0,
                  arrived |-> FALSE]}
    /\ UNCHANGED <<mode, hidden, customer, thread, notices, loaded, due,
                   fetches, waits, broken, arrived, sent>>

MessageArrives(m) ==
    /\ m \in sends /\ ~m.arrived
    /\ sends' = {[m EXCEPT !.arrived = TRUE]}
    /\ arrived' = [arrived EXCEPT ![m.to] = @ + 1]
    /\ UNCHANGED <<mode, hidden, customer, thread, notices, loaded, due,
                   fetches, waits, broken, sent, acts>>

(* The view that is open by then is loaded again.                          *)
MessageSent(m) ==
    /\ m \in sends /\ m.arrived /\ sends' = {}
    /\ sent' = [sent EXCEPT ![m.to] = @ + 1]
    /\ IF hidden THEN UNCHANGED <<fetches, waits, broken, thread>>
       ELSE Load(KindsOf(mode), FALSE)
    /\ UNCHANGED <<mode, hidden, customer, notices, loaded, due, arrived,
                   acts>>

(* Refused, or its answer lost: the message may have been sent.            *)
SendFails(m) ==
    /\ m \in sends /\ Acts /\ sends' = {}
    /\ UNCHANGED <<mode, hidden, customer, thread, notices, loaded, due,
                   fetches, waits, broken, arrived, sent>>

CenterNext ==
    \/ \E k \in Kinds : TimerRuns(k)
    \/ \E c \in Customers : SelectConversation(c)
    \/ \E m \in {"direct", "broadcast"} : SwitchMode(m)
    \/ Search \/ Poll \/ PressRefresh \/ Hide \/ ComeBack \/ WriteMessage
    \/ \E r \in fetches : Read(r) \/ LoadReturns(r) \/ LoadFails(r)
    \/ \E m \in sends : MessageArrives(m) \/ MessageSent(m) \/ SendFails(m)
-----------------------------------------------------------------------------
AtRest(k) == k \notin due \cup broken /\ Running(k) = {}

(* The messages on the screen are those of the customer whose name is on   *)
(* it, whatever was selected while they were loaded; and whoever sent one  *)
(* and was told so sees it once the page is at rest, in whatever order     *)
(* polls, selections and answers came (message-center.tsx:43-176).         *)
ThreadIsOfCustomer ==
    /\ thread.of \in {0, customer}
    /\ mode = "direct" /\ ~hidden /\ customer # 0 /\ AtRest("thread")
       => thread.of = customer /\ thread.has >= sent[customer]
    /\ mode = "broadcast" /\ ~hidden /\ AtRest("notices")
       => notices >= sent[0]
    /\ \A k \in waits \cap KindsOf(mode) :
          hidden \/ k \in due \/ Running(k) # {}
=============================================================================
