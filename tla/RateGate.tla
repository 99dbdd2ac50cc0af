------------------------------- MODULE RateGate -------------------------------
(***************************************************************************)
(* The gate that all workers of the shop pass before they send a notice    *)
(* (MongoBroadcastRateGate): one document with the sends of the last three *)
(* seconds, decided on and changed by one update of the database, by the   *)
(* clock of the database.  Time counts in ticks.                           *)
(***************************************************************************)
EXTENDS Integers, FiniteSets

CONSTANTS
    Senders,      \* processes that send
    Chats,        \* chats they send to
    Interval,     \* Interval[c]: ticks between two sends to chat c
    Window,       \* the ticks of WINDOW_MS
    Longest,      \* the ticks of GROUP_INTERVAL_MS
    PerWindow,    \* limit: sends in a window
    Cooldowns,    \* the ticks Telegram may ask the shop to wait
    MaxTime       \* bound: ticks

VARIABLES
    now,          \* the clock of the database
    events,       \* the sends the document remembers: <<chat, at>>
    blockedUntil,
    refusedUntil, \* globallyBlockedUntil of each sender
    grants        \* the sends that were granted, however the document
                  \* remembers them, for twice the longest interval

gateVars == <<now, events, blockedUntil, refusedUntil, grants>>

ASSUME GateConstants ==
    /\ {Window, Longest, PerWindow, MaxTime} \subseteq Nat \ {0}
    /\ Interval \in [Chats -> {Window, Longest}] /\ Window <= Longest
    /\ Cooldowns \subseteq Nat

GateInit ==
    /\ now = Longest /\ events = {} /\ blockedUntil = 0
    /\ refusedUntil = [s \in Senders |-> 0]
    /\ grants = {}

Latest(S) == CHOOSE x \in S : \A y \in S : y <= x
Earliest(S) == CHOOSE x \in S : \A y \in S : x <= y

Since(S, ticks) == {e \in S : e[2] > now - ticks}
TimesOf(S) == {e[2] : e \in S}

TimePasses ==
    /\ now < MaxTime /\ now' = now + 1
    /\ grants' = Since(grants, 2 * Longest)
    /\ UNCHANGED <<events, blockedUntil, refusedUntil>>

(* Mutated: the document forgets what is older than the window.            *)
RememberedBriefly == Since(events, Window)

Remembered == Since(events, Longest)

(* Mutated: one more than the limit goes through.                          *)
GlobalRetryAtLate ==
    LET recent == Since(Remembered, Window) IN
    Latest({now, blockedUntil,
            IF Cardinality(recent) > PerWindow
            THEN Earliest(TimesOf(recent)) + Window ELSE now})

(* The aggregation pipeline of acquire().                                  *)
GlobalRetryAt ==
    LET recent == Since(Remembered, Window) IN
    Latest({now, blockedUntil,
            IF Cardinality(recent) >= PerWindow
            THEN Earliest(TimesOf(recent)) + Window ELSE now})

RetryAt(c) ==
    LET recent == {e \in Since(Remembered, Interval[c]) : e[1] = c} IN
    Latest({GlobalRetryAt, IF recent = {} THEN now
                           ELSE Latest(TimesOf(recent)) + Interval[c]})

(* acquire(): refused from the cache, refused by the gate, or granted.     *)
Acquire(s, c) ==
    /\ refusedUntil[s] <= now
    /\ IF RetryAt(c) <= now
       THEN /\ events' = Remembered \cup {<<c, now>>}
            /\ grants' = grants \cup {<<c, now>>}
       ELSE events' = Remembered /\ UNCHANGED grants
    /\ refusedUntil' = [refusedUntil EXCEPT ![s] =
                           IF GlobalRetryAt > now THEN GlobalRetryAt ELSE @]
    /\ UNCHANGED <<now, blockedUntil>>

(* Telegram answers 429: send() shares the cooldown by defer().            *)
Defer ==
    /\ \E wait \in Cooldowns :
          blockedUntil' = Latest({blockedUntil, now + wait})
    /\ UNCHANGED <<now, events, refusedUntil, grants>>

GateNext == \/ TimePasses \/ Defer
            \/ \E s \in Senders, c \in Chats : Acquire(s, c)

GateSpec == GateInit /\ [][GateNext]_gateVars

(* "A bounded, atomic rate window shared by every worker"                  *)
(* (broadcast-rate-store.ts:25): in no window of time are more sends       *)
(* granted than the limit, nor two to one chat within its interval; and    *)
(* what a worker refuses from its cache, the gate would refuse as well     *)
(* ("Cache only rejections").                                              *)
NeverTooFast ==
    /\ \A g \in grants :
          /\ Cardinality({h \in grants : h[2] > g[2] - Window /\ h[2] <= g[2]})
                <= PerWindow
          /\ \A h \in grants : g[1] = h[1] /\ g[2] < h[2]
                               => h[2] - g[2] >= Interval[g[1]]
    /\ \A s \in Senders : refusedUntil[s] > now => GlobalRetryAt > now
=============================================================================
