---------------------------- MODULE ServiceProofs ----------------------------
(***************************************************************************)
(* What holds of the services around the sale for any number of processes, *)
(* customers, senders and messages, and any number of faults: the bot of   *)
(* the process, the rate at which it may send, the notices to all          *)
(* customers, and the report over the history of the bank.                 *)
(***************************************************************************)
EXTENDS BotRuntime, Broadcast, RateGate, Reconciliation, FiniteSums

LEMMA AtMostOne ==
    ASSUME NEW S, \A x, y \in S : x = y
    PROVE  IsFiniteSet(S) /\ Cardinality(S) \in Nat /\ Cardinality(S) <= 1
<1>1. CASE S = {}
  BY <1>1, FS_EmptySet
<1>2. CASE S # {}
  <2>1. PICK x \in S : TRUE
    BY <1>2
  <2>2. S = {x}
    BY <2>1
  <2>. QED  BY <2>2, FS_Singleton
<1>. QED  BY <1>1, <1>2

(* Of finitely many numbers one is the smallest and one the greatest.      *)
LEMMA HasSmallest ==
    ASSUME NEW S \in SUBSET Int, IsFiniteSet(S), S # {}
    PROVE  \E x \in S : \A y \in S : x <= y
<1>. DEFINE Below(x) == {y \in S : y <= x}
            T == {Below(x) : x \in S}
<1>2. \A x \in S : x \in Int
  OBVIOUS
<1>3. FiniteSubsetsOf(S) = SUBSET S
  BY FS_FiniteSubsetsOfFinite
<1>4. T \subseteq FiniteSubsetsOf(S) /\ T # {}
  <2>1. \A x \in S : Below(x) \in SUBSET S
    OBVIOUS
  <2>2. \E x \in S : Below(x) \in T
    OBVIOUS
  <2>3. T \subseteq SUBSET S
    <3>. HIDE DEF Below
    <3>. QED  BY <2>1
  <2>. QED  BY <1>3, <2>2, <2>3
<1>5. IsWellFoundedOn(StrictSubsetOrdering(S), FiniteSubsetsOf(S))
  BY FS_StrictSubsetOrderingWellFounded
<1>6. \E A \in T : \A B \in T : <<B, A>> \notin StrictSubsetOrdering(S)
  <2>. HIDE DEF T
  <2>. QED  BY <1>4, <1>5, WFMin
<1>7. PICK x \in S : \A y \in S :
         <<Below(y), Below(x)>> \notin StrictSubsetOrdering(S)
  BY <1>6
<1>8. ASSUME NEW y \in S, ~(x <= y) PROVE FALSE
  <2>0. x \in Int /\ y \in Int /\ y < x
    BY <1>2, <1>8
  <2>1. Below(y) \subseteq Below(x) /\ x \in Below(x) /\ x \notin Below(y)
    <3>1. ASSUME NEW z \in Below(y) PROVE z \in Below(x)
      <4>1. z \in S /\ z \in Int /\ z <= y
        BY <1>2
      <4>. QED  BY <2>0, <4>1
    <3>2. x \in Below(x) /\ x \notin Below(y)
      BY <2>0
    <3>. QED
      <4>. HIDE DEF Below
      <4>. QED  BY <3>1, <3>2
  <2>2. <<Below(y), Below(x)>> \in StrictSubsetOrdering(S)
    BY <2>1 DEF StrictSubsetOrdering
  <2>. QED  BY <1>7, <2>2
<1>. QED  BY <1>8

LEMMA HasGreatest ==
    ASSUME NEW S \in SUBSET Int, IsFiniteSet(S), S # {}
    PROVE  \E x \in S : \A y \in S : y <= x
<1>. DEFINE N == {-x : x \in S}
<1>0. \A x \in S : x \in Int
  OBVIOUS
<1>1. N \in SUBSET Int /\ N # {}
  <2>1. PICK x \in S : TRUE
    OBVIOUS
  <2>2. -x \in N
    BY <2>1
  <2>3. \A n \in N : n \in Int
    BY <1>0
  <2>. QED  BY <2>2, <2>3
<1>2. IsFiniteSet(N)
  <2>. DEFINE f == [x \in S |-> -x]
  <2>1. f \in Surjection(S, N)
    BY DEF Surjection
  <2>. QED  BY <2>1, FS_Surjection
<1>3. PICK m \in N : \A n \in N : m <= n
  <2>. HIDE DEF N
  <2>. QED  BY <1>1, <1>2, HasSmallest
<1>4. PICK x \in S : m = -x
  OBVIOUS
<1>5. ASSUME NEW y \in S PROVE y <= x
  <2>1. -x <= -y
    BY <1>3, <1>4
  <2>. QED  BY <1>0, <2>1
<1>. QED  BY <1>5

-----------------------------------------------------------------------------
(* The bot.                                                                *)

BotStates == {"new", "starting", "polling", "stopped", "failed"}
Asks(n) == bot[n] \in {"starting", "polling"}

(* The bot that messages are sent with is the only one that asks for       *)
(* updates, and a refresh under way holds a bot that was never launched.   *)
BotInvariant ==
    /\ current \in {0} \cup Launches /\ bot \in [Launches -> BotStates]
    /\ running \in BOOLEAN
    /\ refreshing.step = "switch" => /\ refreshing.next \in Launches
                                     /\ bot[refreshing.next] = "new"
    /\ running => /\ current # 0 => Asks(current)
                  /\ \A n \in Launches : Asks(n) => n = current

LEMMA BotBegins == RuntimeInit => BotInvariant
BY DEF RuntimeInit, BotInvariant, BotStates, Asks, NoRefresh

LEMMA BotKept ==
    ASSUME BotInvariant, [RuntimeNext]_runtimeVars PROVE BotInvariant'
<1>0. 0 \notin Launches
  BY RuntimeConstants
<1>. USE DEF BotInvariant, Asks, BotStates
<1>1. CASE Reconfigure \/ Refresh \/ RefreshFails \/ SwitchRefused
  BY <1>1
  DEF Reconfigure, Refresh, RefreshFails, SwitchRefused, BotsStay, NoRefresh
<1>2. CASE SwitchBot
  BY <1>0, <1>2 DEF SwitchBot, Stopped, Phase, NoRefresh
<1>3. CASE Shutdown
  BY <1>0, <1>3 DEF Shutdown, Stopped, Phase
<1>4. ASSUME NEW n \in Launches, BeginsToPoll(n) PROVE BotInvariant'
  BY <1>0, <1>4 DEF BeginsToPoll
<1>5. ASSUME NEW n \in Launches, LaunchFails(n) PROVE BotInvariant'
  BY <1>0, <1>5 DEF LaunchFails, Forgotten
<1>6. CASE UNCHANGED runtimeVars
  BY <1>6 DEF runtimeVars
<1>. QED  BY <1>1, <1>2, <1>3, <1>4, <1>5, <1>6 DEF RuntimeNext

(* No two bots of a process ask Telegram for updates, and messages go out  *)
(* by one that was not stopped, however slow its launch is and however     *)
(* often the configuration changes (bot-runtime.manager.ts:66-82).         *)
THEOREM BotIsAlone == RuntimeSpec => []OnePoller
<1>1. BotInvariant => OnePoller
  <2>. SUFFICES ASSUME BotInvariant, running PROVE OnePoller
    BY DEF OnePoller
  <2>1. \A m, n \in {k \in Launches : Asks(k)} : m = n
    BY DEF BotInvariant
  <2>2. Cardinality({k \in Launches : Asks(k)}) <= 1
    BY <2>1, AtMostOne
  <2>3. Phase(current) \in {"none", "starting", "polling"}
    BY DEF BotInvariant, Phase, Asks
  <2>. QED  BY <2>2, <2>3 DEF OnePoller, Asks
<1>. QED  BY <1>1, BotBegins, BotKept, PTL DEF RuntimeSpec

-----------------------------------------------------------------------------
(* The rate of notices.                                                    *)

LEMMA LatestIsBound ==
    ASSUME NEW S \in SUBSET Int, IsFiniteSet(S), S # {}
    PROVE  Latest(S) \in S /\ \A x \in S : x <= Latest(S)
BY HasGreatest DEF Latest

LEMMA EarliestIsBound ==
    ASSUME NEW S \in SUBSET Int, IsFiniteSet(S), S # {}
    PROVE  Earliest(S) \in S /\ \A x \in S : Earliest(S) <= x
BY HasSmallest DEF Earliest

LEMMA TimesFinite ==
    ASSUME NEW S, IsFiniteSet(S), S \subseteq Chats \X Nat
    PROVE  /\ IsFiniteSet(TimesOf(S)) /\ TimesOf(S) \in SUBSET Int
           /\ S # {} => TimesOf(S) # {}
           /\ \A t \in TimesOf(S) : \E e \in S : t = e[2]
           /\ \A e \in S : e[2] \in TimesOf(S)
<1>. DEFINE f == [e \in S |-> e[2]]
<1>1. f \in Surjection(S, TimesOf(S))
  BY DEF Surjection, TimesOf
<1>2. IsFiniteSet(TimesOf(S))
  BY <1>1, FS_Surjection
<1>. QED  BY <1>2 DEF TimesOf

LEMMA LatestOfTwo ==
    ASSUME NEW a \in Int, NEW b \in Int
    PROVE  /\ Latest({a, b}) \in {a, b}
           /\ Latest({a, b}) >= a /\ Latest({a, b}) >= b
<1>1. IsFiniteSet({a} \cup {b})
  BY FS_Singleton, FS_AddElement
<1>2. {a, b} = {a} \cup {b}
  OBVIOUS
<1>. QED  BY <1>1, <1>2, LatestIsBound

LEMMA LatestOfThree ==
    ASSUME NEW a \in Int, NEW b \in Int, NEW c \in Int
    PROVE  /\ Latest({a, b, c}) \in {a, b, c}
           /\ Latest({a, b, c}) >= a /\ Latest({a, b, c}) >= b
           /\ Latest({a, b, c}) >= c
<1>1. IsFiniteSet(({a} \cup {b}) \cup {c})
  BY FS_Singleton, FS_AddElement
<1>2. {a, b, c} = ({a} \cup {b}) \cup {c}
  OBVIOUS
<1>. QED  BY <1>1, <1>2, LatestIsBound

(* What the document and the memory of grants hold.                        *)
Sends(S) == /\ S \subseteq Chats \X Nat /\ IsFiniteSet(S)
            /\ \A e \in S : e[2] <= now
GateTypeOK == /\ now \in Nat /\ blockedUntil \in Nat
              /\ refusedUntil \in [Senders -> Int]
              /\ Sends(events) /\ Sends(grants)

(* The sends of the window before t.                                       *)
Before(S, t) == {h \in S : h[2] > t - Window /\ h[2] <= t}
Recent == {e \in events : e[2] > now - Window}

(* The document knows every grant that an interval may ask for.            *)
GrantsAreKnown == \A g \in grants : g[2] > now - Longest => g \in events
Limited == \A g \in grants : Cardinality(Before(grants, g[2])) <= PerWindow
Spaced == \A g, h \in grants : g[1] = h[1] /\ g[2] < h[2]
                               => h[2] - g[2] >= Interval[g[1]]

(* What makes the gate refuse until t is not over before t.                *)
Holding(t) == {e \in events : e[2] + Window >= t}
RefusedFor(t) == \/ blockedUntil >= t
                 \/ Cardinality(Holding(t)) >= PerWindow
RefusalsHold == \A s \in Senders :
                   refusedUntil[s] > now => RefusedFor(refusedUntil[s])

GateInvariant == /\ GateTypeOK /\ GrantsAreKnown /\ Limited /\ Spaced
                 /\ RefusalsHold

LEMMA GateNumbers ==
    /\ Window \in Nat /\ Longest \in Nat /\ PerWindow \in Nat
    /\ Window > 0 /\ PerWindow > 0 /\ Window <= Longest
    /\ \A c \in Chats : /\ Interval[c] \in Nat /\ Interval[c] > 0
                        /\ Interval[c] <= Longest
BY GateConstants

LEMMA SendsSubset ==
    ASSUME NEW S, Sends(S), NEW T \in SUBSET S
    PROVE  /\ Sends(T) /\ Cardinality(T) \in Nat
           /\ Cardinality(T) <= Cardinality(S)
BY FS_Subset, FS_CardinalityType DEF Sends

LEMMA RecentIsSince ==
    ASSUME GateTypeOK
    PROVE  /\ Since(Remembered, Window) = Recent
           /\ Sends(Recent) /\ Cardinality(Recent) \in Nat
<1>1. ASSUME NEW e \in events, e[2] > now - Window
      PROVE  e[2] > now - Longest
  BY <1>1, GateNumbers DEF GateTypeOK, Sends
<1>2. Since(Remembered, Window) = Recent
  BY <1>1 DEF Since, Remembered, Recent
<1>. QED  BY <1>2, SendsSubset DEF GateTypeOK, Recent

LEMMA GlobalRetry ==
    ASSUME GateTypeOK
    PROVE  /\ GlobalRetryAt \in Int /\ GlobalRetryAt >= now
           /\ GlobalRetryAt >= blockedUntil
           /\ Cardinality(Recent) >= PerWindow => GlobalRetryAt > now
           /\ GlobalRetryAt > now => RefusedFor(GlobalRetryAt)
<1>. DEFINE first == Earliest(TimesOf(Recent))
            at == IF Cardinality(Recent) >= PerWindow THEN first + Window
                  ELSE now
<1>1. /\ GlobalRetryAt = Latest({now, blockedUntil, at})
      /\ now \in Int /\ blockedUntil \in Int
  BY RecentIsSince DEF GlobalRetryAt, GateTypeOK
<1>2. ASSUME Cardinality(Recent) >= PerWindow
      PROVE  /\ first \in Int /\ first > now - Window
             /\ \A e \in Recent : e[2] \in Int /\ first <= e[2]
  <2>1. Recent # {}
    <3>1. Cardinality({}) = 0
      BY FS_EmptySet
    <3>. QED  BY <1>2, <3>1, GateNumbers
  <2>2. IsFiniteSet(Recent) /\ Recent \subseteq Chats \X Nat
    BY RecentIsSince DEF Sends
  <2>3. /\ first \in TimesOf(Recent)
        /\ \A t \in TimesOf(Recent) : first <= t
    BY <2>1, <2>2, TimesFinite, EarliestIsBound
  <2>4. PICK e \in Recent : first = e[2]
    BY <2>2, <2>3, TimesFinite
  <2>5. \A d \in Recent : d[2] \in Int /\ first <= d[2]
    BY <2>2, <2>3, TimesFinite
  <2>. QED  BY <2>4, <2>5 DEF Recent
<1>3. at \in Int
  BY <1>1, <1>2, GateNumbers
<1>4. /\ GlobalRetryAt \in {now, blockedUntil, at} /\ GlobalRetryAt >= now
      /\ GlobalRetryAt >= blockedUntil /\ GlobalRetryAt >= at
  BY <1>1, <1>3, LatestOfThree
<1>5. ASSUME Cardinality(Recent) >= PerWindow PROVE GlobalRetryAt > now
  <2>1. at > now
    BY <1>1, <1>2, <1>5, GateNumbers
  <2>. QED  BY <1>1, <1>3, <1>4, <2>1
<1>6. ASSUME GlobalRetryAt > now PROVE RefusedFor(GlobalRetryAt)
  <2>1. CASE GlobalRetryAt = blockedUntil
    BY <1>1, <2>1 DEF RefusedFor
  <2>2. CASE GlobalRetryAt # blockedUntil
    <3>1. Cardinality(Recent) >= PerWindow /\ GlobalRetryAt = first + Window
      BY <1>1, <1>4, <1>6, <2>2
    <3>2. Recent \subseteq Holding(GlobalRetryAt)
      <4>1. ASSUME NEW e \in Recent
            PROVE  e \in events /\ e[2] + Window >= GlobalRetryAt
        <5>1. e[2] \in Int /\ first <= e[2] /\ first \in Int
          BY <1>2, <3>1
        <5>. HIDE DEF first
        <5>. QED  BY <3>1, <5>1, GateNumbers DEF Recent
      <4>. QED  BY <4>1 DEF Holding
    <3>3. /\ Cardinality(Recent) <= Cardinality(Holding(GlobalRetryAt))
          /\ Cardinality(Recent) \in Nat
          /\ Cardinality(Holding(GlobalRetryAt)) \in Nat
      <4>1. Sends(Holding(GlobalRetryAt))
            /\ Cardinality(Holding(GlobalRetryAt)) \in Nat
        BY SendsSubset DEF GateTypeOK, Holding
      <4>2. Recent \in SUBSET Holding(GlobalRetryAt)
        BY <3>2
      <4>3. /\ Cardinality(Recent) <= Cardinality(Holding(GlobalRetryAt))
            /\ Cardinality(Recent) \in Nat
        BY <4>1, <4>2, SendsSubset
      <4>. QED  BY <4>1, <4>3
    <3>. QED  BY <3>1, <3>3, GateNumbers DEF RefusedFor
  <2>. QED  BY <2>1, <2>2
<1>. QED  BY <1>1, <1>3, <1>4, <1>5, <1>6

LEMMA ChatRetry ==
    ASSUME GateTypeOK, NEW c \in Chats
    PROVE  /\ RetryAt(c) \in Int /\ RetryAt(c) >= GlobalRetryAt
           /\ \A e \in events : e[1] = c /\ e[2] > now - Interval[c]
                                => RetryAt(c) >= e[2] + Interval[c]
<1>. DEFINE mine == {e \in Since(Remembered, Interval[c]) : e[1] = c}
            at == IF mine = {} THEN now
                  ELSE Latest(TimesOf(mine)) + Interval[c]
<1>1. RetryAt(c) = Latest({GlobalRetryAt, at})
  BY DEF RetryAt
<1>2. mine \subseteq events
  BY DEF Since, Remembered
<1>3. ASSUME NEW e \in events, e[1] = c, e[2] > now - Interval[c]
      PROVE  e \in mine
  <2>1. e[2] > now - Longest
    BY <1>3, GateNumbers DEF GateTypeOK, Sends
  <2>. QED  BY <1>3, <2>1 DEF Since, Remembered
<1>4. Sends(mine)
  BY <1>2, SendsSubset DEF GateTypeOK
<1>5. ASSUME mine # {}
      PROVE  /\ Latest(TimesOf(mine)) \in Int
             /\ \A e \in mine : e[2] <= Latest(TimesOf(mine))
  <2>1. IsFiniteSet(mine) /\ mine \subseteq Chats \X Nat
    BY <1>4 DEF Sends
  <2>2. /\ IsFiniteSet(TimesOf(mine)) /\ TimesOf(mine) \in SUBSET Int
        /\ TimesOf(mine) # {} /\ \A e \in mine : e[2] \in TimesOf(mine)
    <3>. HIDE DEF mine
    <3>. QED  BY <1>5, <2>1, TimesFinite
  <2>3. /\ Latest(TimesOf(mine)) \in TimesOf(mine)
        /\ \A t \in TimesOf(mine) : t <= Latest(TimesOf(mine))
    <3>. HIDE DEF mine
    <3>. QED  BY <2>2, LatestIsBound
  <2>. HIDE DEF mine
  <2>. QED  BY <2>2, <2>3
<1>6. at \in Int /\ GlobalRetryAt \in Int
  BY <1>5, GateNumbers, GlobalRetry DEF GateTypeOK
<1>7. RetryAt(c) \in Int /\ RetryAt(c) >= GlobalRetryAt /\ RetryAt(c) >= at
  BY <1>1, <1>6, LatestOfTwo
<1>8. ASSUME NEW e \in events, e[1] = c, e[2] > now - Interval[c]
      PROVE  RetryAt(c) >= e[2] + Interval[c]
  <2>1. e \in mine /\ e[2] \in Int
    BY <1>3, <1>8 DEF GateTypeOK, Sends
  <2>2. Latest(TimesOf(mine)) \in Int /\ e[2] <= Latest(TimesOf(mine))
    BY <1>5, <2>1
  <2>3. at = Latest(TimesOf(mine)) + Interval[c]
    BY <2>1
  <2>. QED  BY <1>7, <2>1, <2>2, <2>3, GateNumbers
<1>. QED  BY <1>7, <1>8

LEMMA GateBegins == GateInit => GateInvariant
<1>. SUFFICES ASSUME GateInit PROVE GateInvariant
  OBVIOUS
<1>1. GateTypeOK
  BY FS_EmptySet, GateNumbers DEF GateInit, GateTypeOK, Sends
<1>. QED
  BY <1>1, GateNumbers
  DEF GateInit, GateInvariant, GrantsAreKnown, Limited, Spaced, RefusalsHold

(* A step that grants nothing: time goes on, grants are forgotten, and the *)
(* document keeps what is younger than the longest interval.               *)
LEMMA NothingGranted ==
    ASSUME GateInvariant, now' \in Nat, now' >= now,
           blockedUntil' \in Nat, blockedUntil' >= blockedUntil,
           grants' \subseteq grants,
           events' \subseteq events, Remembered \subseteq events',
           refusedUntil' \in [Senders -> Int],
           \A s \in Senders : \/ refusedUntil'[s] = refusedUntil[s]
                              \/ refusedUntil'[s] > now
                                 /\ RefusedFor(refusedUntil'[s])
    PROVE  GateInvariant'
<1>0. /\ GateTypeOK /\ now \in Nat /\ Sends(events) /\ Sends(grants)
      /\ blockedUntil \in Nat /\ \A e \in events : e[2] \in Nat
  BY DEF GateInvariant, GateTypeOK, Sends
<1>1. GateTypeOK'
  <2>1. IsFiniteSet(events') /\ IsFiniteSet(grants')
    BY <1>0, FS_Subset DEF Sends
  <2>. QED  BY <1>0, <2>1 DEF GateTypeOK, Sends
<1>2. GrantsAreKnown'
  <2>1. ASSUME NEW g \in grants', g[2] > now' - Longest
        PROVE  g \in events'
    <3>1. g \in grants /\ g[2] \in Nat /\ g[2] > now - Longest
      BY <1>0, <2>1, GateNumbers DEF Sends
    <3>2. g \in events
      BY <3>1 DEF GateInvariant, GrantsAreKnown
    <3>. QED  BY <3>1, <3>2 DEF Remembered, Since
  <2>. QED  BY <2>1 DEF GrantsAreKnown
<1>3. Limited'
  <2>1. ASSUME NEW g \in grants'
        PROVE  Cardinality(Before(grants', g[2])) <= PerWindow
    <3>1. Before(grants', g[2]) \in SUBSET Before(grants, g[2])
      BY DEF Before
    <3>2. /\ Sends(Before(grants, g[2]))
          /\ Cardinality(Before(grants, g[2])) \in Nat
      BY <1>0, SendsSubset DEF Before
    <3>3. /\ Cardinality(Before(grants', g[2])) \in Nat
          /\ Cardinality(Before(grants', g[2]))
                <= Cardinality(Before(grants, g[2]))
      BY <3>1, <3>2, SendsSubset
    <3>4. Cardinality(Before(grants, g[2])) <= PerWindow
      BY DEF GateInvariant, Limited
    <3>. QED  BY <3>2, <3>3, <3>4, GateNumbers
  <2>. QED  BY <2>1 DEF Limited
<1>4. Spaced'
  BY DEF GateInvariant, Spaced
<1>5. RefusalsHold'
  <2>1. ASSUME NEW s \in Senders, NEW t \in Int, t = refusedUntil'[s],
               t > now'
        PROVE  RefusedFor(t)'
    <3>1. t \in Int /\ t > now /\ RefusedFor(t)
      BY <1>0, <2>1 DEF GateInvariant, RefusalsHold
    <3>2. CASE blockedUntil >= t
      BY <1>0, <3>1, <3>2 DEF RefusedFor
    <3>3. CASE Cardinality(Holding(t)) >= PerWindow
      <4>1. ASSUME NEW e \in Holding(t) PROVE e \in events'
        <5>1. e \in events /\ e[2] \in Nat /\ e[2] + Window >= t
          BY <1>0 DEF Holding
        <5>2. e[2] > now - Longest
          BY <1>0, <3>1, <5>1, GateNumbers
        <5>. QED  BY <5>1, <5>2 DEF Remembered, Since
      <4>2. Holding(t) = {e \in events' : e[2] + Window >= t}
        BY <4>1 DEF Holding
      <4>. QED  BY <3>3, <4>2 DEF RefusedFor, Holding
    <3>. QED  BY <3>1, <3>2, <3>3 DEF RefusedFor
  <2>2. \A s \in Senders : refusedUntil'[s] \in Int
    OBVIOUS
  <2>. QED  BY <2>1, <2>2 DEF RefusalsHold
<1>. QED  BY <1>1, <1>2, <1>3, <1>4, <1>5 DEF GateInvariant

LEMMA Granted ==
    ASSUME GateInvariant, NEW c \in Chats, RetryAt(c) <= now,
           events' = Remembered \cup {<<c, now>>},
           grants' = grants \cup {<<c, now>>},
           UNCHANGED <<now, blockedUntil, refusedUntil>>
    PROVE  GateInvariant'
<1>0. /\ GateTypeOK /\ now \in Nat /\ Sends(events) /\ Sends(grants)
      /\ blockedUntil \in Nat /\ \A e \in events : e[2] \in Nat
      /\ \A g \in grants : g[1] \in Chats /\ g[2] \in Nat /\ g[2] <= now
  BY DEF GateInvariant, GateTypeOK, Sends
<1>1. GlobalRetryAt \in Int /\ RetryAt(c) \in Int /\ GlobalRetryAt <= now
  BY <1>0, GlobalRetry, ChatRetry
<1>2. Cardinality(Recent) < PerWindow /\ Cardinality(Recent) \in Nat
  BY <1>0, <1>1, GlobalRetry, RecentIsSince, GateNumbers
<1>3. GateTypeOK'
  <2>1. Remembered \in SUBSET events
    BY DEF Remembered, Since
  <2>2. IsFiniteSet(events') /\ IsFiniteSet(grants')
    BY <1>0, <2>1, FS_Subset, FS_AddElement DEF Sends
  <2>. QED  BY <1>0, <2>1, <2>2 DEF GateTypeOK, Sends
<1>4. GrantsAreKnown'
  BY DEF GateInvariant, GrantsAreKnown, Remembered, Since
<1>5. Limited'
  <2>1. ASSUME NEW g \in grants'
        PROVE  Cardinality(Before(grants', g[2])) <= PerWindow
    <3>1. g[2] \in Nat /\ g[2] <= now
      BY <1>0
    <3>2. CASE g[2] < now
      <4>1. g \in grants
        BY <1>0, <3>2
      <4>2. Before(grants', g[2]) = Before(grants, g[2])
        BY <1>0, <3>1, <3>2 DEF Before
      <4>. QED  BY <4>1, <4>2 DEF GateInvariant, Limited
    <3>3. CASE g[2] = now
      <4>1. Before(grants', now) \in SUBSET (Recent \cup {<<c, now>>})
        <5>1. ASSUME NEW h \in grants, h[2] > now - Window PROVE h \in Recent
          <6>1. h[2] > now - Longest
            BY <1>0, <5>1, GateNumbers
          <6>2. h \in events
            BY <6>1 DEF GateInvariant, GrantsAreKnown
          <6>. QED  BY <5>1, <6>2 DEF Recent
        <5>. QED  BY <5>1 DEF Before
      <4>2. IsFiniteSet(Recent)
        BY <1>0, RecentIsSince DEF Sends
      <4>3. /\ IsFiniteSet(Recent \cup {<<c, now>>})
            /\ Cardinality(Recent \cup {<<c, now>>})
                  \in {Cardinality(Recent), Cardinality(Recent) + 1}
        BY <4>2, FS_AddElement
      <4>4. /\ Cardinality(Before(grants', now))
                  <= Cardinality(Recent \cup {<<c, now>>})
            /\ IsFiniteSet(Before(grants', now))
        BY <4>1, <4>3, FS_Subset
      <4>5. Cardinality(Before(grants', now)) \in Nat
        BY <4>4, FS_CardinalityType
      <4>. QED  BY <1>2, <3>3, <4>3, <4>4, <4>5, GateNumbers
    <3>. QED  BY <1>0, <3>1, <3>2, <3>3
  <2>. QED  BY <2>1 DEF Limited
<1>6. Spaced'
  <2>1. ASSUME NEW g \in grants, g[1] = c, g[2] < now
        PROVE  now - g[2] >= Interval[c]
    <3>1. CASE g[2] > now - Interval[c]
      <4>1. g[2] > now - Longest
        BY <1>0, <3>1, GateNumbers
      <4>2. g \in events
        BY <4>1 DEF GateInvariant, GrantsAreKnown
      <4>3. RetryAt(c) >= g[2] + Interval[c]
        BY <1>0, <2>1, <3>1, <4>2, ChatRetry
      <4>. QED  BY <1>0, <1>1, <3>1, <4>3, GateNumbers
    <3>2. CASE ~(g[2] > now - Interval[c])
      BY <1>0, <3>2, GateNumbers
    <3>. QED  BY <3>1, <3>2
  <2>2. ASSUME NEW g \in grants', NEW h \in grants', g[1] = h[1], g[2] < h[2]
        PROVE  h[2] - g[2] >= Interval[g[1]]
    <3>1. g \in grants
      BY <1>0, <2>2
    <3>2. CASE h \in grants
      BY <2>2, <3>1, <3>2 DEF GateInvariant, Spaced
    <3>3. CASE h = <<c, now>>
      BY <2>1, <2>2, <3>1, <3>3
    <3>. QED  BY <3>2, <3>3
  <2>. QED  BY <2>2 DEF Spaced
<1>7. RefusalsHold'
  <2>1. ASSUME NEW s \in Senders, refusedUntil[s] > now
        PROVE  RefusedFor(refusedUntil[s])'
    <3>. DEFINE t == refusedUntil[s]
    <3>1. t \in Int /\ RefusedFor(t)
      BY <1>0, <2>1 DEF GateInvariant, RefusalsHold, GateTypeOK
    <3>2. CASE blockedUntil >= t
      BY <3>2 DEF RefusedFor
    <3>3. CASE Cardinality(Holding(t)) >= PerWindow
      <4>1. Holding(t) \in SUBSET {e \in events' : e[2] + Window >= t}
        <5>1. ASSUME NEW e \in Holding(t) PROVE e \in events'
          <6>1. e \in events /\ e[2] \in Nat /\ e[2] + Window >= t
            BY <1>0 DEF Holding
          <6>2. e[2] > now - Longest
            BY <1>0, <2>1, <3>1, <6>1, GateNumbers
          <6>. QED  BY <6>1, <6>2 DEF Remembered, Since
        <5>. QED  BY <5>1 DEF Holding
      <4>2. /\ IsFiniteSet({e \in events' : e[2] + Window >= t})
            /\ Cardinality({e \in events' : e[2] + Window >= t}) \in Nat
        BY <1>3, FS_Subset, FS_CardinalityType DEF GateTypeOK, Sends
      <4>3. /\ Cardinality(Holding(t)) \in Nat
            /\ Cardinality(Holding(t))
                  <= Cardinality({e \in events' : e[2] + Window >= t})
        BY <4>1, <4>2, FS_Subset, FS_CardinalityType
      <4>4. Cardinality({e \in events' : e[2] + Window >= t}) >= PerWindow
        BY <3>3, <4>2, <4>3, GateNumbers
      <4>. QED  BY <4>4 DEF RefusedFor, Holding
    <3>. QED  BY <3>1, <3>2, <3>3 DEF RefusedFor
  <2>. QED  BY <2>1 DEF RefusalsHold
<1>. QED  BY <1>3, <1>4, <1>5, <1>6, <1>7 DEF GateInvariant

LEMMA GateKept == GateInvariant /\ [GateNext]_gateVars => GateInvariant'
<1>. SUFFICES ASSUME GateInvariant, [GateNext]_gateVars PROVE GateInvariant'
  OBVIOUS
<1>0. /\ GateTypeOK /\ now \in Nat /\ blockedUntil \in Nat
      /\ refusedUntil \in [Senders -> Int]
      /\ Remembered \subseteq events
  BY DEF GateInvariant, GateTypeOK, Remembered, Since
<1>1. CASE UNCHANGED gateVars
  BY <1>0, <1>1, NothingGranted DEF gateVars
<1>2. CASE TimePasses
  BY <1>0, <1>2, NothingGranted DEF TimePasses, Since
<1>3. CASE Defer
  <2>1. PICK wait \in Cooldowns :
           blockedUntil' = Latest({blockedUntil, now + wait})
    BY <1>3 DEF Defer
  <2>2. wait \in Nat
    BY GateConstants
  <2>3. /\ Latest({blockedUntil, now + wait}) \in {blockedUntil, now + wait}
        /\ Latest({blockedUntil, now + wait}) >= blockedUntil
    <3>1. blockedUntil \in Int /\ now + wait \in Int
      BY <1>0, <2>2
    <3>. DEFINE later == now + wait
    <3>2. later \in Int
      BY <3>1
    <3>. HIDE DEF later
    <3>3. /\ Latest({blockedUntil, later}) \in {blockedUntil, later}
          /\ Latest({blockedUntil, later}) >= blockedUntil
      BY <3>1, <3>2, LatestOfTwo
    <3>. QED  BY <3>3 DEF later
  <2>4. blockedUntil' \in Nat /\ blockedUntil' >= blockedUntil
    BY <1>0, <2>1, <2>2, <2>3
  <2>5. UNCHANGED <<now, events, refusedUntil, grants>>
    BY <1>3 DEF Defer
  <2>. QED  BY <1>0, <2>4, <2>5, NothingGranted
<1>4. ASSUME NEW s \in Senders, NEW c \in Chats, Acquire(s, c)
      PROVE  GateInvariant'
  <2>1. /\ refusedUntil' = [refusedUntil EXCEPT ![s] =
               IF GlobalRetryAt > now THEN GlobalRetryAt ELSE refusedUntil[s]]
        /\ UNCHANGED <<now, blockedUntil>>
    BY <1>4 DEF Acquire
  <2>2. CASE RetryAt(c) <= now
    <3>1. ~(GlobalRetryAt > now)
      BY <1>0, <2>2, GlobalRetry, ChatRetry
    <3>2. UNCHANGED refusedUntil
      BY <1>0, <2>1, <3>1
    <3>. QED  BY <1>4, <2>1, <2>2, <3>2, Granted DEF Acquire
  <2>3. CASE ~(RetryAt(c) <= now)
    <3>1. events' = Remembered /\ UNCHANGED grants
      BY <1>4, <2>3 DEF Acquire
    <3>2. refusedUntil' \in [Senders -> Int]
      BY <1>0, <2>1, GlobalRetry
    <3>3. ASSUME NEW r \in Senders
          PROVE  \/ refusedUntil'[r] = refusedUntil[r]
                 \/ refusedUntil'[r] > now /\ RefusedFor(refusedUntil'[r])
      BY <1>0, <2>1, GlobalRetry
    <3>. QED  BY <1>0, <2>1, <3>1, <3>2, <3>3, NothingGranted
  <2>. QED  BY <2>2, <2>3
<1>. QED  BY <1>1, <1>2, <1>3, <1>4 DEF GateNext

(* What a worker refuses from its cache, the gate would refuse as well.    *)
LEMMA CacheIsRight ==
    ASSUME GateInvariant, NEW s \in Senders, refusedUntil[s] > now
    PROVE  GlobalRetryAt > now
<1>1. /\ GateTypeOK /\ now \in Nat /\ blockedUntil \in Nat
      /\ refusedUntil[s] \in Int /\ RefusedFor(refusedUntil[s])
      /\ \A e \in events : e[2] \in Nat
  BY DEF GateInvariant, GateTypeOK, RefusalsHold, Sends
<1>2. CASE blockedUntil >= refusedUntil[s]
  BY <1>1, <1>2, GlobalRetry
<1>3. CASE Cardinality(Holding(refusedUntil[s])) >= PerWindow
  <2>1. Holding(refusedUntil[s]) \in SUBSET Recent
    BY <1>1, GateNumbers DEF Holding, Recent
  <2>2. IsFiniteSet(Recent) /\ Cardinality(Recent) \in Nat
    BY <1>1, RecentIsSince DEF Sends
  <2>3. /\ Cardinality(Holding(refusedUntil[s])) \in Nat
        /\ Cardinality(Holding(refusedUntil[s])) <= Cardinality(Recent)
    BY <2>1, <2>2, FS_Subset, FS_CardinalityType
  <2>. QED  BY <1>1, <1>3, <2>2, <2>3, GlobalRetry, GateNumbers
<1>. QED  BY <1>1, <1>2, <1>3 DEF RefusedFor

(* For any number of senders, chats and grants, and at any time: in no     *)
(* window are more sends granted than the limit, two to one chat keep its  *)
(* interval, and the refusals that a worker caches are the gate's          *)
(* (broadcast-rate-store.ts:25).                                           *)
THEOREM NoticesKeepTheRate == GateSpec => []NeverTooFast
<1>1. ASSUME GateInvariant PROVE NeverTooFast
  <2>1. ASSUME NEW g \in grants
        PROVE  /\ Cardinality({h \in grants : /\ h[2] > g[2] - Window
                                              /\ h[2] <= g[2]}) <= PerWindow
               /\ \A h \in grants : g[1] = h[1] /\ g[2] < h[2]
                                    => h[2] - g[2] >= Interval[g[1]]
    <3>1. Before(grants, g[2]) = {h \in grants : /\ h[2] > g[2] - Window
                                                 /\ h[2] <= g[2]}
      BY DEF Before
    <3>2. Cardinality(Before(grants, g[2])) <= PerWindow
      BY <1>1 DEF GateInvariant, Limited
    <3>. QED  BY <1>1, <3>1, <3>2 DEF GateInvariant, Spaced
  <2>2. \A s \in Senders : refusedUntil[s] > now => GlobalRetryAt > now
    BY <1>1, CacheIsRight
  <2>. QED  BY <2>1, <2>2 DEF NeverTooFast
<1>. QED  BY <1>1, GateBegins, GateKept, PTL DEF GateSpec

-----------------------------------------------------------------------------
(* Notices to all customers.                                               *)

(* Of some customers one comes first and one last.                         *)
LEMMA FirstAndLast ==
    ASSUME NEW S \in SUBSET Customers, S # {}
    PROVE  /\ \E x \in S : \A y \in S : x <= y
           /\ \E x \in S : \A y \in S : y <= x
<1>1. S \in SUBSET Int
  BY BroadcastConstants
<1>2. IsFiniteSet(S)
  BY BroadcastConstants, FS_Subset
<1>. QED  BY <1>1, <1>2, HasSmallest, HasGreatest

(* A page holds the first of the customers after the cursor, and leaves    *)
(* some out only if it holds one.                                          *)
LEMMA PageIsFirst ==
    ASSUME active \subseteq Customers, limit \in Nat \ {0}, NEW c \in Nat
    PROVE  /\ \A u \in After(c) \ Page(c) : \A v \in Page(c) : v < u
           /\ Page(c) # After(c) => Page(c) # {}
<1>. DEFINE Upto(u) == {v \in After(c) : v <= u}
<1>1. After(c) \subseteq Customers
  BY DEF After
<1>2. \A u \in After(c) : u \in Nat
  BY <1>1, BroadcastConstants
<1>3. \A u \in After(c) : IsFiniteSet(Upto(u)) /\ Cardinality(Upto(u)) \in Nat
  BY <1>1, BroadcastConstants, FS_Subset, FS_CardinalityType
<1>4. Page(c) = {u \in After(c) : Cardinality(Upto(u)) <= limit}
  BY DEF Page
<1>5. ASSUME NEW u \in After(c) \ Page(c), NEW v \in Page(c) PROVE v < u
  <2>1. v \in After(c) /\ Cardinality(Upto(v)) <= limit
        /\ ~(Cardinality(Upto(u)) <= limit)
    BY <1>4, <1>5
  <2>2. ASSUME u <= v PROVE FALSE
    <3>1. Upto(u) \in SUBSET Upto(v)
      BY <1>2, <2>1, <2>2
    <3>2. Cardinality(Upto(u)) <= Cardinality(Upto(v))
      BY <1>3, <2>1, <3>1, FS_Subset
    <3>. HIDE DEF Upto
    <3>. QED  BY <1>3, <2>1, <3>2
  <2>. QED  BY <1>2, <2>1, <2>2
<1>6. ASSUME After(c) # {} PROVE Page(c) # {}
  <2>1. PICK x \in After(c) : \A y \in After(c) : x <= y
    BY <1>1, <1>6, FirstAndLast
  <2>2. Upto(x) = {x}
    BY <1>2, <2>1
  <2>3. Cardinality(Upto(x)) = 1
    BY <2>2, FS_Singleton
  <2>. QED  BY <1>4, <2>3
<1>. HIDE DEF Upto
<1>. QED  BY <1>4, <1>5, <1>6
PageSteps == {"todo", "found", "claimed", "delivered", "refused", "limited",
              "done"}

JobOf(j, p, c, l, m, a, f, b, n) ==
    /\ p \in SUBSET Customers /\ c \in Customers \cup {0}
    /\ {m, f, b, n} \subseteq BOOLEAN /\ a \in [p -> PageSteps]
    /\ j = [page |-> p, cursor |-> c, left |-> l, more |-> m, at |-> a,
            failed |-> f, broke |-> b, counted |-> n]

IsJob(j) == \E p, c, l, m, a, f, b, n : JobOf(j, p, c, l, m, a, f, b, n)

NoticeTypes ==
    /\ limit \in Nat \ {0} /\ active \subseteq Customers
    /\ record \in [Customers -> RecordStates]
    /\ reached \in [Customers -> Nat] /\ unsaved \in [Customers -> Nat]
    /\ job = [w \in Workers |-> job[w]]
    /\ \A w \in Workers : job[w] = Resting \/ IsJob(job[w])

Turned(j, u, step) == [j EXCEPT !.at[u] = step]
Dropped(j, u) == [j EXCEPT !.at[u] = "done", !.failed = TRUE]
Broken(j, u) == [j EXCEPT !.at[u] = "done", !.failed = TRUE,
                          !.broke = @ \/ ~j.failed]

LEMMA JobFields ==
    ASSUME NEW j, IsJob(j)
    PROVE  /\ j # Resting /\ j.page \in SUBSET Customers
           /\ j.cursor \in Customers \cup {0} /\ j.at \in [j.page -> PageSteps]
           /\ {j.more, j.failed, j.broke, j.counted} \subseteq BOOLEAN
<1>1. PICK p, c, l, m, a, f, b, n : JobOf(j, p, c, l, m, a, f, b, n)
  BY DEF IsJob
<1>2. j # Resting
  BY <1>1 DEF JobOf, Resting
<1>. QED  BY <1>1, <1>2 DEF JobOf

(* A page on which a worker turns to another step for customer u.          *)
LEMMA JobTurns ==
    ASSUME NEW j, IsJob(j), NEW u \in j.page, NEW step \in PageSteps,
           NEW k, k = Turned(j, u, step)
    PROVE  /\ IsJob(k) /\ k.page = j.page /\ k.cursor = j.cursor
           /\ k.more = j.more /\ k.failed = j.failed
           /\ k.counted = j.counted
           /\ k.at[u] = step /\ \A v \in j.page \ {u} : k.at[v] = j.at[v]
<1>1. PICK p, c, l, m, a, f, b, n : JobOf(j, p, c, l, m, a, f, b, n)
  BY DEF IsJob
<1>2. k = [page |-> p, cursor |-> c, left |-> l, more |-> m,
           at |-> [a EXCEPT ![u] = step], failed |-> f, broke |-> b,
           counted |-> n]
  BY <1>1 DEF JobOf, Turned
<1>3. [a EXCEPT ![u] = step] \in [p -> PageSteps]
  BY <1>1 DEF JobOf
<1>4. IsJob(k)
  <2>1. JobOf(k, p, c, l, m, [a EXCEPT ![u] = step], f, b, n)
    BY <1>1, <1>2, <1>3 DEF JobOf
  <2>. QED  BY <2>1 DEF IsJob
<1>. QED  BY <1>1, <1>2, <1>4 DEF JobOf

(* ... and one that must be queued again.                                  *)
LEMMA JobFails ==
    ASSUME NEW j, IsJob(j), NEW u \in j.page,
           NEW k, k = Dropped(j, u) \/ k = Broken(j, u)
    PROVE  /\ IsJob(k) /\ k.page = j.page /\ k.cursor = j.cursor
           /\ k.more = j.more /\ k.failed
           /\ k.counted = j.counted
           /\ k.at[u] = "done" /\ \A v \in j.page \ {u} : k.at[v] = j.at[v]
<1>1. PICK p, c, l, m, a, f, b, n : JobOf(j, p, c, l, m, a, f, b, n)
  BY DEF IsJob
<1>2. PICK d \in BOOLEAN :
        k = [page |-> p, cursor |-> c, left |-> l, more |-> m,
             at |-> [a EXCEPT ![u] = "done"], failed |-> TRUE, broke |-> d,
             counted |-> n]
  BY <1>1 DEF JobOf, Dropped, Broken
<1>3. [a EXCEPT ![u] = "done"] \in [p -> PageSteps]
  BY <1>1 DEF JobOf, PageSteps
<1>4. IsJob(k)
  <2>1. JobOf(k, p, c, l, m, [a EXCEPT ![u] = "done"], TRUE, d, n)
    BY <1>1, <1>2, <1>3 DEF JobOf
  <2>. QED  BY <2>1 DEF IsJob
<1>. QED  BY <1>1, <1>2, <1>4 DEF JobOf

LeftOut(w, u) == Fails(w, u) \/ Breaks(w, u)

(* What a step for customer u does to the page of its worker.              *)
LEMMA TurnsPage ==
    ASSUME NoticeTypes, NEW w \in Workers, Works(w), NEW u \in job[w].page,
           \/ \E step \in PageSteps : Turns(w, u, step)
           \/ LeftOut(w, u)
    PROVE  /\ job' = [v \in Workers |-> job'[v]]
           /\ \A v \in Workers \ {w} : job'[v] = job[v]
           /\ IsJob(job'[w]) /\ job'[w].page = job[w].page
           /\ job'[w].cursor = job[w].cursor /\ job'[w].more = job[w].more
           /\ job'[w].counted = job[w].counted
           /\ \A v \in job[w].page \ {u} : job'[w].at[v] = job[w].at[v]
           /\ \A step \in PageSteps : Turns(w, u, step) =>
                 job'[w].at[u] = step /\ job'[w].failed = job[w].failed
           /\ LeftOut(w, u) => job'[w].at[u] = "done" /\ job'[w].failed
<1>1. IsJob(job[w]) /\ job = [v \in Workers |-> job[v]]
  BY DEF NoticeTypes, Works
<1>2. ASSUME NEW step \in PageSteps, Turns(w, u, step)
      PROVE  /\ job' = [v \in Workers |-> job'[v]]
             /\ \A v \in Workers \ {w} : job'[v] = job[v]
             /\ job'[w] = Turned(job[w], u, step)
  BY <1>1, <1>2, Zenon DEF Turns, Turned
<1>3. ASSUME LeftOut(w, u)
      PROVE  /\ job' = [v \in Workers |-> job'[v]]
             /\ \A v \in Workers \ {w} : job'[v] = job[v]
             /\ job'[w] = Dropped(job[w], u) \/ job'[w] = Broken(job[w], u)
  <2>1. CASE Fails(w, u)
    BY <1>1, <2>1, Zenon DEF Fails, Dropped
  <2>2. CASE Breaks(w, u)
    BY <1>1, <2>2, Zenon DEF Breaks, Broken
  <2>. QED  BY <1>3, <2>1, <2>2 DEF LeftOut
<1>4. \A step \in PageSteps : Turns(w, u, step) =>
         job'[w].at[u] = step /\ job'[w].failed = job[w].failed
  BY <1>1, <1>2, JobTurns
<1>5. LeftOut(w, u) => job'[w].at[u] = "done" /\ job'[w].failed
  <2>. SUFFICES ASSUME LeftOut(w, u)
                PROVE  job'[w].at[u] = "done" /\ job'[w].failed
    OBVIOUS
  <2>1. job'[w] = Dropped(job[w], u) \/ job'[w] = Broken(job[w], u)
    BY <1>3
  <2>. QED  BY <1>1, <2>1, JobFails
<1>6. CASE \E step \in PageSteps : Turns(w, u, step)
  BY <1>1, <1>2, <1>4, <1>5, <1>6, JobTurns
<1>7. CASE LeftOut(w, u)
  BY <1>1, <1>3, <1>4, <1>5, <1>7, JobFails
<1>. QED  BY <1>6, <1>7
Busy == {"claimed", "delivered", "refused", "limited"}
StepOf(w, u) == IF Works(w) /\ u \in job[w].page THEN job[w].at[u] ELSE "away"
Answered(w, u) == StepOf(w, u) \in {"delivered", "refused"}
IsSettled(u) == record[u] \in {"SENT", "FAILED"}

(* A worker who is at a customer is alone, holds the claim, and before the *)
(* answer to its send every notice is covered by an outcome not stored.    *)
NoticeKept(u) ==
    /\ \A v, w \in Workers :
          StepOf(v, u) \in Busy /\ StepOf(w, u) \in Busy => v = w
    /\ \A w \in Workers : StepOf(w, u) \in Busy => record[u] = "SENDING"
    /\ reached[u] <= 1 + unsaved[u]
    /\ ~IsSettled(u) /\ (\A w \in Workers : ~Answered(w, u)) =>
          reached[u] <= unsaved[u]

(* Whoever was a customer all the time is settled before the cursor of a   *)
(* page, and is on the page or after all of it.                            *)
PageKept(w) == Works(w) =>
    /\ \A u \in steady : u <= job[w].cursor => IsSettled(u)
    /\ \A u \in steady \ job[w].page : u > job[w].cursor =>
          job[w].more /\ \A v \in job[w].page : v < u
    /\ job[w].more => job[w].page # {}
    /\ ~job[w].failed =>
          \A u \in job[w].page : job[w].at[u] = "done" => IsSettled(u)
    /\ job[w].counted => /\ ~job[w].failed
                         /\ \A u \in job[w].page : job[w].at[u] = "done"

Enough(queue) ==
    /\ queue \in [PageTasks -> Nat]
    /\ \A t \in PageTasks : queue[t] > 0 =>
          \A u \in steady : u <= t[1] => IsSettled(u)

TasksKept ==
    /\ Enough(tasks)
    /\ finished => \A u \in steady : IsSettled(u)
    /\ steady \subseteq active

NoticeInvariant ==
    /\ NoticeTypes /\ TasksKept
    /\ \A w \in Workers : PageKept(w)
    /\ \A u \in Customers : NoticeKept(u)

LEMMA NoticesBegin == BroadcastInit => NoticeInvariant
<1>. SUFFICES ASSUME BroadcastInit PROVE NoticeInvariant
  OBVIOUS
<1>1. NoticeTypes
  BY BroadcastConstants DEF BroadcastInit, NoticeTypes, RecordStates
<1>2. \A u \in steady : ~(u <= 0)
  BY BroadcastConstants DEF BroadcastInit
<1>3. TasksKept
  <2>1. /\ tasks \in [PageTasks -> Nat]
        /\ \A t \in PageTasks : tasks[t] > 0 => t[1] = 0
    BY DEF BroadcastInit
  <2>2. Enough(tasks)
    BY <1>2, <2>1 DEF Enough
  <2>. QED  BY <2>2 DEF BroadcastInit, TasksKept
<1>4. \A w \in Workers : ~Works(w)
  BY DEF BroadcastInit, Works
<1>5. \A u \in Customers : NoticeKept(u)
  BY <1>4 DEF BroadcastInit, NoticeKept, StepOf, Busy, Answered
<1>. QED  BY <1>1, <1>3, <1>4, <1>5 DEF NoticeInvariant, PageKept

LEMMA AtWorkIs ==
    ASSUME NEW w, NEW u PROVE u \in AtWork(w) <=> StepOf(w, u) \in Busy
BY DEF AtWork, StepOf, Busy

(* A page is not disturbed by what is done elsewhere.                      *)
LEMMA PageUndisturbed ==
    ASSUME NoticeTypes, steady \subseteq active, NEW w \in Workers,
           PageKept(w), job'[w] = job[w], steady' \subseteq steady,
           \A u \in Customers : IsSettled(u) => IsSettled(u)'
    PROVE  PageKept(w)'
<1>. SUFFICES ASSUME Works(w)' PROVE PageKept(w)'
  BY DEF PageKept
<1>1. Works(w)
  BY DEF Works
<1>2. IsJob(job[w]) /\ steady \subseteq Customers
  BY <1>1 DEF NoticeTypes, Works
<1>3. job[w].page \subseteq Customers
  BY <1>2, JobFields
<1>. QED  BY <1>1, <1>2, <1>3 DEF PageKept

(* A notice is not disturbed by what is done for others.                   *)
LEMMA NoticeUndisturbed ==
    ASSUME NEW u \in Customers, NoticeKept(u), record'[u] = record[u],
           reached'[u] = reached[u], unsaved'[u] = unsaved[u],
           \A w \in Workers : \/ StepOf(w, u)' = StepOf(w, u)
                              \/ /\ StepOf(w, u)' \notin Busy
                                 /\ StepOf(w, u) \notin Busy
    PROVE  NoticeKept(u)'
<1>1. \A w \in Workers : /\ StepOf(w, u)' \in Busy <=> StepOf(w, u) \in Busy
                         /\ Answered(w, u)' <=> Answered(w, u)
  BY DEF Answered, Busy
<1>2. IsSettled(u)' <=> IsSettled(u)
  BY DEF IsSettled
<1>. QED  BY <1>1, <1>2 DEF NoticeKept

TasksStay == UNCHANGED <<finished, tasks, steady, active>>

LEMMA TasksUndisturbed ==
    ASSUME NoticeTypes, TasksKept, TasksStay,
           \A u \in Customers : IsSettled(u) => IsSettled(u)'
    PROVE  TasksKept'
BY DEF NoticeTypes, TasksKept, TasksStay, Enough
(* What a worker may do about a customer on its page: the step it was at,  *)
(* the next one, and the record and the count of notices after it.         *)
Moves(u, s, t) ==
    \/ s = "todo" /\ IsSettled(u) /\ t = "done"
       /\ UNCHANGED <<record, reached>>
    \/ s = "todo" /\ record[u] = "NONE" /\ Record(u, "SENDING")
       /\ t = "claimed" /\ UNCHANGED reached
    \/ s = "todo" /\ record[u] = "NONE" /\ Record(u, "PENDING")
       /\ t = "found" /\ UNCHANGED reached
    \/ s = "todo" /\ t = "found" /\ UNCHANGED <<record, reached>>
    \/ s = "found" /\ record[u] \in {"PENDING", "AGED"}
       /\ Record(u, "SENDING") /\ t = "claimed" /\ UNCHANGED reached
    \/ s = "claimed" /\ t \in {"delivered", "refused"} /\ UNCHANGED record
       /\ reached' = [reached EXCEPT ![u] = @ + 1]
    \/ s = "claimed" /\ t \in {"refused", "limited"}
       /\ UNCHANGED <<record, reached>>
    \/ s = "delivered" /\ t = "done" /\ Record(u, "SENT") /\ UNCHANGED reached
    \/ s = "refused" /\ t = "done" /\ Record(u, "FAILED")
       /\ UNCHANGED reached

(* ... and when the page has to be queued again, or breaks off.            *)
Drops(u, s) ==
    /\ UNCHANGED reached
    /\ \/ s \in {"todo", "found", "limited"} /\ UNCHANGED <<record, unsaved>>
       \/ s = "todo" /\ record[u] = "NONE" /\ UNCHANGED unsaved
          /\ \E state \in {"SENDING", "PENDING"} : Record(u, state)
       \/ s = "found" /\ record[u] \in {"PENDING", "AGED"}
          /\ Record(u, "SENDING") /\ UNCHANGED unsaved
       \/ s = "limited" /\ Record(u, "PENDING") /\ UNCHANGED unsaved
       \/ s = "delivered" /\ Record(u, "SENT") /\ UNCHANGED unsaved
       \/ s = "refused" /\ Record(u, "FAILED") /\ UNCHANGED unsaved
       \/ s \in {"delivered", "refused"} /\ UNCHANGED record
          /\ unsaved' = [unsaved EXCEPT ![u] = @ + 1]

LEMMA WorkMoves ==
    ASSUME NoticeTypes, NEW w \in Workers, NEW u \in Customers,
           WorkOn(w, u) \/ StoreFails(w, u)
    PROVE  /\ Works(w) /\ u \in job[w].page
           /\ \/ /\ UNCHANGED unsaved
                 /\ \E t \in PageSteps : /\ Moves(u, job[w].at[u], t)
                                         /\ Turns(w, u, t)
              \/ Drops(u, job[w].at[u]) /\ LeftOut(w, u)
           /\ TasksStay /\ UNCHANGED limit
<1>1. CASE FindRecord(w, u)
  <2>1. /\ Works(w) /\ u \in job[w].page /\ job[w].at[u] = "todo"
        /\ UNCHANGED reached /\ TasksStay /\ UNCHANGED <<limit, unsaved>>
    BY <1>1 DEF FindRecord, RecordStays, NoticeStays, CountsStay, TasksStay
  <2>2. \/ IsSettled(u) /\ Turns(w, u, "done") /\ UNCHANGED record
        \/ record[u] = "NONE" /\ Record(u, "SENDING") /\ Turns(w, u, "claimed")
        \/ record[u] = "NONE" /\ Record(u, "PENDING") /\ Turns(w, u, "found")
        \/ Turns(w, u, "found") /\ UNCHANGED record
    BY <1>1 DEF FindRecord, NewRecord, IsSettled
  <2>. QED  BY <2>1, <2>2 DEF Moves, PageSteps
<1>2. CASE ClaimRecord(w, u)
  <2>1. /\ Works(w) /\ u \in job[w].page /\ job[w].at[u] = "found"
        /\ UNCHANGED reached /\ TasksStay /\ UNCHANGED <<limit, unsaved>>
    BY <1>2 DEF ClaimRecord, RecordStays, NoticeStays, CountsStay, TasksStay
  <2>2. \/ /\ record[u] \in {"PENDING", "AGED"}
           /\ Record(u, "SENDING") /\ Turns(w, u, "claimed")
        \/ UNCHANGED record /\ Fails(w, u)
    BY <1>2 DEF ClaimRecord, NoticeClaimable
  <2>. QED  BY <2>1, <2>2 DEF Moves, Drops, PageSteps, LeftOut
<1>3. CASE SendNotice(w, u)
  <2>1. /\ Works(w) /\ u \in job[w].page /\ job[w].at[u] = "claimed"
        /\ UNCHANGED record /\ TasksStay /\ UNCHANGED <<limit, unsaved>>
    BY <1>3 DEF SendNotice, RecordStays, NoticeStays, TasksStay
  <2>2. \/ /\ reached' = [reached EXCEPT ![u] = @ + 1]
           /\ \E t \in {"delivered", "refused"} : Turns(w, u, t)
        \/ /\ UNCHANGED reached
           /\ \E t \in {"refused", "limited"} : Turns(w, u, t)
    BY <1>3 DEF SendNotice
  <2>. QED  BY <2>1, <2>2 DEF Moves, PageSteps
<1>4. CASE SettleRecord(w, u)
  <2>1. /\ Works(w) /\ u \in job[w].page
        /\ UNCHANGED reached /\ TasksStay /\ UNCHANGED <<limit, unsaved>>
    BY <1>4 DEF SettleRecord, RecordStays, NoticeStays, CountsStay, TasksStay
  <2>2. \/ /\ job[w].at[u] = "delivered"
           /\ Record(u, "SENT") /\ Turns(w, u, "done")
        \/ /\ job[w].at[u] = "refused"
           /\ Record(u, "FAILED") /\ Turns(w, u, "done")
        \/ /\ job[w].at[u] = "limited"
           /\ Record(u, "PENDING") /\ Fails(w, u)
    BY <1>4 DEF SettleRecord, AfterRefusal
  <2>. QED  BY <2>1, <2>2 DEF Moves, Drops, PageSteps, LeftOut
<1>5. CASE StoreFails(w, u)
  <2>1. /\ Works(w) /\ u \in job[w].page /\ Breaks(w, u)
        /\ UNCHANGED reached /\ TasksStay /\ UNCHANGED limit
    BY <1>5 DEF StoreFails, RecordStays, NoticeStays, TasksStay
  <2>2. Drops(u, job[w].at[u])
    BY <1>5
    DEF StoreFails, Drops, NoticeClaimable, AfterRefusal, NewRecord
  <2>. QED  BY <2>1, <2>2 DEF LeftOut
<1>. QED  BY <1>1, <1>2, <1>3, <1>4, <1>5 DEF WorkOn

LEMMA WorkKept ==
    ASSUME NoticeInvariant, NEW w \in Workers, NEW u \in Customers,
           WorkOn(w, u) \/ StoreFails(w, u)
    PROVE  NoticeInvariant'
<1>. DEFINE s == job[w].at[u]
            t == job'[w].at[u]
<1>1. /\ Works(w) /\ u \in job[w].page /\ TasksStay
      /\ UNCHANGED limit /\ NoticeTypes /\ IsJob(job[w])
  BY WorkMoves DEF NoticeInvariant, NoticeTypes, Works
<1>2. /\ job' = [v \in Workers |-> job'[v]]
      /\ \A v \in Workers \ {w} : job'[v] = job[v]
      /\ IsJob(job'[w]) /\ job'[w].page = job[w].page
      /\ job'[w].cursor = job[w].cursor /\ job'[w].more = job[w].more
      /\ job'[w].counted = job[w].counted
      /\ \A x \in job[w].page \ {u} : job'[w].at[x] = job[w].at[x]
  <2>1. (\E x \in PageSteps : Turns(w, u, x)) \/ LeftOut(w, u)
    BY WorkMoves, <1>1
  <2>. QED  BY <1>1, <2>1, TurnsPage
<1>3. \/ /\ Moves(u, s, t) /\ UNCHANGED unsaved
         /\ job'[w].failed = job[w].failed
      \/ Drops(u, s) /\ t = "done" /\ job'[w].failed
  <2>1. CASE /\ UNCHANGED unsaved
             /\ \E x \in PageSteps : Moves(u, s, x) /\ Turns(w, u, x)
    BY <1>1, <2>1, TurnsPage
  <2>2. CASE Drops(u, s) /\ LeftOut(w, u)
    BY <1>1, <2>2, TurnsPage
  <2>. QED  BY <1>1, <2>1, <2>2, WorkMoves
<1>4. Works(w)' /\ StepOf(w, u) = s /\ StepOf(w, u)' = t
  BY <1>1, <1>2, JobFields DEF Works, StepOf
<1>5. \A v \in Workers, x \in Customers :
        v # w \/ x # u => StepOf(v, x)' = StepOf(v, x)
  BY <1>1, <1>2, <1>4 DEF StepOf, Works
<1>. HIDE DEF s, t
<1>6. /\ \A x \in Customers \ {u} : /\ record'[x] = record[x]
                                    /\ reached'[x] = reached[x]
                                    /\ unsaved'[x] = unsaved[x]
      /\ record' \in [Customers -> RecordStates]
      /\ reached' \in [Customers -> Nat] /\ unsaved' \in [Customers -> Nat]
  <2>1. CASE Moves(u, s, t) /\ UNCHANGED unsaved
    BY <1>1, <2>1 DEF NoticeTypes, Moves, Record, RecordStates
  <2>2. CASE Drops(u, s)
    BY <1>1, <2>2 DEF NoticeTypes, Drops, Record, RecordStates
  <2>. QED  BY <1>3, <2>1, <2>2
<1>7. NoticeKept(u)
  BY DEF NoticeInvariant
<1>8. \A x \in Customers : IsSettled(x) => IsSettled(x)'
  <2>1. IsSettled(u) => IsSettled(u)'
    <3>1. s \in Busy => record[u] = "SENDING"
      BY <1>4, <1>7 DEF NoticeKept
    <3>. QED
      BY <1>1, <1>3, <3>1
      DEF Moves, Drops, Record, IsSettled, Busy, NoticeTypes
  <2>. QED  BY <1>6, <2>1 DEF IsSettled
<1>9. NoticeTypes'
  BY <1>1, <1>2, <1>6 DEF NoticeTypes, TasksStay
<1>10. TasksKept'
  BY <1>1, <1>8, TasksUndisturbed DEF NoticeInvariant
<1>11. ASSUME NEW v \in Workers \ {w} PROVE PageKept(v)'
  BY <1>1, <1>2, <1>8, PageUndisturbed
  DEF NoticeInvariant, TasksKept, TasksStay
<1>12. PageKept(w)'
  <2>1. job[w].page \subseteq Customers /\ steady \subseteq Customers
    BY <1>1, JobFields DEF NoticeInvariant, TasksKept, NoticeTypes
  <2>2. ~job[w].counted
    <3>1. s # "done"
      BY <1>3 DEF Moves, Drops
    <3>. QED  BY <1>1, <3>1 DEF NoticeInvariant, PageKept, s
  <2>3. ~job'[w].failed =>
          \A x \in job'[w].page : job'[w].at[x] = "done" => IsSettled(x)'
    <3>1. ~job'[w].failed /\ t = "done" => IsSettled(u)'
      BY <1>1, <1>3 DEF Moves, Record, IsSettled, NoticeTypes
    <3>2. ~job'[w].failed => ~job[w].failed
      BY <1>3
    <3>. QED
      BY <1>1, <1>2, <1>8, <2>1, <3>1, <3>2
      DEF NoticeInvariant, PageKept, t
  <2>. QED
    BY <1>1, <1>2, <1>8, <2>1, <2>2, <2>3
    DEF NoticeInvariant, PageKept, TasksStay
<1>13. ASSUME NEW x \in Customers \ {u} PROVE NoticeKept(x)'
  BY <1>1, <1>5, <1>6, NoticeUndisturbed DEF NoticeInvariant
<1>14. NoticeKept(u)'
  <2>1. /\ reached[u] \in Nat /\ unsaved[u] \in Nat
        /\ record[u] \in RecordStates
    BY <1>1 DEF NoticeTypes
  <2>2. \A v \in Workers \ {w} : StepOf(v, u)' = StepOf(v, u)
    BY <1>5
  <2>3. CASE s \in Busy
    <3>1. /\ record[u] = "SENDING"
          /\ \A v \in Workers \ {w} : StepOf(v, u) \notin Busy
      BY <1>4, <1>7, <2>3 DEF NoticeKept
    <3>2. s \in {"claimed", "limited"} => reached[u] <= unsaved[u]
      BY <1>4, <1>7, <3>1 DEF NoticeKept, IsSettled, Answered, Busy
    <3>3. \A v \in Workers \ {w} : StepOf(v, u)' \notin Busy
      BY <2>2, <3>1
    <3>4. reached[u] <= 1 + unsaved[u]
      BY <1>7 DEF NoticeKept
    <3>5. CASE Moves(u, s, t) /\ UNCHANGED unsaved
      <4>1. t \in Busy => record'[u] = "SENDING"
        BY <1>1, <2>3, <3>1, <3>5 DEF Moves, Busy, Record
      <4>2. reached'[u] <= 1 + unsaved'[u]
        BY <1>1, <2>1, <2>3, <3>2, <3>4, <3>5 DEF Moves, Busy, NoticeTypes
      <4>3. ~IsSettled(u)' /\ ~Answered(w, u)' => reached'[u] <= unsaved'[u]
        BY <1>1, <1>4, <2>1, <2>3, <3>2, <3>5
        DEF Moves, NoticeTypes, Record, IsSettled, Answered, Busy
      <4>. QED  BY <1>4, <3>3, <4>1, <4>2, <4>3 DEF NoticeKept
    <3>6. CASE Drops(u, s) /\ t = "done"
      <4>1. \A v \in Workers : StepOf(v, u)' \notin Busy
        BY <1>4, <3>3, <3>6 DEF Busy
      <4>2. /\ reached'[u] = reached[u]
            /\ \/ unsaved'[u] = unsaved[u] + 1
               \/ unsaved'[u] = unsaved[u] /\ s = "limited"
               \/ unsaved'[u] = unsaved[u] /\ IsSettled(u)'
        BY <1>1, <2>3, <3>6
        DEF Drops, Busy, Record, IsSettled, NoticeTypes
      <4>3. /\ reached'[u] <= 1 + unsaved'[u]
            /\ ~IsSettled(u)' => reached'[u] <= unsaved'[u]
        BY <2>1, <3>2, <3>4, <4>2
      <4>. QED  BY <4>1, <4>3 DEF NoticeKept
    <3>. QED  BY <1>3, <3>5, <3>6
  <2>4. CASE s \notin Busy /\ t \in Busy
    <3>1. /\ record[u] \in {"NONE", "PENDING", "AGED"} /\ t = "claimed"
          /\ record'[u] = "SENDING" /\ reached'[u] = reached[u]
          /\ unsaved'[u] = unsaved[u]
      BY <1>1, <1>3, <2>4 DEF Moves, Busy, Record, NoticeTypes
    <3>2. \A v \in Workers : StepOf(v, u) \notin Busy
      BY <1>7, <3>1 DEF NoticeKept
    <3>3. reached[u] <= unsaved[u]
      BY <1>7, <3>1, <3>2 DEF NoticeKept, IsSettled, Answered, Busy
    <3>. QED
      BY <1>4, <1>7, <2>1, <2>2, <3>1, <3>2, <3>3
      DEF NoticeKept, Busy
  <2>5. CASE s \notin Busy /\ t \notin Busy
    <3>a. UNCHANGED <<reached, unsaved>>
      BY <1>3, <2>5 DEF Moves, Drops, Busy
    <3>b. \/ UNCHANGED record
          \/ record[u] \in {"NONE", "PENDING", "AGED"}
             /\ \E state \in {"SENDING", "PENDING"} : Record(u, state)
      BY <1>3, <2>5 DEF Moves, Drops, Busy
    <3>1. /\ reached'[u] = reached[u] /\ unsaved'[u] = unsaved[u]
          /\ \/ record'[u] = record[u]
             \/ /\ record[u] \in {"NONE", "PENDING", "AGED"}
                /\ record'[u] \in {"SENDING", "PENDING"}
      BY <1>1, <3>a, <3>b DEF Record, NoticeTypes
    <3>2. \A v \in Workers :
            /\ StepOf(v, u)' \in Busy <=> StepOf(v, u) \in Busy
            /\ Answered(v, u)' <=> Answered(v, u)
      BY <1>4, <2>2, <2>5 DEF Answered, Busy
    <3>. QED
      BY <1>7, <2>1, <3>1, <3>2 DEF NoticeKept, IsSettled, Answered, Busy
  <2>. QED  BY <2>3, <2>4, <2>5
<1>. QED  BY <1>9, <1>10, <1>11, <1>12, <1>13, <1>14 DEF NoticeInvariant
(* A worker that leaves its page was at no customer, or counts as one that *)
(* died there.                                                             *)
LEMMA RestsPage ==
    ASSUME NoticeTypes, NEW w \in Workers, Works(w), Rests(w)
    PROVE  /\ job' = [v \in Workers |-> job'[v]] /\ job'[w] = Resting
           /\ \A v \in Workers \ {w} : job'[v] = job[v]
           /\ \A v \in Workers : job'[v] = Resting \/ IsJob(job'[v])
           /\ \A u \in Customers : StepOf(w, u)' \notin Busy
           /\ \A v \in Workers \ {w}, u \in Customers :
                 StepOf(v, u)' = StepOf(v, u)
<1>1. /\ job' = [v \in Workers |-> job'[v]] /\ job'[w] = Resting
      /\ \A v \in Workers \ {w} : job'[v] = job[v]
  <2>1. job = [v \in Workers |-> job[v]]
    BY DEF NoticeTypes
  <2>. QED  BY <2>1, Zenon DEF Rests
<1>. QED  BY <1>1 DEF NoticeTypes, StepOf, Works, Busy

LEMMA DrainedIsIdle ==
    ASSUME NEW w \in Workers, Drained(w), NEW u \in Customers
    PROVE  StepOf(w, u) \notin Busy
BY DEF Drained, StepOf, Busy

(* What is queued after a customer who is settled with all before him.     *)
LEMMA QueuedIsEnough ==
    ASSUME NEW queue, Enough(queue), NEW c, NEW left,
           \A u \in steady : u <= c => IsSettled(u)
    PROVE  Enough(Queued(queue, c, left))
<1>. DEFINE r == Queued(queue, c, left)
<1>1. PICK k : k = <<c, left>>
  OBVIOUS
<1>a. r = [queue EXCEPT ![k] = @ + 1]
  BY <1>1 DEF Queued
<1>. HIDE DEF r
<1>2. /\ r \in [PageTasks -> Nat]
      /\ \A t \in PageTasks : t # k => r[t] = queue[t]
  <2>1. PICK S : S = PageTasks
    OBVIOUS
  <2>2. queue \in [S -> Nat]
    BY <2>1 DEF Enough
  <2>3. r \in [S -> Nat] /\ \A t \in S : t # k => r[t] = queue[t]
    <3>1. /\ r = [t \in S |-> r[t]]
          /\ \A t \in S : r[t] = IF t = k THEN queue[t] + 1 ELSE queue[t]
      BY <1>a, <2>2, Zenon
    <3>2. \A t \in S : r[t] \in Nat
      BY <2>2, <3>1
    <3>. QED  BY <3>1, <3>2
  <2>. QED  BY <2>1, <2>3
<1>3. ASSUME NEW t \in PageTasks, r[t] > 0, NEW u \in steady, u <= t[1]
      PROVE  IsSettled(u)
  <2>1. CASE t = k
    BY <1>1, <1>3, <2>1
  <2>2. CASE t # k
    <3>1. queue[t] > 0
      BY <1>2, <1>3, <2>2
    <3>. QED  BY <1>3, <3>1 DEF Enough
  <2>. QED  BY <2>1, <2>2
<1>4. Enough(r)
  BY <1>2, <1>3 DEF Enough
<1>. QED  BY <1>4 DEF r

LEMMA TryIsEnough ==
    ASSUME NEW w \in Workers, Works(w), PageKept(w), NEW why, NEW queue,
           Enough(queue), TryAgain(w, why, queue)
    PROVE  Enough(tasks')
<1>1. \A u \in steady : u <= job[w].cursor => IsSettled(u)
  BY DEF PageKept
<1>2. Enough(Queued(queue, job[w].cursor, Spent(job[w].left, why)))
  BY <1>1, QueuedIsEnough
<1>. QED  BY <1>2, Zenon DEF TryAgain

(* A page that is complete settles all up to its last customer, and all    *)
(* customers if there is no other.                                         *)
LEMMA PageIsComplete ==
    ASSUME NoticeInvariant, NEW w \in Workers, Works(w), job[w].counted
    PROVE  /\ job[w].more => Enough(NextPage(w))
           /\ ~job[w].more => \A u \in steady : IsSettled(u)
<1>2. NoticeTypes /\ TasksKept /\ PageKept(w) /\ IsJob(job[w])
  BY DEF NoticeInvariant, NoticeTypes, Works
<1>3. /\ job[w].page \subseteq Customers /\ steady \subseteq Customers
      /\ job[w].cursor \in Nat
  BY <1>2, JobFields, BroadcastConstants DEF TasksKept, NoticeTypes
<1>4. /\ \A u \in job[w].page : job[w].at[u] = "done"
      /\ ~job[w].failed
  BY <1>2 DEF PageKept
<1>5. \A u \in steady : u \in job[w].page \/ u <= job[w].cursor => IsSettled(u)
  BY <1>2, <1>4 DEF PageKept
<1>6. \A u \in steady : u \in Nat
  BY <1>3, BroadcastConstants
<1>7. ASSUME job[w].more PROVE Enough(NextPage(w))
  <2>1. job[w].page # {}
    BY <1>2, <1>7 DEF PageKept
  <2>2. \E x \in job[w].page : \A v \in job[w].page : v <= x
    BY <1>3, <2>1, FirstAndLast
  <2>3. Last(job[w].page) \in job[w].page
    BY <2>2 DEF Last
  <2>4. Last(job[w].page) \in Nat
    BY <1>3, <2>3, BroadcastConstants
  <2>5. ASSUME NEW u \in steady, u <= Last(job[w].page) PROVE IsSettled(u)
    <3>1. CASE u \in job[w].page \/ u <= job[w].cursor
      BY <1>5, <3>1
    <3>2. CASE u \notin job[w].page /\ u > job[w].cursor
      <4>1. Last(job[w].page) < u
        BY <1>2, <2>3, <3>2 DEF PageKept
      <4>. QED  BY <1>6, <2>4, <2>5, <4>1
    <3>. QED  BY <1>3, <1>6, <3>1, <3>2
  <2>. QED  BY <1>2, <2>5, QueuedIsEnough DEF NextPage, TasksKept
<1>8. ASSUME ~job[w].more, NEW u \in steady PROVE IsSettled(u)
  BY <1>2, <1>3, <1>5, <1>6, <1>8 DEF PageKept
<1>. QED  BY <1>7, <1>8

(* A worker leaves its page.                                               *)
LEMMA LeaveKept ==
    ASSUME NoticeInvariant, NEW w \in Workers, Works(w), Rests(w),
           Enough(tasks'), finished' => \A u \in steady : IsSettled(u),
           UNCHANGED <<limit, active, steady, record, reached>>,
           unsaved' \in [Customers -> Nat],
           \A u \in Customers :
              unsaved'[u] = unsaved[u]
                 + IF StepOf(w, u) \in Busy THEN 1 ELSE 0
    PROVE  NoticeInvariant'
<1>1. NoticeTypes /\ TasksKept /\ PageKept(w) /\ IsJob(job[w])
  BY DEF NoticeInvariant, NoticeTypes, Works
<1>2. TasksKept'
  BY <1>1 DEF TasksKept, Enough, IsSettled
<1>3. NoticeTypes'
  BY <1>1, RestsPage DEF NoticeTypes
<1>4. ASSUME NEW v \in Workers PROVE PageKept(v)'
  <2>1. CASE v = w
    BY <1>1, <2>1, RestsPage DEF PageKept, Works
  <2>2. CASE v # w
    <3>1. job'[v] = job[v]
      BY <1>1, <2>2, RestsPage
    <3>. QED
      BY <1>1, <3>1, PageUndisturbed DEF NoticeInvariant, TasksKept, IsSettled
  <2>. QED  BY <2>1, <2>2
<1>5. ASSUME NEW u \in Customers PROVE NoticeKept(u)'
  <2>1. /\ StepOf(w, u)' \notin Busy /\ NoticeKept(u)
        /\ \A v \in Workers \ {w} : StepOf(v, u)' = StepOf(v, u)
    BY <1>1, RestsPage DEF NoticeInvariant
  <2>2. CASE StepOf(w, u) \notin Busy
    BY <1>1, <2>1, <2>2, NoticeUndisturbed DEF NoticeTypes
  <2>3. CASE StepOf(w, u) \in Busy
    <3>1. \A v \in Workers : StepOf(v, u)' \notin Busy
      BY <2>1, <2>3 DEF NoticeKept
    <3>2. unsaved'[u] = unsaved[u] + 1 /\ reached[u] <= 1 + unsaved[u]
      BY <2>1, <2>3 DEF NoticeKept
    <3>3. /\ unsaved[u] \in Nat /\ reached[u] \in Nat /\ reached' = reached
      BY <1>1 DEF NoticeTypes
    <3>4. reached'[u] <= unsaved'[u] /\ reached'[u] <= 1 + unsaved'[u]
      BY <3>2, <3>3
    <3>. QED  BY <3>1, <3>4 DEF NoticeKept
  <2>. QED  BY <2>2, <2>3
<1>. QED  BY <1>2, <1>3, <1>4, <1>5 DEF NoticeInvariant

(* ... while it is at no customer.                                         *)
LEMMA IdleLeaveKept ==
    ASSUME NoticeInvariant, NEW w \in Workers, Works(w), Rests(w),
           Enough(tasks'), finished' => \A u \in steady : IsSettled(u),
           UNCHANGED <<limit, active, steady, record, reached, unsaved>>,
           \A u \in Customers : StepOf(w, u) \notin Busy
    PROVE  NoticeInvariant'
<1>1. unsaved \in [Customers -> Nat]
  BY DEF NoticeInvariant, NoticeTypes
<1>2. \A u \in Customers :
         unsaved'[u] = unsaved[u] + IF StepOf(w, u) \in Busy THEN 1 ELSE 0
  BY <1>1
<1>. QED  BY <1>1, <1>2, LeaveKept

LEMMA PageEndKept ==
    ASSUME NoticeInvariant, NEW w \in Workers,
           RetryPage(w) \/ FailPage(w) \/ EndPage(w) \/ PageFails(w)
    PROVE  NoticeInvariant'
<1>1. /\ Works(w) /\ Rests(w)
      /\ UNCHANGED <<limit, active, steady, record, reached, unsaved>>
  BY DEF RetryPage, FailPage, EndPage, PageFails, Drained, NoticeStays,
     CountsStay
<1>2. NoticeTypes /\ TasksKept /\ PageKept(w)
  BY DEF NoticeInvariant
<1>3. /\ Enough(tasks)
      /\ finished => \A u \in steady : IsSettled(u)
  BY <1>2 DEF TasksKept
<1>4. \A u \in steady : u <= job[w].cursor => IsSettled(u)
  BY <1>1, <1>2 DEF PageKept
<1>5. ASSUME NEW left PROVE Enough(Queued(tasks, job[w].cursor, left))
  BY <1>3, <1>4, QueuedIsEnough
<1>6. /\ job[w].counted /\ job[w].more => Enough(NextPage(w))
      /\ job[w].counted /\ ~job[w].more => \A u \in steady : IsSettled(u)
  BY <1>1, PageIsComplete
<1>7. /\ Enough(tasks')
      /\ finished' => \A u \in steady : IsSettled(u)
  <2>1. CASE RetryPage(w)
    BY <1>3, <1>5, <2>1 DEF RetryPage, QueueAgain
  <2>2. CASE FailPage(w)
    BY <1>1, <1>2, <1>3, <2>2, TryIsEnough DEF FailPage
  <2>3. CASE EndPage(w)
    BY <1>3, <1>6, <2>3 DEF EndPage
  <2>4. CASE PageFails(w)
    <3>1. PICK why : \/ TryAgain(w, why, tasks) /\ UNCHANGED finished
                     \/ /\ job[w].counted /\ job[w].more
                        /\ TryAgain(w, why, NextPage(w)) /\ UNCHANGED finished
                     \/ /\ job[w].counted /\ ~job[w].more
                        /\ TryAgain(w, why, tasks)
                     \/ /\ TryAgain(w, why,
                                    Queued(tasks, job[w].cursor, Fresh))
                        /\ UNCHANGED finished
      BY <2>4 DEF PageFails
    <3>2. \A queue : Enough(queue) /\ TryAgain(w, why, queue) => Enough(tasks')
      BY <1>1, <1>2, TryIsEnough
    <3>. QED  BY <1>3, <1>5, <1>6, <3>1, <3>2
  <2>. QED  BY <2>1, <2>2, <2>3, <2>4
<1>8. ASSUME NEW u \in Customers PROVE StepOf(w, u) \notin Busy
  <2>1. CASE Drained(w)
    BY <2>1, DrainedIsIdle
  <2>2. CASE \A v \in job[w].page : job[w].at[v] \in {"todo", "done"}
    BY <2>2 DEF StepOf, Busy
  <2>3. EndPage(w) => \A v \in job[w].page : job[w].at[v] = "done"
    BY <1>1, <1>2 DEF EndPage, PageKept
  <2>. QED  BY <2>1, <2>2, <2>3 DEF RetryPage, FailPage, PageFails
<1>. QED  BY <1>1, <1>7, <1>8, IdleLeaveKept

LEMMA DeathKept ==
    ASSUME NoticeInvariant, NEW w \in Workers, WorkerDies(w)
    PROVE  NoticeInvariant'
<1>1. Works(w) /\ Rests(w) /\ TryAgain(w, Death, tasks)
  BY DEF WorkerDies
<1>2. UNCHANGED <<limit, active, steady, finished, record, reached>>
  BY DEF WorkerDies, NoticeStays
<1>3. unsaved \in [Customers -> Nat] /\ TasksKept /\ PageKept(w)
  BY DEF NoticeInvariant, NoticeTypes
<1>4. unsaved' = [u \in Customers |->
                     unsaved[u] + IF StepOf(w, u) \in Busy THEN 1 ELSE 0]
  BY AtWorkIs DEF WorkerDies
<1>5. unsaved' \in [Customers -> Nat]
  BY <1>3, <1>4
<1>6. /\ Enough(tasks')
      /\ finished' => \A u \in steady : IsSettled(u)
  BY <1>1, <1>2, <1>3, TryIsEnough DEF TasksKept
<1>. QED  BY <1>1, <1>2, <1>3, <1>4, <1>5, <1>6, LeaveKept DEF TasksKept

LEMMA LatenessKept ==
    ASSUME NoticeInvariant, NEW w \in Workers, WorkerIsLate(w)
    PROVE  NoticeInvariant'
<1>1. /\ Works(w) /\ TryAgain(w, Death, tasks)
      /\ UNCHANGED <<limit, active, steady, finished, record, reached, job,
                     unsaved>>
  BY DEF WorkerIsLate, NoticeStays
<1>2. NoticeTypes /\ TasksKept /\ PageKept(w)
  BY DEF NoticeInvariant
<1>3. Enough(tasks')
  BY <1>1, <1>2, TryIsEnough DEF TasksKept
<1>4. NoticeTypes' /\ TasksKept'
  BY <1>1, <1>2, <1>3 DEF NoticeTypes, TasksKept, Enough, IsSettled
<1>5. ASSUME NEW v \in Workers PROVE PageKept(v)'
  BY <1>1, <1>2, PageUndisturbed DEF NoticeInvariant, TasksKept, IsSettled
<1>6. ASSUME NEW u \in Customers PROVE NoticeKept(u)'
  BY <1>1, NoticeUndisturbed DEF NoticeInvariant, StepOf, Works
<1>. QED  BY <1>4, <1>5, <1>6 DEF NoticeInvariant

Tallied(j) == [j EXCEPT !.counted = TRUE]

LEMMA JobTallied ==
    ASSUME NEW j, IsJob(j), NEW k, k = Tallied(j)
    PROVE  /\ IsJob(k) /\ k.page = j.page /\ k.cursor = j.cursor
           /\ k.at = j.at /\ k.more = j.more /\ k.failed = j.failed
<1>1. PICK p, c, l, m, a, f, b, n : JobOf(j, p, c, l, m, a, f, b, n)
  BY DEF IsJob
<1>2. k = [page |-> p, cursor |-> c, left |-> l, more |-> m, at |-> a,
           failed |-> f, broke |-> b, counted |-> TRUE]
  BY <1>1 DEF JobOf, Tallied
<1>3. JobOf(k, p, c, l, m, a, f, b, TRUE)
  BY <1>1, <1>2 DEF JobOf
<1>4. IsJob(k)
  BY <1>3 DEF IsJob
<1>. QED  BY <1>1, <1>2, <1>4 DEF JobOf

LEMMA CountKept ==
    ASSUME NoticeInvariant, NEW w \in Workers, CountPage(w)
    PROVE  NoticeInvariant'
<1>1. /\ Works(w) /\ ~job[w].failed /\ TasksStay
      /\ \A u \in job[w].page : job[w].at[u] = "done"
      /\ UNCHANGED <<limit, active, record, reached, unsaved>>
  BY DEF CountPage, Drained, NoticeStays, CountsStay, TasksStay
<1>2. /\ NoticeTypes /\ TasksKept /\ PageKept(w) /\ IsJob(job[w])
      /\ job = [v \in Workers |-> job[v]]
  BY <1>1 DEF NoticeInvariant, NoticeTypes, Works
<1>3. /\ job' = [v \in Workers |-> job'[v]]
      /\ \A v \in Workers \ {w} : job'[v] = job[v]
      /\ job'[w] = Tallied(job[w])
  BY <1>2, Zenon DEF CountPage, Tallied
<1>4. /\ IsJob(job'[w]) /\ job'[w].page = job[w].page
      /\ job'[w].cursor = job[w].cursor /\ job'[w].at = job[w].at
      /\ job'[w].more = job[w].more /\ job'[w].failed = job[w].failed
  BY <1>2, <1>3, JobTallied
<1>5. Works(w)'
  BY <1>4, JobFields DEF Works
<1>6. \A v \in Workers, u \in Customers : StepOf(v, u)' = StepOf(v, u)
  BY <1>1, <1>3, <1>4, <1>5 DEF StepOf, Works
<1>7. NoticeTypes' /\ TasksKept'
  BY <1>1, <1>2, <1>3, <1>4, TasksUndisturbed
  DEF NoticeTypes, TasksStay, IsSettled
<1>8. ASSUME NEW v \in Workers PROVE PageKept(v)'
  <2>1. CASE v = w
    BY <1>1, <1>2, <1>4, <2>1 DEF PageKept, TasksStay, IsSettled
  <2>2. CASE v # w
    BY <1>1, <1>2, <1>3, <2>2, PageUndisturbed
    DEF NoticeInvariant, TasksKept, TasksStay, IsSettled
  <2>. QED  BY <2>1, <2>2
<1>9. ASSUME NEW u \in Customers PROVE NoticeKept(u)'
  BY <1>1, <1>6, NoticeUndisturbed DEF NoticeInvariant
<1>. QED  BY <1>7, <1>8, <1>9 DEF NoticeInvariant

LEMMA JobParts ==
    ASSUME NEW j, NEW p, NEW c, NEW l, NEW m, NEW a, NEW f, NEW b, NEW n,
           JobOf(j, p, c, l, m, a, f, b, n)
    PROVE  j.more = m /\ j.counted = n
BY DEF JobOf

LEMMA TakeKept ==
    ASSUME NoticeInvariant, NEW w \in Workers, NEW t \in PageTasks,
           TakeTask(w, t)
    PROVE  NoticeInvariant'
<1>. DEFINE c == t[1]
            l == t[2]
<1>1. /\ job[w] = Resting /\ tasks[t] > 0
      /\ tasks' = [tasks EXCEPT ![t] = @ - 1]
      /\ UNCHANGED <<limit, active, steady, finished, record, reached,
                     unsaved>>
  BY DEF TakeTask, NoticeStays, CountsStay
<1>2. /\ NoticeTypes /\ TasksKept /\ job = [v \in Workers |-> job[v]]
      /\ steady \subseteq Customers /\ active \subseteq Customers
      /\ limit \in Nat \ {0} /\ c \in Nat /\ c \in Customers \cup {0}
  BY BroadcastConstants
  DEF NoticeInvariant, NoticeTypes, TasksKept, PageTasks
<1>3. /\ tasks' \in [PageTasks -> Nat]
      /\ \A e \in PageTasks : tasks'[e] > 0 => tasks[e] > 0
  BY <1>1, <1>2 DEF TasksKept, Enough
<1>4. TasksKept'
  BY <1>1, <1>2, <1>3 DEF TasksKept, Enough, IsSettled
<1>a. \A u \in steady : u <= c => IsSettled(u)
  BY <1>1, <1>2 DEF TasksKept, Enough
<1>b. \/ UNCHANGED job
      \/ job' = [job EXCEPT ![w] =
           [page |-> Page(c), cursor |-> c, left |-> l,
            more |-> Page(c) # After(c),
            at |-> [u \in Page(c) |-> "todo"], failed |-> FALSE,
            broke |-> FALSE, counted |-> FALSE]]
  BY DEF TakeTask
<1>. HIDE DEF c, l
<1>5. CASE UNCHANGED job
  <2>1. NoticeTypes'
    BY <1>1, <1>2, <1>3, <1>5 DEF NoticeTypes
  <2>2. ASSUME NEW v \in Workers PROVE PageKept(v)'
    BY <1>1, <1>2, <1>5, PageUndisturbed
    DEF NoticeInvariant, TasksKept, IsSettled
  <2>3. ASSUME NEW u \in Customers PROVE NoticeKept(u)'
    BY <1>1, <1>5, NoticeUndisturbed DEF NoticeInvariant, StepOf, Works
  <2>. QED  BY <1>4, <2>1, <2>2, <2>3 DEF NoticeInvariant
<1>6. CASE job' = [job EXCEPT ![w] =
              [page |-> Page(c), cursor |-> c, left |-> l,
               more |-> Page(c) # After(c),
               at |-> [u \in Page(c) |-> "todo"], failed |-> FALSE,
               broke |-> FALSE, counted |-> FALSE]]
  <2>1. /\ job' = [v \in Workers |-> job'[v]]
        /\ \A v \in Workers \ {w} : job'[v] = job[v]
        /\ job'[w] =
              [page |-> Page(c), cursor |-> c, left |-> l,
               more |-> Page(c) # After(c),
               at |-> [u \in Page(c) |-> "todo"], failed |-> FALSE,
               broke |-> FALSE, counted |-> FALSE]
    BY <1>2, <1>6, Zenon
  <2>2. /\ Page(c) \subseteq Customers
        /\ \A u \in steady \ Page(c) : u > c =>
              u \in After(c) /\ Page(c) # After(c)
    BY <1>2 DEF Page, After, TasksKept
  <2>3. JobOf(job'[w], Page(c), c, l, Page(c) # After(c),
              [u \in Page(c) |-> "todo"], FALSE, FALSE, FALSE)
    BY <1>2, <2>1, <2>2 DEF JobOf, PageSteps
  <2>4. IsJob(job'[w]) /\ Works(w)'
    <3>1. IsJob(job'[w])
      BY <2>3 DEF IsJob
    <3>. QED  BY <3>1, JobFields DEF Works
  <2>5. /\ job'[w].page = Page(c) /\ job'[w].cursor = c
        /\ job'[w].more <=> Page(c) # After(c)
        /\ ~job'[w].counted /\ \A u \in Page(c) : job'[w].at[u] = "todo"
    <3>1. /\ job'[w].page = Page(c) /\ job'[w].cursor = c
          /\ job'[w].at = [u \in Page(c) |-> "todo"]
      BY <2>1
    <3>2. /\ job'[w].more = (Page(c) # After(c))
          /\ job'[w].counted = FALSE
      BY <2>3, JobParts, Zenon
    <3>. QED  BY <3>1, <3>2
  <2>6. NoticeTypes'
    BY <1>1, <1>2, <1>3, <2>1, <2>4 DEF NoticeTypes
  <2>7. PageKept(w)'
    <3>2. /\ \A u \in steady \ Page(c) : u > c =>
                Page(c) # After(c) /\ \A v \in Page(c) : v < u
          /\ Page(c) # After(c) => Page(c) # {}
      BY <1>2, <2>2, PageIsFirst
    <3>. QED  BY <1>1, <1>a, <2>5, <3>2 DEF PageKept, IsSettled
  <2>8. ASSUME NEW v \in Workers \ {w} PROVE PageKept(v)'
    BY <1>1, <1>2, <2>1, PageUndisturbed
    DEF NoticeInvariant, TasksKept, IsSettled
  <2>9. ASSUME NEW u \in Customers PROVE NoticeKept(u)'
    <3>1. \A v \in Workers \ {w} : StepOf(v, u)' = StepOf(v, u)
      BY <2>1 DEF StepOf, Works
    <3>2. StepOf(w, u) \notin Busy /\ StepOf(w, u)' \notin Busy
      BY <1>1, <2>5 DEF StepOf, Works, Busy
    <3>. QED  BY <1>1, <3>1, <3>2, NoticeUndisturbed DEF NoticeInvariant
  <2>. QED  BY <1>4, <2>6, <2>7, <2>8, <2>9 DEF NoticeInvariant
<1>. QED  BY <1>b, <1>5, <1>6

(* Time, the administrator and the queue.                                  *)
LEMMA ElsewhereKept ==
    ASSUME NoticeInvariant,
           \/ Requeue \/ Withdraw \/ UNCHANGED broadcastVars
           \/ \E u \in Customers : RecordAges(u) \/ Suspend(u) \/ Readmit(u)
    PROVE  NoticeInvariant'
<1>1. /\ UNCHANGED <<limit, job, reached, unsaved>>
      /\ steady' \subseteq steady /\ finished' = finished
  BY DEF Requeue, Withdraw, RecordAges, RecordStays, NoticeStays, CountsStay,
     Suspend, Readmit, broadcastVars
<1>2. NoticeTypes /\ TasksKept
  BY DEF NoticeInvariant
<1>3. /\ active' \subseteq Customers /\ steady' \subseteq active'
  BY <1>2
  DEF Requeue, Withdraw, RecordAges, RecordStays, NoticeStays,
      Suspend, Readmit, broadcastVars, NoticeTypes, TasksKept
<1>4. Enough(tasks')
  <2>1. CASE UNCHANGED tasks
    BY <1>2, <2>1 DEF TasksKept
  <2>2. CASE Requeue
    <3>1. \A u \in steady : ~(u <= 0)
      BY <1>2, BroadcastConstants DEF NoticeTypes, TasksKept
    <3>. QED  BY <1>2, <2>2, <3>1, QueuedIsEnough DEF Requeue, TasksKept
  <2>. QED
    BY <2>1, <2>2
    DEF Withdraw, RecordAges, RecordStays, Suspend, Readmit, broadcastVars
<1>5. \/ UNCHANGED record
      \/ \E u \in Customers :
            /\ record[u] = "SENDING" /\ Record(u, "AGED")
            /\ \A w \in Workers : StepOf(w, u) \notin Busy
  BY AtWorkIs
  DEF Requeue, Withdraw, RecordAges, Suspend, Readmit, broadcastVars
<1>6. /\ record' \in [Customers -> RecordStates]
      /\ \A u \in Customers : IsSettled(u) => IsSettled(u)'
  BY <1>2, <1>5 DEF NoticeTypes, Record, RecordStates, IsSettled
<1>7. NoticeTypes'
  BY <1>1, <1>2, <1>3, <1>4, <1>6 DEF NoticeTypes
<1>8. TasksKept'
  <2>1. steady' \subseteq Customers
    BY <1>3
  <2>. QED  BY <1>1, <1>2, <1>3, <1>4, <1>6, <2>1 DEF TasksKept, Enough
<1>9. ASSUME NEW w \in Workers PROVE PageKept(w)'
  BY <1>1, <1>2, <1>6, PageUndisturbed DEF NoticeInvariant, TasksKept
<1>10. ASSUME NEW u \in Customers PROVE NoticeKept(u)'
  <2>1. \A w \in Workers : StepOf(w, u)' = StepOf(w, u)
    BY <1>1 DEF StepOf, Works
  <2>2. NoticeKept(u)
    BY DEF NoticeInvariant
  <2>3. CASE record'[u] = record[u]
    BY <1>1, <2>1, <2>2, <2>3, NoticeUndisturbed
  <2>4. CASE record'[u] # record[u]
    <3>1. /\ record[u] = "SENDING" /\ record'[u] = "AGED"
          /\ \A w \in Workers : StepOf(w, u) \notin Busy
      BY <1>2, <1>5, <2>4 DEF Record, NoticeTypes
    <3>2. reached[u] <= unsaved[u]
      BY <2>2, <3>1 DEF NoticeKept, IsSettled, Answered, Busy
    <3>. QED  BY <1>1, <2>1, <2>2, <3>1, <3>2 DEF NoticeKept
  <2>. QED  BY <2>3, <2>4
<1>. QED  BY <1>7, <1>8, <1>9, <1>10 DEF NoticeInvariant

LEMMA NoticesKept ==
    ASSUME NoticeInvariant, [BroadcastNext]_broadcastVars
    PROVE  NoticeInvariant'
<1>1. ASSUME NEW w \in Workers, WorkOf(w) PROVE NoticeInvariant'
  BY <1>1, WorkKept, PageEndKept, CountKept DEF WorkOf
<1>2. ASSUME NEW w \in Workers, NEW t \in PageTasks, TakeTask(w, t)
      PROVE  NoticeInvariant'
  BY <1>2, TakeKept
<1>3. ASSUME NEW w \in Workers, NEW u \in Customers, StoreFails(w, u)
      PROVE  NoticeInvariant'
  BY <1>3, WorkKept
<1>4. ASSUME NEW w \in Workers,
             PageFails(w) \/ WorkerDies(w) \/ WorkerIsLate(w)
      PROVE  NoticeInvariant'
  BY <1>4, PageEndKept, DeathKept, LatenessKept
<1>. QED  BY <1>1, <1>2, <1>3, <1>4, ElsewhereKept DEF BroadcastNext

(* A customer gets a notice once, and once more only for each send whose   *)
(* outcome was not stored, because the worker died or the database failed, *)
(* however tasks are repeated, pages are retried and answers get lost      *)
(* (broadcast-sender.ts:33, admin-broadcast.processor.ts:42-66).           *)
THEOREM NoticeOnce == BroadcastSpec => []NoticeAtMostOnce
<1>1. NoticeInvariant => NoticeAtMostOnce
  BY DEF NoticeInvariant, NoticeKept, NoticeAtMostOnce
<1>. QED  BY <1>1, NoticesBegin, NoticesKept, PTL DEF BroadcastSpec

(* A notice that has ended left out nobody who was a customer all the      *)
(* time, whatever its pages are, who else comes and goes, and how often    *)
(* workers die, are late or cannot reach the database                      *)
(* (admin-broadcast.processor.ts:69-74).                                   *)
THEOREM NobodyIsLeftOut == BroadcastSpec => []FinishedReachedAll
<1>1. NoticeInvariant => FinishedReachedAll
  BY DEF NoticeInvariant, TasksKept, IsSettled, FinishedReachedAll
<1>. QED  BY <1>1, NoticesBegin, NoticesKept, PTL DEF BroadcastSpec

-----------------------------------------------------------------------------
(* The report over the history of the bank.                                *)

DemandStatus == {"NONE", "PENDING", "EXPIRED", "APPROVED"}
References ==
    {NoReference} \cup {"bank"} \X (Accounts \cup {Unsaid}) \X Numbers
Documents == [status: DemandStatus, pin: Accounts \cup {Unsaid},
              reference: References, cancelled: BOOLEAN]

ReconTyped ==
    /\ demand \in [Demands -> Documents]
    /\ history \in [Accounts \X Numbers -> SUBSET Lines]
    /\ \A p \in Accounts \X Numbers : IsFiniteSet(history[p])
    /\ IsFiniteSet(rows)

(* The kinds of rows: of an administrator's approval, of a transfer, and   *)
(* of a transfer that the older release credited.                          *)
HandRow(w) ==
    \E r \in Demands :
        w = [key |-> <<"hand", r>>, pin |-> Unsaid, number |-> 0, of |-> r,
             amount |-> Due, from |-> <<>>]

BankRow(w, a, n, l) ==
    /\ l \in history[<<a, n>>] /\ l.type = "IN" /\ l.names # {}
    /\ \E r \in Demands, pin \in Accounts \cup {Unsaid} :
          /\ w = [key |-> Scoped(a, n), pin |-> pin, number |-> n, of |-> r,
                  amount |-> l.amount, from |-> <<a, n>>]
          /\ r = Min(l.names)
          /\ demand[r].status = "APPROVED" /\ demand[r].reference # Raw(n)

OldRow(w, n, l) ==
    /\ l \in history[<<Legacy, n>>] /\ l.type = "IN"
    /\ \E r \in Demands :
          /\ w = [key |-> Raw(n), pin |-> Unsaid, number |-> n, of |-> r,
                  amount |-> l.amount, from |-> <<Legacy, n>>]
          /\ l.names = {r}
          /\ demand[r].status = "APPROVED" /\ demand[r].reference = Raw(n)

RowIsOf(w) ==
    \/ HandRow(w)
    \/ \E a \in Accounts, n \in Numbers : \E l \in Lines : BankRow(w, a, n, l)
    \/ \E n \in Numbers : \E l \in Lines : OldRow(w, n, l)

ReconInvariant ==
    /\ ReconTyped
    /\ \A w \in rows : RowIsOf(w)
    /\ \A w, v \in rows : w.key = v.key => w = v

(* What no step takes back: a line, an approval and its reference.         *)
Kept ==
    /\ \A p \in Accounts \X Numbers : history[p] \subseteq history'[p]
    /\ \A r \in Demands : demand[r].status = "APPROVED" =>
          demand'[r].status = "APPROVED"
          /\ demand'[r].reference = demand[r].reference

LEMMA RowStays ==
    ASSUME Kept, NEW w, RowIsOf(w) PROVE RowIsOf(w)'
<1>1. CASE HandRow(w)
  BY <1>1 DEF HandRow, RowIsOf
<1>2. ASSUME NEW a \in Accounts, NEW n \in Numbers, NEW l \in Lines,
             BankRow(w, a, n, l)
      PROVE  RowIsOf(w)'
  <2>1. BankRow(w, a, n, l)'
    BY <1>2 DEF BankRow, Kept
  <2> QED
    BY <2>1 DEF RowIsOf
<1>3. ASSUME NEW n \in Numbers, NEW l \in Lines, OldRow(w, n, l)
      PROVE  RowIsOf(w)'
  <2>1. OldRow(w, n, l)'
    BY <1>3, ReconConstants DEF OldRow, Kept
  <2> QED
    BY <2>1 DEF RowIsOf
<1> QED
  BY <1>1, <1>2, <1>3 DEF RowIsOf

(* A step that adds at most one row, of a key of its own.                  *)
LEMMA RowAdded ==
    ASSUME ReconInvariant, ReconTyped', Kept, NEW w, RowIsOf(w)',
           AddRow(w) \/ UNCHANGED rows
    PROVE  ReconInvariant'
<1>1. \A v \in rows : RowIsOf(v)'
  BY RowStays DEF ReconInvariant
<1>2. CASE UNCHANGED rows
  BY <1>1, <1>2 DEF ReconInvariant
<1>3. CASE AddRow(w)
  BY <1>1, <1>3 DEF ReconInvariant, AddRow
<1> QED
  BY <1>2, <1>3

LEMMA RowsFinite ==
    ASSUME IsFiniteSet(rows), NEW w, AddRow(w) \/ UNCHANGED rows
    PROVE  IsFiniteSet(rows')
<1>1. IsFiniteSet(rows \cup {w})
  BY FS_AddElement
<1> QED
  BY <1>1 DEF AddRow

LEMMA NoRows ==
    ASSUME ReconInvariant, ReconTyped', Kept, UNCHANGED rows
    PROVE  ReconInvariant'
<1>1. \A v \in rows : RowIsOf(v)'
  BY RowStays DEF ReconInvariant
<1> QED
  BY <1>1 DEF ReconInvariant

LEMMA SmallestIn ==
    ASSUME NEW D \in SUBSET Nat, IsFiniteSet(D), D # {}
    PROVE  Min(D) \in D
<1>1. D \in SUBSET Int
  OBVIOUS
<1>2. \E x \in D : \A y \in D : x <= y
  BY <1>1, HasSmallest
<1> QED
  BY <1>2 DEF Min

LEMMA MinOfOne ==
    ASSUME NEW r \in Nat PROVE Min({r}) = r
BY DEF Min

LEMMA LineNames ==
    ASSUME NEW l \in Lines
    PROVE  /\ l.names \in SUBSET Demands /\ l.amount \in Nat
           /\ l.type \in {"IN", "OUT"}
           /\ l.names # {} => Min(l.names) \in Demands
<1>1. /\ l.names \in SUBSET Demands /\ l.amount \in Nat
      /\ l.type \in {"IN", "OUT"}
  BY ReconConstants DEF Lines
<1>2. IsFiniteSet(l.names) /\ l.names \in SUBSET Nat
  BY <1>1, ReconConstants, FS_Subset
<1> QED
  BY <1>1, <1>2, SmallestIn

LEMMA ReconBegins == ReconInit => ReconInvariant
<1> SUFFICES ASSUME ReconInit PROVE ReconInvariant
  OBVIOUS
<1>1. NoDemand \in Documents
  BY DEF NoDemand, Documents, DemandStatus, References
<1>2. ReconTyped
  BY <1>1, FS_EmptySet DEF ReconInit, ReconTyped
<1> QED
  BY <1>2 DEF ReconInvariant, ReconInit

LEMMA DemandIs ==
    ASSUME ReconTyped, NEW r \in Demands, NEW d \in Documents,
           demand' = [demand EXCEPT ![r] = d]
    PROVE  /\ demand' \in [Demands -> Documents]
           /\ \A q \in Demands : demand'[q] = IF q = r THEN d ELSE demand[q]
BY DEF ReconTyped

LEMMA DocumentUpdates ==
    ASSUME NEW d \in Documents, NEW s \in DemandStatus
    PROVE  /\ [d EXCEPT !.status = s] \in Documents
           /\ \A a \in Accounts \cup {Unsaid} :
                 [d EXCEPT !.status = s, !.pin = a] \in Documents
           /\ \A c \in BOOLEAN :
                 [d EXCEPT !.status = s, !.cancelled = c] \in Documents
           /\ \A e \in References :
                 [d EXCEPT !.status = s, !.reference = e] \in Documents
BY DEF Documents

LEMMA DemandKeeps ==
    ASSUME ReconInvariant, NEW r \in Demands, Demand(r) \/ DemandEnds(r)
    PROVE  ReconInvariant'
<1>1. demand[r].status # "APPROVED" /\ UNCHANGED <<history, rows>>
  BY DEF Demand, DemandEnds
<1>0. ReconTyped
  BY DEF ReconInvariant
<1>2. PICK d \in Documents : demand' = [demand EXCEPT ![r] = d]
  <2>1. CASE Demand(r)
    <3>1. PICK a \in Accounts \cup {Unsaid} :
            demand' = [demand EXCEPT ![r].status = "PENDING", ![r].pin = a]
      BY <2>1 DEF Demand
    <3> DEFINE d == [demand[r] EXCEPT !.status = "PENDING", !.pin = a]
    <3>2. demand[r] \in Documents /\ "PENDING" \in DemandStatus
      BY <1>0 DEF ReconTyped, DemandStatus
    <3>3. d \in Documents
      BY <3>2, DocumentUpdates
    <3>4. demand' = [demand EXCEPT ![r] = d]
      BY <1>0, <3>1 DEF ReconTyped
    <3> HIDE DEF d
    <3> QED
      BY <3>3, <3>4
  <2>2. CASE DemandEnds(r)
    <3>1. PICK c \in BOOLEAN :
            demand' = [demand EXCEPT ![r].status = "EXPIRED",
                                     ![r].cancelled = c]
      BY <2>2 DEF DemandEnds
    <3> DEFINE d == [demand[r] EXCEPT !.status = "EXPIRED", !.cancelled = c]
    <3>2. demand[r] \in Documents /\ "EXPIRED" \in DemandStatus
      BY <1>0 DEF ReconTyped, DemandStatus
    <3>3. d \in Documents
      BY <3>2, DocumentUpdates
    <3>4. demand' = [demand EXCEPT ![r] = d]
      BY <1>0, <3>1 DEF ReconTyped
    <3> HIDE DEF d
    <3> QED
      BY <3>3, <3>4
  <2> QED
    BY <2>1, <2>2
<1>3. ReconTyped'
  BY <1>1, <1>2 DEF ReconInvariant, ReconTyped
<1>4. Kept
  BY <1>1, <1>2 DEF Kept, ReconInvariant, ReconTyped
<1> QED
  BY <1>1, <1>3, <1>4, NoRows

LEMMA HandKeeps ==
    ASSUME ReconInvariant, NEW r \in Demands, DemandByHand(r)
    PROVE  ReconInvariant'
<1> DEFINE w == [key |-> <<"hand", r>>, pin |-> Unsaid, number |-> 0, of |-> r,
                 amount |-> Due, from |-> <<>>]
<1>1. /\ demand[r].status = "PENDING" /\ AddRow(w) /\ UNCHANGED history
      /\ demand' = [demand EXCEPT ![r].status = "APPROVED"]
  BY DEF DemandByHand
<1>2. demand' \in [Demands -> Documents]
  BY <1>1 DEF ReconInvariant, ReconTyped, Documents, DemandStatus
<1>3. \A q \in Demands : q # r => demand'[q] = demand[q]
  BY <1>1 DEF ReconInvariant, ReconTyped
<1>4. ReconTyped'
  <2>1. IsFiniteSet(rows')
    BY <1>1, RowsFinite DEF ReconInvariant, ReconTyped
  <2> QED
    BY <1>1, <1>2, <2>1 DEF ReconInvariant, ReconTyped
<1>5. Kept
  BY <1>1, <1>3 DEF Kept
<1>6. RowIsOf(w)'
  BY DEF RowIsOf, HandRow
<1> HIDE DEF w
<1> QED
  BY <1>1, <1>4, <1>5, <1>6, RowAdded

LEMMA BankKeeps ==
    ASSUME ReconInvariant, NEW p \in Accounts \X Numbers, BankMoves(p)
    PROVE  ReconInvariant'
<1>1. PICK l \in Lines : history' = [history EXCEPT ![p] = @ \cup {l}]
  BY DEF BankMoves
<1>2. \A q \in Accounts \X Numbers :
         history'[q] = IF q = p THEN history[p] \cup {l} ELSE history[q]
  BY <1>1 DEF ReconInvariant, ReconTyped
<1>3. \A q \in Accounts \X Numbers : IsFiniteSet(history'[q])
  <2>1. IsFiniteSet(history[p] \cup {l})
    BY FS_AddElement DEF ReconInvariant, ReconTyped
  <2> QED
    BY <1>2, <2>1 DEF ReconInvariant, ReconTyped
<1>4. UNCHANGED <<demand, rows>>
  BY DEF BankMoves
<1>5. ReconTyped'
  BY <1>1, <1>3, <1>4 DEF ReconInvariant, ReconTyped
<1>6. Kept
  BY <1>2, <1>4 DEF Kept
<1> QED
  BY <1>4, <1>5, <1>6, NoRows

LEMMA SettleKeeps ==
    ASSUME ReconInvariant, UNCHANGED history, NEW r \in Demands,
           NEW e \in References, NEW w, Settle(r, e, w),
           demand'[r].status = "APPROVED" /\ demand'[r].reference = e
             => RowIsOf(w)'
    PROVE  ReconInvariant'
<1>0. ReconTyped
  BY DEF ReconInvariant
<1>1. CASE UNCHANGED <<demand, rows>>
  <2>1. ReconTyped' /\ Kept
    BY <1>0, <1>1 DEF ReconTyped, Kept
  <2> QED
    BY <1>1, <2>1, NoRows
<1>2. CASE /\ demand' = [demand EXCEPT ![r].status = "APPROVED",
                                       ![r].reference = e]
           /\ AddRow(w)
  <2> DEFINE d == [demand[r] EXCEPT !.status = "APPROVED", !.reference = e]
  <2>1. demand[r] \in Documents /\ "APPROVED" \in DemandStatus
    BY <1>0 DEF ReconTyped, DemandStatus
  <2>2. d \in Documents
    BY <2>1, DocumentUpdates
  <2>3. d.status = "APPROVED" /\ d.reference = e
    BY <2>1 DEF Documents
  <2>4. demand' = [demand EXCEPT ![r] = d]
    BY <1>0, <1>2 DEF ReconTyped
  <2> HIDE DEF d
  <2>5. /\ demand' \in [Demands -> Documents]
        /\ \A q \in Demands : demand'[q] = IF q = r THEN d ELSE demand[q]
    BY <1>0, <2>2, <2>4, DemandIs
  <2>6. RowIsOf(w)'
    BY <2>3, <2>5
  <2>7. IsFiniteSet(rows')
    BY <1>0, <1>2, RowsFinite DEF ReconTyped
  <2>8. ReconTyped'
    BY <1>0, <2>5, <2>7 DEF ReconTyped
  <2>9. demand[r].status # "APPROVED"
    BY DEF Settle
  <2>10. Kept
    BY <2>5, <2>9 DEF Kept
  <2> QED
    BY <1>2, <2>6, <2>8, <2>10, RowAdded
<1> QED
  BY <1>1, <1>2 DEF Settle

LEMMA SupplementKeeps ==
    ASSUME ReconInvariant, UNCHANGED <<history, demand>>, NEW w, RowIsOf(w)',
           AddRow(w) \/ UNCHANGED rows
    PROVE  ReconInvariant'
<1>1. ReconTyped' /\ Kept
  <2>1. IsFiniteSet(rows')
    BY RowsFinite DEF ReconInvariant, ReconTyped
  <2> QED
    BY <2>1 DEF ReconInvariant, ReconTyped, Kept
<1> QED
  BY <1>1, RowAdded

LEMMA Scopes ==
    ASSUME NEW a \in Accounts \cup {Unsaid}, NEW n \in Numbers
    PROVE  Scoped(a, n) \in References
BY DEF Scoped, References

LEMMA ScopedIsNotRaw ==
    ASSUME NEW a \in Accounts, NEW n, NEW m PROVE Scoped(a, n) # Raw(m)
BY ReconConstants DEF Scoped, Raw

(* No account can be paid by the callbacks of another.                     *)
LEMMA CreditKeeps ==
    ASSUME ~MaySwap, ReconInvariant, NEW a \in Accounts, NEW n \in Numbers,
           CreditLine(<<a, n>>)
    PROVE  ReconInvariant'
<1> DEFINE p == <<a, n>>
           e == Scoped(a, n)
<1>1. PICK l \in history[p] :
        /\ l.type = "IN" /\ l.names # {}
        /\ LET r == Min(l.names)
               row == [key |-> e, pin |-> demand[r].pin, number |-> n,
                       of |-> r, amount |-> l.amount, from |-> p]
           IN  Settle(r, e, row) \/ Supplements(r, e, row)
        /\ UNCHANGED history
  BY DEF CreditLine
<1>2. p \in Accounts \X Numbers /\ l \in Lines
  BY DEF ReconInvariant, ReconTyped
<1> DEFINE r == Min(l.names)
           row(b) == [key |-> e, pin |-> b, number |-> n, of |-> r,
                      amount |-> l.amount, from |-> p]
<1>3. r \in Demands
  BY <1>1, <1>2, LineNames
<1>4. PICK pin \in Accounts \cup {Unsaid} : pin = demand[r].pin
  BY <1>3 DEF ReconInvariant, ReconTyped, Documents
<1>5. l \in history'[p] /\ UNCHANGED history
  BY <1>1
<1>6. ASSUME NEW b \in Accounts \cup {Unsaid}, demand'[r].status = "APPROVED",
             demand'[r].reference # Raw(n)
      PROVE  RowIsOf(row(b))'
  <2>1. BankRow(row(b), a, n, l)'
    BY <1>1, <1>3, <1>5, <1>6 DEF BankRow
  <2> HIDE DEF row
  <2> QED
    BY <1>2, <2>1 DEF RowIsOf
<1>7. CASE Settle(r, e, row(pin))
  <2> DEFINE w == row(pin)
  <2>1. e \in References /\ e # Raw(n)
    BY Scopes, ScopedIsNotRaw
  <2>2. demand'[r].status = "APPROVED" /\ demand'[r].reference = e
          => RowIsOf(w)'
    <3> HIDE DEF r, row, e
    <3> QED
      BY <1>6, <2>1
  <2>3. Settle(r, e, w)
    BY <1>7
  <2> HIDE DEF r, w, e
  <2> QED
    BY <1>3, <1>5, <2>1, <2>2, <2>3, SettleKeeps
<1>8. CASE Supplements(r, e, row(pin))
  <2>1. demand[r].status = "APPROVED" /\ UNCHANGED demand
    BY <1>8 DEF Supplements
  <2>2. CASE UNCHANGED rows
    <3>1. ReconTyped' /\ Kept
      BY <1>5, <2>1, <2>2 DEF ReconInvariant, ReconTyped, Kept
    <3> QED
      BY <2>2, <3>1, NoRows
  <2>3. ASSUME demand[r].reference \notin {e, Raw(n)},
               NEW b \in {pin, Unsaid},
               AddRow([row(pin) EXCEPT !.pin = b])
        PROVE  ReconInvariant'
    <3> DEFINE w == row(b)
    <3>1. [row(pin) EXCEPT !.pin = b] = w
      OBVIOUS
    <3>2. RowIsOf(w)'
      <4> HIDE DEF r, row, e
      <4> QED
        BY <1>6, <2>1, <2>3
    <3>3. AddRow(w)
      BY <2>3, <3>1
    <3> HIDE DEF w, r, e
    <3> QED
      BY <1>5, <2>1, <3>2, <3>3, SupplementKeeps
  <2>4. row(pin).number = n /\ row(pin).pin = pin
    OBVIOUS
  <2>5. \/ UNCHANGED rows
        \/ /\ demand[r].reference \notin {e, Raw(n)}
           /\ \E b \in {pin, Unsaid} : AddRow([row(pin) EXCEPT !.pin = b])
    <3> HIDE DEF row, r, e
    <3> QED
      BY <1>8, <2>4 DEF Supplements
  <2> QED
    BY <2>2, <2>3, <2>5
<1>9. Settle(r, e, row(pin)) \/ Supplements(r, e, row(pin))
  BY <1>1, <1>4
<1> QED
  BY <1>7, <1>8, <1>9

LEMMA OldKeeps ==
    ASSUME ReconInvariant, NEW n \in Numbers, OldCredit(n)
    PROVE  ReconInvariant'
<1> DEFINE e == Raw(n)
<1>1. PICK l \in history[<<Legacy, n>>], r \in Demands :
        /\ l.type = "IN" /\ l.names = {r}
        /\ Settle(r, e, [key |-> e, pin |-> Unsaid, number |-> n,
                         of |-> r, amount |-> l.amount,
                         from |-> <<Legacy, n>>])
        /\ UNCHANGED history
  BY DEF OldCredit
<1> DEFINE w == [key |-> e, pin |-> Unsaid, number |-> n, of |-> r,
                 amount |-> l.amount, from |-> <<Legacy, n>>]
<1>2. l \in Lines /\ e \in References
  BY ReconConstants, Scopes DEF ReconInvariant, ReconTyped, Raw
<1>3. ASSUME demand'[r].status = "APPROVED", demand'[r].reference = e
      PROVE  RowIsOf(w)'
  <2>1. OldRow(w, n, l)'
    BY <1>1, <1>3 DEF OldRow
  <2> HIDE DEF w
  <2> QED
    BY <1>2, <2>1 DEF RowIsOf
<1>4. Settle(r, e, w)
  BY <1>1
<1> HIDE DEF w, e
<1> QED
  BY <1>1, <1>2, <1>3, <1>4, SettleKeeps

LEMMA ReconKeeps ==
    ASSUME ~MaySwap, ReconInvariant, [ReconNext]_reconVars
    PROVE  ReconInvariant'
<1>1. CASE UNCHANGED reconVars
  <2>1. ReconTyped' /\ Kept /\ UNCHANGED rows
    BY <1>1 DEF reconVars, ReconInvariant, ReconTyped, Kept
  <2> QED
    BY <2>1, NoRows
<1>2. ASSUME NEW p \in Accounts \X Numbers, CreditLine(p)
      PROVE  ReconInvariant'
  <2>1. PICK a \in Accounts, n \in Numbers : p = <<a, n>>
    OBVIOUS
  <2> QED
    BY <1>2, <2>1, CreditKeeps
<1> QED
  BY <1>1, <1>2, DemandKeeps, HandKeeps, BankKeeps, OldKeeps DEF ReconNext

-----------------------------------------------------------------------------
(* The rows that a line of the history finds are those of its money.       *)
LEMMA BelongsByMoney ==
    ASSUME NEW w, RowIsOf(w), NEW a \in Accounts, NEW n \in Numbers, NEW R
    PROVE  Belongs(w, a, n, R) <=> w.from = <<a, n>>
<1>0. 0 \notin Numbers /\ Unsaid \notin Accounts /\ Legacy \in Accounts
  BY ReconConstants
<1>1. CASE HandRow(w)
  <2>1. PICK r \in Demands :
          w = [key |-> <<"hand", r>>, pin |-> Unsaid, number |-> 0, of |-> r,
               amount |-> Due, from |-> <<>>]
    BY <1>1 DEF HandRow
  <2>2. w.key[1] = "hand" /\ w.number = 0 /\ w.from = <<>>
    BY <2>1
  <2>3. <<>> # <<a, n>>
    OBVIOUS
  <2>4. ~ Direct(w, a, n)
    BY <2>2 DEF Direct, Scoped, Raw
  <2> QED
    BY <1>0, <2>2, <2>3, <2>4 DEF Belongs
<1>2. ASSUME NEW b \in Accounts, NEW m \in Numbers, NEW l \in Lines,
             BankRow(w, b, m, l)
      PROVE  Belongs(w, a, n, R) <=> w.from = <<a, n>>
  <2>1. w.key = Scoped(b, m) /\ w.number = m /\ w.from = <<b, m>>
    BY <1>2 DEF BankRow
  <2>2. w.key[1] = "bank" /\ w.key # Raw(n)
    BY <1>0, <2>1 DEF Scoped, Raw
  <2>3. Direct(w, a, n) <=> (a = b /\ n = m)
    BY <2>1, <2>2 DEF Direct, Scoped
  <2> QED
    BY <2>1, <2>2, <2>3 DEF Belongs
<1>3. ASSUME NEW m \in Numbers, NEW l \in Lines, OldRow(w, m, l)
      PROVE  Belongs(w, a, n, R) <=> w.from = <<a, n>>
  <2>1. /\ w.key = Raw(m) /\ w.number = m /\ w.from = <<Legacy, m>>
        /\ w.pin = Unsaid
    BY <1>3 DEF OldRow
  <2>2. w.key[1] = "bank" /\ w.key # Scoped(a, n)
    BY <1>0, <2>1 DEF Scoped, Raw
  <2>3. Direct(w, a, n) <=> (a = Legacy /\ n = m)
    BY <2>1, <2>2 DEF Direct, Scoped, Raw
  <2> QED
    BY <2>1, <2>2, <2>3 DEF Belongs
<1> QED
  BY <1>1, <1>2, <1>3 DEF RowIsOf

Of(a, n) == {w \in rows : w.from = <<a, n>>}

LEMMA CreditsAre ==
    ASSUME ReconInvariant, NEW a \in Accounts, NEW n \in Numbers, NEW l
    PROVE  CreditsOf(a, n, l) = Of(a, n)
<1>1. \A w \in rows : RowIsOf(w)
  BY DEF ReconInvariant
<1>2. \A w \in rows :
         Belongs(w, a, n, DemandsOf(a, n, l)) <=> w.from = <<a, n>>
  BY <1>1, BelongsByMoney
<1> QED
  BY <1>2 DEF CreditsOf, Of

(* Where its money came in.                                                *)
LEMMA MoneyOf ==
    ASSUME ReconInvariant, NEW w \in rows
    PROVE  /\ w.amount \in Nat
           /\ \/ w.key[1] # "bank" /\ w.from = <<>>
              \/ /\ w.key[1] = "bank"
                 /\ \E a \in Accounts, n \in Numbers :
                       \E l \in history[<<a, n>>] :
                          /\ l.type = "IN" /\ w.from = <<a, n>>
                          /\ w.amount = l.amount
                          /\ \/ BankRow(w, a, n, l)
                             \/ OldRow(w, n, l) /\ a = Legacy
<1>1. RowIsOf(w)
  BY DEF ReconInvariant
<1>2. CASE HandRow(w)
  <2>1. w.key[1] = "hand" /\ w.from = <<>> /\ w.amount = Due
    BY <1>2 DEF HandRow
  <2> QED
    BY <2>1, ReconConstants
<1>3. ASSUME NEW b \in Accounts, NEW m \in Numbers, NEW l \in Lines,
             BankRow(w, b, m, l)
      PROVE  /\ w.key[1] = "bank" /\ w.from = <<b, m>> /\ w.amount = l.amount
             /\ l \in history[<<b, m>>] /\ l.type = "IN" /\ l.amount \in Nat
  BY <1>3, LineNames DEF BankRow, Scoped
<1>4. ASSUME NEW m \in Numbers, NEW l \in Lines, OldRow(w, m, l)
      PROVE  /\ w.key[1] = "bank" /\ w.from = <<Legacy, m>>
             /\ w.amount = l.amount
             /\ l \in history[<<Legacy, m>>] /\ l.type = "IN"
             /\ l.amount \in Nat
  BY <1>4, LineNames DEF OldRow, Scoped, Raw
<1>5. Legacy \in Accounts
  BY ReconConstants
<1> QED
  <2>1. CASE HandRow(w)
    BY <1>2, <2>1
  <2>2. CASE \E a \in Accounts, n \in Numbers :
                \E l \in Lines : BankRow(w, a, n, l)
    BY <1>3, <2>2
  <2>3. CASE \E n \in Numbers : \E l \in Lines : OldRow(w, n, l)
    BY <1>4, <1>5, <2>3
  <2> QED
    BY <1>1, <2>1, <2>2, <2>3 DEF RowIsOf

(* With one line of that number there is one row at most, of its amount.   *)
LEMMA OneRow ==
    ASSUME ReconInvariant, NEW a \in Accounts, NEW n \in Numbers,
           NEW l, history[<<a, n>>] = {l}
    PROVE  /\ \A w \in Of(a, n) : w.amount = l.amount
           /\ \A w, v \in Of(a, n) : w = v
<1>0. l \in Lines
  BY DEF ReconInvariant, ReconTyped
<1>1. ASSUME NEW w \in Of(a, n)
      PROVE  w.amount = l.amount /\ (\/ BankRow(w, a, n, l)
                                     \/ OldRow(w, n, l) /\ a = Legacy)
  <2>1. w \in rows /\ w.from = <<a, n>> /\ <<a, n>> # <<>>
    BY DEF Of
  <2>2. PICK b \in Accounts, m \in Numbers : \E k \in history[<<b, m>>] :
          /\ w.from = <<b, m>> /\ w.amount = k.amount
          /\ \/ BankRow(w, b, m, k)
             \/ OldRow(w, m, k) /\ b = Legacy
    BY <2>1, MoneyOf
  <2>3. a = b /\ n = m
    BY <2>1, <2>2
  <2> QED
    BY <2>2, <2>3
<1>2. ASSUME NEW w \in Of(a, n), NEW v \in Of(a, n), BankRow(w, a, n, l),
             OldRow(v, n, l)
      PROVE  FALSE
  <2>1. PICK r \in Demands : r = Min(l.names) /\ demand[r].reference # Raw(n)
    BY <1>2 DEF BankRow
  <2>2. PICK q \in Demands : l.names = {q} /\ demand[q].reference = Raw(n)
    BY <1>2 DEF OldRow
  <2>3. q \in Nat
    BY ReconConstants
  <2>4. Min({q}) = q
    BY <2>3, MinOfOne
  <2>5. r = q
    BY <2>1, <2>2, <2>4
  <2> QED
    BY <2>1, <2>2, <2>5
<1>3. \A w, v \in Of(a, n) : w.key = v.key
  <2> SUFFICES ASSUME NEW w \in Of(a, n), NEW v \in Of(a, n)
               PROVE  w.key = v.key
    OBVIOUS
  <2>1. BankRow(w, a, n, l) => w.key = Scoped(a, n)
    BY DEF BankRow
  <2>2. BankRow(v, a, n, l) => v.key = Scoped(a, n)
    BY DEF BankRow
  <2>3. OldRow(w, n, l) => w.key = Raw(n)
    BY DEF OldRow
  <2>4. OldRow(v, n, l) => v.key = Raw(n)
    BY DEF OldRow
  <2> QED
    BY <1>1, <1>2, <2>1, <2>2, <2>3, <2>4
<1>4. \A w, v \in rows : w.key = v.key => w = v
  BY DEF ReconInvariant
<1> QED
  BY <1>1, <1>3, <1>4 DEF Of

LEMMA OneLine ==
    ASSUME ReconTyped, NEW a \in Accounts, NEW n \in Numbers,
           NEW l \in history[<<a, n>>], ~ Conflict(a, n)
    PROVE  history[<<a, n>>] = {l}
<1> DEFINE H == history[<<a, n>>]
<1>1. IsFiniteSet(H) /\ l \in H
  BY DEF ReconTyped
<1>2. Cardinality(H) \in Nat /\ Cardinality(H) <= 1
  BY <1>1, FS_CardinalityType DEF Conflict
<1>3. IsFiniteSet(H \ {l}) /\ Cardinality(H \ {l}) = Cardinality(H) - 1
  BY <1>1, FS_RemoveElement
<1>4. Cardinality(H \ {l}) \in Nat
  BY <1>3, FS_CardinalityType
<1> HIDE DEF H
<1>5. Cardinality(H \ {l}) = 0
  BY <1>2, <1>3, <1>4
<1>6. H \ {l} = {}
  BY <1>3, <1>5, FS_EmptySet
<1> QED
  BY <1>1, <1>6 DEF H

-----------------------------------------------------------------------------
(* The sums of the report.                                                 *)
Amount == [w \in rows |-> w.amount]

IsAmountSums(g, S) ==
    g = [s \in SUBSET S |->
            IF s = {} THEN 0 ELSE First(s).amount + g[s \ {First(s)}]]

LEMMA AmountSum ==
    ASSUME IsFiniteSet(rows), NEW S \in SUBSET rows
    PROVE  SumAmounts(S) = SumMap(Amount, S)
<1> DEFINE h == CHOOSE g : IsAmountSums(g, S)
<1>1. SumAmounts(S) = h[S]
  BY Zenon DEF SumAmounts, MapThenSumSet, MapThenFoldSet, First, IsAmountSums
<1>2. IsFiniteSet(S)
  BY FS_Subset
<1>3. \A s \in SUBSET S : s # {} => Amount[First(s)] = First(s).amount
  BY FirstIn DEF Amount
<1>4. ASSUME NEW g PROVE IsSums(g, Amount, S) <=> IsAmountSums(g, S)
  <2> DEFINE u(s) == IF s = {} THEN 0
                     ELSE Amount[First(s)] + g[s \ {First(s)}]
             v(s) == IF s = {} THEN 0
                     ELSE First(s).amount + g[s \ {First(s)}]
  <2>1. \A s \in SUBSET S : u(s) = v(s)
    BY <1>3
  <2>2. [s \in SUBSET S |-> u(s)] = [s \in SUBSET S |-> v(s)]
    <3> HIDE DEF u, v
    <3> QED
      BY <2>1
  <2> QED
    BY <2>2 DEF IsSums, IsAmountSums
<1>5. IsAmountSums(h, S)
  <2>1. \E g : IsSums(g, Amount, S)
    BY <1>2, SumsExist
  <2>2. \E g : IsAmountSums(g, S)
    BY <1>4, <2>1
  <2> QED
    BY <2>2
<1> HIDE DEF h
<1>6. SumsUp(h, Amount, S)
  BY <1>4, <1>5, IsSumsUp
<1> QED
  BY <1>1, <1>2, <1>6, SumIsChosen

ForLine(a) == [x \in Incoming(a) |-> CreditedFor(a, x[1], x[2])]

IsLineSums(g, a, S) ==
    g = [s \in SUBSET S |->
            IF s = {} THEN 0
            ELSE CreditedFor(a, First(s)[1], First(s)[2])
                 + g[s \ {First(s)}]]

LEMMA LineSum ==
    ASSUME NEW a, IsFiniteSet(Incoming(a))
    PROVE  CreditedTo(a) = SumMap(ForLine(a), Incoming(a))
<1> DEFINE S == Incoming(a)
           f == ForLine(a)
           h == CHOOSE g : IsLineSums(g, a, S)
<1>1. CreditedTo(a) = h[S]
  BY Zenon DEF CreditedTo, MapThenSumSet, MapThenFoldSet, First, IsLineSums
<1>2. IsFiniteSet(S)
  OBVIOUS
<1>3. \A s \in SUBSET S : s # {} =>
         f[First(s)] = CreditedFor(a, First(s)[1], First(s)[2])
  BY FirstIn DEF ForLine
<1> HIDE DEF S, f
<1>4. ASSUME NEW g PROVE IsSums(g, f, S) <=> IsLineSums(g, a, S)
  <2> DEFINE u(s) == IF s = {} THEN 0
                     ELSE f[First(s)] + g[s \ {First(s)}]
             v(s) == IF s = {} THEN 0
                     ELSE CreditedFor(a, First(s)[1], First(s)[2])
                          + g[s \ {First(s)}]
  <2>1. \A s \in SUBSET S : u(s) = v(s)
    BY <1>3
  <2>2. [s \in SUBSET S |-> u(s)] = [s \in SUBSET S |-> v(s)]
    <3> HIDE DEF u, v
    <3> QED
      BY <2>1
  <2> QED
    BY <2>2 DEF IsSums, IsLineSums
<1>5. IsLineSums(h, a, S)
  <2>1. \E g : IsSums(g, f, S)
    BY <1>2, SumsExist
  <2>2. \E g : IsLineSums(g, a, S)
    BY <1>4, <2>1
  <2> QED
    BY <2>2
<1> HIDE DEF h
<1>6. SumsUp(h, f, S)
  BY <1>4, <1>5, IsSumsUp
<1>7. SumMap(f, S) = h[S]
  BY <1>2, <1>6, SumIsChosen
<1> QED
  BY <1>1, <1>7 DEF S, f

ForAccount == [a \in Accounts |-> CreditedTo(a)]

IsAccountSums(g) ==
    g = [s \in SUBSET Accounts |->
            IF s = {} THEN 0 ELSE CreditedTo(First(s)) + g[s \ {First(s)}]]

LEMMA AccountSum ==
    MapThenSumSet(CreditedTo, Accounts) = SumMap(ForAccount, Accounts)
<1> DEFINE h == CHOOSE g : IsAccountSums(g)
<1>1. MapThenSumSet(CreditedTo, Accounts) = h[Accounts]
  BY Zenon DEF MapThenSumSet, MapThenFoldSet, First, IsAccountSums
<1>2. IsFiniteSet(Accounts)
  BY ReconConstants
<1>3. \A s \in SUBSET Accounts : s # {} =>
         ForAccount[First(s)] = CreditedTo(First(s))
  BY FirstIn DEF ForAccount
<1>4. ASSUME NEW g PROVE IsSums(g, ForAccount, Accounts) <=> IsAccountSums(g)
  <2> DEFINE u(s) == IF s = {} THEN 0
                     ELSE ForAccount[First(s)] + g[s \ {First(s)}]
             v(s) == IF s = {} THEN 0
                     ELSE CreditedTo(First(s)) + g[s \ {First(s)}]
  <2>1. \A s \in SUBSET Accounts : u(s) = v(s)
    BY <1>3
  <2>2. [s \in SUBSET Accounts |-> u(s)] = [s \in SUBSET Accounts |-> v(s)]
    <3> HIDE DEF u, v
    <3> QED
      BY <2>1
  <2> QED
    BY <2>2 DEF IsSums, IsAccountSums
<1>5. IsAccountSums(h)
  <2>1. \E g : IsSums(g, ForAccount, Accounts)
    BY <1>2, SumsExist
  <2>2. \E g : IsAccountSums(g)
    BY <1>4, <2>1
  <2> QED
    BY <2>2
<1> HIDE DEF h
<1>6. SumsUp(h, ForAccount, Accounts)
  BY <1>4, <1>5, IsSumsUp
<1> QED
  BY <1>1, <1>2, <1>6, SumIsChosen

LEMMA AmountsAdd ==
    ASSUME ReconInvariant
    PROVE  \A w \in rows : Amount[w] = w.amount /\ Amount[w] \in Int
BY MoneyOf DEF Amount

Chosen(a, n) ==
    CHOOSE k \in {k \in history[<<a, n>>] : k.type = "IN"} : TRUE

LEMMA IncomingAre ==
    ASSUME ReconInvariant, NEW a \in Accounts
    PROVE  /\ IsFiniteSet(Incoming(a))
           /\ \A x \in Incoming(a) :
                 x[1] \in Numbers /\ x = <<x[1], Chosen(a, x[1])>>
           /\ \A n \in Numbers :
                 (\E k \in history[<<a, n>>] : k.type = "IN") =>
                    \E x \in Incoming(a) : x[1] = n
<1> DEFINE c == [n \in Numbers |-> <<n, Chosen(a, n)>>]
           im == {c[n] : n \in Numbers}
<1>1. \A x \in Incoming(a) :
         x[1] \in Numbers /\ x = <<x[1], Chosen(a, x[1])>>
  <2> SUFFICES ASSUME NEW x \in Incoming(a)
               PROVE  x[1] \in Numbers /\ x = <<x[1], Chosen(a, x[1])>>
    OBVIOUS
  <2>1. x \in Numbers \X Lines /\ x[2] = Chosen(a, x[1])
    BY DEF Incoming, Chosen
  <2> QED
    BY <2>1
<1>2. IsFiniteSet(im)
  <2>1. IsFiniteSet(Numbers)
    BY ReconConstants
  <2>2. c \in Surjection(Numbers, im)
    BY DEF Surjection
  <2> HIDE DEF c, im
  <2> QED
    BY <2>1, <2>2, FS_Surjection
<1>3. Incoming(a) \subseteq im
  <2> SUFFICES ASSUME NEW x \in Incoming(a) PROVE x \in im
    OBVIOUS
  <2>1. x[1] \in Numbers /\ x = c[x[1]]
    BY <1>1
  <2> HIDE DEF c
  <2> QED
    BY <2>1
<1>4. IsFiniteSet(Incoming(a))
  <2> HIDE DEF im
  <2> QED
    BY <1>2, <1>3, FS_Subset
<1>5. ASSUME NEW n \in Numbers, NEW k \in history[<<a, n>>], k.type = "IN"
      PROVE  \E x \in Incoming(a) : x[1] = n
  <2> DEFINE ins == {j \in history[<<a, n>>] : j.type = "IN"}
             y == CHOOSE j \in ins : TRUE
             x == <<n, y>>
           Shown(z) ==
              LET these == {j \in history[<<a, z[1]>>] : j.type = "IN"}
              IN  these # {} /\ z[2] = CHOOSE j \in these : TRUE
  <2>1. k \in ins
    BY <1>5
  <2>2. y \in ins
    BY <2>1
  <2>3. y \in Lines
    <3>1. history[<<a, n>>] \in SUBSET Lines
      BY DEF ReconInvariant, ReconTyped
    <3> QED
      BY <2>2, <3>1
  <2>4. x[1] = n /\ x[2] = y /\ x \in Numbers \X Lines
    <3> HIDE DEF y
    <3> QED
      BY <2>3
  <2>5. Shown(x)
    <3> HIDE DEF x
    <3> QED
      BY <2>1, <2>4
  <2>6. Incoming(a) = {z \in Numbers \X Lines : Shown(z)}
    BY Zenon DEF Incoming
  <2>7. x \in Incoming(a)
    <3> HIDE DEF Shown, x
    <3> QED
      BY <2>4, <2>5, <2>6
  <2> QED
    BY <2>4, <2>7
<1> QED
  BY <1>1, <1>4, <1>5

(* What the report says of an account is what its transfers were credited. *)
In(a) == {w \in rows : w.key[1] = "bank" /\ w.from[1] = a}

LEMMA AccountIs ==
    ASSUME ReconInvariant, NEW a \in Accounts
    PROVE  CreditedTo(a) = SumMap(Amount, In(a))
<1> DEFINE D == In(a)
           I == Incoming(a)
           P == [x \in I |-> Of(a, x[1])]
           g == ForLine(a)
<1>0. IsFiniteSet(rows)
  BY DEF ReconInvariant, ReconTyped
<1>1. IsFiniteSet(I) /\ IsFiniteSet(D) /\ D \in SUBSET rows
  BY <1>0, IncomingAre, FS_Subset DEF In
<1>2. \A x \in D : Amount[x] \in Int
  BY <1>1, AmountsAdd
<1>3. ASSUME NEW x \in I
      PROVE  P[x] \in SUBSET D /\ g[x] = SumMap(Amount, P[x])
  <2>1. x[1] \in Numbers
    BY IncomingAre
  <2>2. \A w \in Of(a, x[1]) : w \in D
    <3> SUFFICES ASSUME NEW w \in Of(a, x[1]) PROVE w \in D
      OBVIOUS
    <3>0. w \in rows /\ w.from = <<a, x[1]>>
      BY DEF Of
    <3>1. w \in rows /\ w.from = <<a, x[1]>> /\ w.from # <<>>
      BY <3>0
    <3>2. w.key[1] = "bank"
      BY <3>1, MoneyOf
    <3> QED
      BY <3>1, <3>2 DEF In
  <2>3. CreditedFor(a, x[1], x[2]) = SumAmounts(Of(a, x[1]))
    BY <2>1, CreditsAre DEF CreditedFor
  <2>4. SumAmounts(Of(a, x[1])) = SumMap(Amount, Of(a, x[1]))
    BY <1>0, AmountSum DEF Of
  <2>5. P[x] = Of(a, x[1]) /\ g[x] = CreditedFor(a, x[1], x[2])
    BY DEF ForLine
  <2> QED
    BY <2>2, <2>3, <2>4, <2>5
<1>4. \A x, y \in I : x # y => P[x] \cap P[y] = {}
  <2> SUFFICES ASSUME NEW x \in I, NEW y \in I, NEW w \in P[x] \cap P[y]
               PROVE  x = y
    OBVIOUS
  <2>1. w.from = <<a, x[1]>> /\ w.from = <<a, y[1]>>
    BY DEF Of
  <2>2. x[1] = y[1]
    BY <2>1
  <2>3. x = <<x[1], Chosen(a, x[1])>> /\ y = <<y[1], Chosen(a, y[1])>>
    BY IncomingAre
  <2> QED
    BY <2>2, <2>3
<1>5. \A w \in D : \E x \in I : w \in P[x]
  <2> SUFFICES ASSUME NEW w \in D PROVE \E x \in I : w \in P[x]
    OBVIOUS
  <2>1. w \in rows /\ w.key[1] = "bank" /\ w.from[1] = a
    BY DEF In
  <2>2. PICK b \in Accounts, n \in Numbers : \E l \in history[<<b, n>>] :
          l.type = "IN" /\ w.from = <<b, n>>
    BY <2>1, MoneyOf
  <2>3. a = b
    BY <2>1, <2>2
  <2>4. PICK x \in I : x[1] = n
    BY <2>2, <2>3, IncomingAre
  <2>5. w \in Of(a, x[1])
    BY <2>1, <2>2, <2>3, <2>4 DEF Of
  <2> QED
    BY <2>5
<1>6. CreditedTo(a) = SumMap(g, I)
  BY <1>1, LineSum
<1> HIDE DEF D, I, P, g
<1>7. SumMap(g, I) = SumMap(Amount, D)
  BY <1>1, <1>2, <1>3, <1>4, <1>5, SumByParts
<1> QED
  BY <1>6, <1>7 DEF D

LEMMA AccountsAddUp ==
    ASSUME ReconInvariant
    PROVE  MapThenSumSet(CreditedTo, Accounts)
             = SumAmounts({w \in rows : w.key[1] = "bank"})
<1> DEFINE D == {w \in rows : w.key[1] = "bank"}
           P == [a \in Accounts |-> In(a)]
           g == ForAccount
           I == Accounts
<1>0. IsFiniteSet(rows) /\ IsFiniteSet(I)
  BY ReconConstants DEF ReconInvariant, ReconTyped
<1>1. IsFiniteSet(D) /\ D \in SUBSET rows
  BY <1>0, FS_Subset
<1>2. \A x \in D : Amount[x] \in Int
  BY <1>1, AmountsAdd
<1>3. \A a \in I : P[a] \in SUBSET D /\ g[a] = SumMap(Amount, P[a])
  BY AccountIs DEF In, ForAccount
<1>4. \A a, b \in I : a # b => P[a] \cap P[b] = {}
  BY DEF In
<1>5. \A w \in D : \E a \in I : w \in P[a]
  <2> SUFFICES ASSUME NEW w \in D PROVE \E a \in I : w \in P[a]
    OBVIOUS
  <2>1. PICK b \in Accounts, n \in Numbers : w.from = <<b, n>>
    BY MoneyOf
  <2>2. w.from[1] = b
    BY <2>1
  <2>3. w \in In(b)
    BY <2>2 DEF In
  <2> QED
    BY <2>3
<1>6. SumAmounts(D) = SumMap(Amount, D)
  BY <1>0, <1>1, AmountSum
<1> HIDE DEF D, P, g, I
<1>7. SumMap(g, I) = SumMap(Amount, D)
  BY <1>0, <1>1, <1>2, <1>3, <1>4, <1>5, SumByParts
<1> QED
  BY <1>6, <1>7, AccountSum DEF D, g, I

(* A line without a doubt.                                                 *)
LEMMA LineIsSure ==
    ASSUME ReconInvariant, NEW a \in Accounts, NEW n \in Numbers,
           NEW l \in history[<<a, n>>]
    PROVE  LineStatus(a, n, l) # "AMOUNT_MISMATCH"
<1> SUFFICES ASSUME ~ Conflict(a, n)
             PROVE  CreditedFor(a, n, l) \in {0, l.amount}
  BY DEF LineStatus
<1>0. ReconTyped
  BY DEF ReconInvariant
<1> DEFINE C == Of(a, n)
<1>1. history[<<a, n>>] = {l}
  BY <1>0, OneLine
<1>2. C \in SUBSET rows
  BY DEF Of
<1>3. (\A w \in C : w.amount = l.amount) /\ \A w, v \in C : w = v
  BY <1>1, OneRow
<1>4. CreditedFor(a, n, l) = SumMap(Amount, C)
  BY <1>0, <1>2, CreditsAre, AmountSum DEF CreditedFor, ReconTyped
<1>5. \A w \in C : Amount[w] = l.amount /\ Amount[w] \in Int
  BY <1>2, <1>3, AmountsAdd
<1> HIDE DEF C
<1>6. CASE C = {}
  BY <1>4, <1>6, SumOfNone
<1>7. CASE C # {}
  <2> PICK w \in C : TRUE
    BY <1>7
  <2>1. C = {w}
    BY <1>3
  <2>2. SumMap(Amount, {w}) = Amount[w]
    BY <1>5, SumOfOne
  <2> QED
    BY <1>4, <1>5, <2>1, <2>2
<1> QED
  BY <1>6, <1>7

LEMMA HonestReport == ReconInvariant => ReportIsHonest
<1> SUFFICES ASSUME ReconInvariant PROVE ReportIsHonest
  OBVIOUS
<1>1. ASSUME NEW a \in Accounts, NEW n \in Numbers, NEW l
      PROVE  CreditedFor(a, n, l)
               = SumAmounts({w \in rows : w.from = <<a, n>>})
  BY CreditsAre DEF CreditedFor, Of
<1> QED
  BY <1>1, LineIsSure, AccountsAddUp DEF ReportIsHonest

(* What the report tells an operator is what the wallet did, where each    *)
(* account has a token of its own (bank-reconciliation.service.ts:268).    *)
THEOREM ReportIsOfTheWallet ==
    ASSUME ~MaySwap PROVE ReconSpec => []ReportIsHonest
<1>1. ReconInvariant /\ [ReconNext]_reconVars => ReconInvariant'
  BY ReconKeeps
<1> QED
  BY <1>1, ReconBegins, HonestReport, PTL DEF ReconSpec
=============================================================================
