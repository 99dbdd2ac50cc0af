----------------------------- MODULE AdminProofs -----------------------------
(***************************************************************************)
(* An administrator's session is one line of tokens, and what his screens  *)
(* show is what he asked for, for any number of requests, tokens, pages,   *)
(* customers and messages, and in whatever order the answers come.  The    *)
(* reports over orders agree with each other, for any orders, days and     *)
(* visits.                                                                 *)
(***************************************************************************)
EXTENDS AdminPage, AdminLists, MessageCenter, ReportCache, Insights,
        FiniteSums, FiniteSetTheorems, TLAPS

-----------------------------------------------------------------------------
(* The session.  The tokens that were issued are an initial part of        *)
(* Tokens, each given for the one before it, and only the newest may be    *)
(* live or in the hands of a request.                                      *)

Issued(i) == token[i] # "NONE"
Holds(c) == caller[c].step = "claimed"

Documents ==
    /\ token \in [Tokens -> {"NONE", "LIVE", "REVOKED", "EXPIRED"}]
    /\ parent \in [Tokens -> 0..MaxTokens]
    /\ caller \in [Callers -> [of: 0..MaxTokens,
                               step: {"idle", "read", "claimed"}]]
    /\ admitted \in BOOLEAN

(* Who read or claimed a token is about one that was issued; a claimed one *)
(* is used up.                                                             *)
AboutIssued ==
    \A c \in Callers :
        /\ caller[c].step # "idle" =>
              caller[c].of \in Tokens /\ Issued(caller[c].of)
        /\ Holds(c) => token[caller[c].of] = "REVOKED"

InOrder == \A i, j \in Tokens : j < i /\ Issued(i) => Issued(j)

Newest(i) == \A j \in Tokens : i < j => ~Issued(j)

(* The right to continue: a live token, or a request that claimed one.     *)
OnlyNewest ==
    /\ \A i \in Tokens : token[i] = "LIVE" => Newest(i)
    /\ \A c \in Callers : Holds(c) => Newest(caller[c].of)

OneRight ==
    /\ \A c, d \in Callers : Holds(c) /\ Holds(d) => c = d
    /\ \A c \in Callers : Holds(c) => \A i \in Tokens : token[i] # "LIVE"

Chain == \A i \in Tokens : parent[i] = IF Issued(i) THEN i - 1 ELSE 0

SessionInvariant ==
    Documents /\ AboutIssued /\ InOrder /\ OnlyNewest /\ OneRight /\ Chain

LEMMA TokensAreNumbers == Tokens \subseteq Nat \ {0} /\ 1 \in Tokens
BY SessionConstants, SMT DEF Tokens

LEMMA SessionBegins == SessionInit => SessionInvariant
BY SessionConstants, TokensAreNumbers, SMT
DEF SessionInit, SessionInvariant, Documents, AboutIssued, InOrder,
    OnlyNewest, OneRight, Chain, Issued, Holds, Newest, Waiting, Tokens

(* The next token is given for the one right before it.                    *)
LEMMA NextInLine ==
    ASSUME SessionInvariant, NEW c \in Callers, Holds(c),
           NEW i \in Tokens, Fresh(i)
    PROVE  caller[c].of = i - 1
<1>1. caller[c].of \in Tokens /\ Issued(caller[c].of) /\ Newest(caller[c].of)
  BY DEF SessionInvariant, AboutIssued, OnlyNewest, Holds
<1>2. ~(i < caller[c].of)
  BY <1>1 DEF SessionInvariant, InOrder, Fresh, Issued
<1>3. ~(caller[c].of < i - 1)
  <2>. SUFFICES ASSUME caller[c].of < i - 1 PROVE FALSE
    OBVIOUS
  <2>1. i - 1 \in Tokens /\ i - 1 < i
    BY <1>1, SessionConstants, SMT DEF Tokens
  <2>. QED  BY <2>1, <1>1 DEF Newest, Fresh, Issued
<1>4. caller[c].of # i
  BY <1>1 DEF Fresh, Issued
<1>. QED  BY <1>1, <1>2, <1>3, <1>4, TokensAreNumbers, SMT DEF Tokens

LEMMA OneLive ==
    ASSUME SessionInvariant, NEW i \in Tokens, NEW j \in Tokens,
           token[i] = "LIVE", token[j] = "LIVE"
    PROVE  i = j
<1>1. Newest(i) /\ Newest(j) /\ Issued(i) /\ Issued(j)
  BY DEF SessionInvariant, OnlyNewest, Issued
<1>2. ~(i < j) /\ ~(j < i)
  BY <1>1 DEF Newest
<1>. QED  BY <1>2, SMT DEF Tokens

LEMMA LoginKeeps ==
    ASSUME SessionInvariant, Login PROVE SessionInvariant'
<1>1. \A c \in Callers : caller[c].step = "idle"
  BY DEF SessionInvariant, AboutIssued, Login, Issued
<1>2. Documents'
  BY TokensAreNumbers, SMT DEF SessionInvariant, Documents, Login
<1>3. AboutIssued' /\ OneRight'
  BY <1>1 DEF AboutIssued, OneRight, Holds, Login
<1>4. (InOrder /\ OnlyNewest)'
  BY <1>1, TokensAreNumbers, SMT
  DEF SessionInvariant, Documents, InOrder, OnlyNewest, Newest, Issued,
      Holds, Login, Tokens
<1>5. Chain'
  BY TokensAreNumbers, SMT
  DEF SessionInvariant, Documents, Chain, Issued, Login
<1>. QED  BY <1>2, <1>3, <1>4, <1>5 DEF SessionInvariant

(* Tokens that are revoked or expire, and nothing else.                    *)
LEMMA UsingUpKeeps ==
    ASSUME SessionInvariant,
           token' \in [Tokens -> {"NONE", "LIVE", "REVOKED", "EXPIRED"}],
           \A i \in Tokens :
               token'[i] # token[i] => /\ token[i] = "LIVE"
                                       /\ token'[i] \in {"REVOKED", "EXPIRED"},
           admitted' \in BOOLEAN, UNCHANGED <<parent, caller>>
    PROVE  SessionInvariant'
<1>1. \A i \in Tokens : (Issued(i)' <=> Issued(i))
                        /\ (token'[i] = "LIVE" => token[i] = "LIVE")
  BY DEF Issued
<1>2. Documents'
  BY DEF SessionInvariant, Documents
<1>3. AboutIssued'
  BY <1>1 DEF SessionInvariant, AboutIssued, Holds
<1>4. (InOrder /\ OnlyNewest)'
  BY <1>1, <1>3 DEF SessionInvariant, AboutIssued, InOrder, OnlyNewest, Newest,
                    Holds
<1>5. OneRight' /\ Chain'
  BY <1>1 DEF SessionInvariant, OneRight, Chain, Holds
<1>. QED  BY <1>2, <1>3, <1>4, <1>5 DEF SessionInvariant

(* A request that takes up a live token, or gives up.                      *)
LEMMA TurningKeeps ==
    ASSUME SessionInvariant, NEW c \in Callers,
           NEW x \in [of: 0..MaxTokens, step: {"idle", "read"}],
           x.step = "read" => x.of \in Tokens /\ Issued(x.of),
           caller' = [caller EXCEPT ![c] = x],
           UNCHANGED <<token, parent, admitted>>
    PROVE  SessionInvariant'
<1>1. caller'[c] = x /\ \A d \in Callers : d # c => caller'[d] = caller[d]
  BY DEF SessionInvariant, Documents
<1>2. \A d \in Callers : Holds(d)' => Holds(d) /\ caller'[d] = caller[d]
  BY <1>1 DEF Holds
<1>3. Documents'
  BY DEF SessionInvariant, Documents
<1>4. AboutIssued'
  BY <1>1, <1>2 DEF SessionInvariant, AboutIssued, Issued, Holds
<1>5. (InOrder /\ OnlyNewest /\ OneRight /\ Chain)'
  BY <1>2 DEF SessionInvariant, InOrder, OnlyNewest, OneRight, Chain, Newest,
              Issued
<1>. QED  BY <1>3, <1>4, <1>5 DEF SessionInvariant

LEMMA PresentKeeps ==
    ASSUME SessionInvariant, NEW c \in Callers, NEW i \in Tokens,
           Present(c, i)
    PROVE  SessionInvariant'
<1>1. CASE token[i] = "LIVE" /\ admitted /\ Moves(c, i, "read")
           /\ UNCHANGED token
  <2> DEFINE x == [of |-> i, step |-> "read"]
  <2>1. /\ x \in [of: 0..MaxTokens, step: {"idle", "read"}]
        /\ x.of \in Tokens /\ Issued(x.of)
    BY <1>1, SMT DEF Tokens, Issued
  <2>2. caller' = [caller EXCEPT ![c] = x]
    BY <1>1 DEF Moves
  <2>3. UNCHANGED <<token, parent, admitted>>
    BY <1>1 DEF Present
  <2> HIDE DEF x
  <2>. QED  BY <2>1, <2>2, <2>3, TurningKeeps
<1>2. CASE token[i] = "REVOKED" /\ token' = Revoked /\ UNCHANGED caller
  BY <1>2, UsingUpKeeps DEF Present, Revoked, SessionInvariant, Documents
<1>. QED  BY <1>1, <1>2 DEF Present

LEMMA ClaimKeeps ==
    ASSUME SessionInvariant, NEW c \in Callers, Claim(c)
    PROVE  SessionInvariant'
<1> DEFINE i == caller[c].of
<1>0. i \in Tokens /\ Issued(i) /\ i \in 0..MaxTokens
  BY DEF SessionInvariant, AboutIssued, Documents, Claim
<1>1. CASE /\ StillUnused(i)
           /\ token' = [token EXCEPT ![i] = "REVOKED"]
           /\ Moves(c, i, "claimed")
  <2>1. /\ token'[i] = "REVOKED" /\ token[i] = "LIVE"
        /\ \A j \in Tokens : j # i => token'[j] = token[j]
    BY <1>0, <1>1 DEF SessionInvariant, Documents, StillUnused
  <2>2. /\ caller'[c] = [of |-> i, step |-> "claimed"]
        /\ \A d \in Callers : d # c => caller'[d] = caller[d]
    BY <1>1 DEF SessionInvariant, Documents, Moves
  <2>3. \A j \in Tokens : Issued(j)' <=> Issued(j)
    BY <2>1 DEF Issued
  <2>4. Newest(i) /\ \A d \in Callers : ~Holds(d)
    BY <1>0, <2>1 DEF SessionInvariant, OnlyNewest, OneRight
  <2>5. Documents'
    BY <1>0, <1>1 DEF SessionInvariant, Documents, Moves, Claim
  <2>6. AboutIssued'
    BY <1>0, <2>1, <2>2, <2>3, <2>4 DEF SessionInvariant, AboutIssued, Holds
  <2>7. InOrder' /\ Chain'
    BY <2>3, <1>1 DEF SessionInvariant, InOrder, Chain, Claim
  <2>8. OnlyNewest'
    BY <1>0, <2>1, <2>2, <2>3, <2>4
    DEF SessionInvariant, OnlyNewest, Newest, Holds
  <2>9. \A j \in Tokens : token[j] = "LIVE" => j = i
    BY <1>0, <2>1, OneLive
  <2>10. OneRight'
    BY <2>1, <2>2, <2>4, <2>9 DEF OneRight, Holds
  <2>. QED  BY <2>5, <2>6, <2>7, <2>8, <2>10 DEF SessionInvariant
<1>2. CASE /\ ~StillUnused(i) /\ token' = Revoked
           /\ caller' = [caller EXCEPT ![c] = Waiting]
  <2>1. /\ caller'[c] = Waiting
        /\ \A d \in Callers : d # c => caller'[d] = caller[d]
    BY <1>2 DEF SessionInvariant, Documents
  <2>2. \A d \in Callers : Holds(d)' => Holds(d) /\ caller'[d] = caller[d]
    BY <2>1 DEF Holds, Waiting
  <2>3. \A j \in Tokens : /\ Issued(j)' <=> Issued(j)
                          /\ token'[j] # "LIVE"
                          /\ token[j] = "REVOKED" => token'[j] = "REVOKED"
    BY <1>2 DEF Issued, Revoked
  <2>4. Documents'
    BY <1>2, SessionConstants
    DEF SessionInvariant, Documents, Revoked, Waiting, Claim
  <2>5. AboutIssued'
    BY <2>1, <2>2, <2>3 DEF SessionInvariant, AboutIssued, Holds,
                            Waiting
  <2>6. InOrder' /\ Chain'
    BY <2>3, <1>2 DEF SessionInvariant, InOrder, Chain, Claim
  <2>7. OnlyNewest'
    BY <2>2, <2>3, <2>5 DEF SessionInvariant, AboutIssued, OnlyNewest, Newest,
                            Holds
  <2>8. OneRight'
    BY <2>2, <2>3 DEF SessionInvariant, OneRight
  <2>. QED  BY <2>4, <2>5, <2>6, <2>7, <2>8 DEF SessionInvariant
<1>. QED  BY <1>1, <1>2 DEF Claim

LEMMA IssueKeeps ==
    ASSUME SessionInvariant, NEW c \in Callers, Issue(c)
    PROVE  SessionInvariant'
<1>. PICK i \in Tokens : /\ Fresh(i)
                         /\ token' = [token EXCEPT ![i] = "LIVE"]
                         /\ parent' = [parent EXCEPT ![i] = caller[c].of]
  BY DEF Issue
<1>1. /\ caller[c].of = i - 1 /\ caller[c].of \in 0..MaxTokens
      /\ Holds(c)
  BY NextInLine DEF Issue, Holds, SessionInvariant, Documents
<1>2. /\ token'[i] = "LIVE" /\ parent'[i] = i - 1
      /\ \A j \in Tokens : j # i => token'[j] = token[j]
                                    /\ parent'[j] = parent[j]
  BY <1>1 DEF SessionInvariant, Documents
<1>3. /\ caller'[c] = Waiting
      /\ \A d \in Callers : d # c => caller'[d] = caller[d]
  BY DEF SessionInvariant, Documents, Issue
<1>4. \A d \in Callers : ~Holds(d)'
  BY <1>1, <1>3 DEF SessionInvariant, OneRight, Holds, Waiting
<1>5. \A j \in Tokens : Issued(j)' <=> (Issued(j) \/ j = i)
  BY <1>2 DEF Issued
<1>6. \A j \in Tokens : j < i => Issued(j)
  BY DEF Fresh, Issued
<1>7. \A j \in Tokens : Issued(j) => j < i
  BY <1>1, TokensAreNumbers
  DEF SessionInvariant, InOrder, OnlyNewest, Newest, Issued, Fresh
<1>8. Documents'
  BY <1>1, SessionConstants
  DEF SessionInvariant, Documents, Issue, Waiting
<1>9. AboutIssued'
  BY <1>3, <1>4, <1>5 DEF SessionInvariant, AboutIssued, Waiting
<1>10. InOrder'
  BY <1>5, <1>6 DEF SessionInvariant, InOrder
<1>11. OnlyNewest' /\ OneRight'
  BY <1>1, <1>2, <1>4, <1>5, <1>7, TokensAreNumbers
  DEF SessionInvariant, OnlyNewest, OneRight, Newest
<1>12. Chain'
  BY <1>2, <1>5 DEF SessionInvariant, Chain
<1>. QED  BY <1>8, <1>9, <1>10, <1>11, <1>12 DEF SessionInvariant

(* The line of tokens is kept by every step of the sessions.               *)
LEMMA SessionKeeps ==
    SessionInvariant /\ [SessionNext]_sessionVars => SessionInvariant'
<1>. SUFFICES ASSUME SessionInvariant, [SessionNext]_sessionVars
              PROVE  SessionInvariant'
  OBVIOUS
<1>1. CASE Login
  BY <1>1, LoginKeeps
<1>2. CASE SuspendAdmin
  BY <1>2, UsingUpKeeps DEF SuspendAdmin, SessionInvariant, Documents
<1>3. ASSUME NEW i \in Tokens, Logout(i) \/ Expire(i)
      PROVE  SessionInvariant'
  BY <1>3, UsingUpKeeps DEF Logout, Expire, SessionInvariant, Documents
<1>4. ASSUME NEW c \in Callers, NEW i \in Tokens, Present(c, i)
      PROVE  SessionInvariant'
  BY <1>4, PresentKeeps
<1>5. ASSUME NEW c \in Callers, Claim(c) PROVE SessionInvariant'
  BY <1>5, ClaimKeeps
<1>6. ASSUME NEW c \in Callers, Issue(c) PROVE SessionInvariant'
  BY <1>6, IssueKeeps
<1>7. ASSUME NEW c \in Callers, RequestDies(c) PROVE SessionInvariant'
  <2>1. /\ Waiting \in [of: 0..MaxTokens, step: {"idle", "read"}]
        /\ Waiting.step # "read"
    BY SessionConstants DEF Waiting
  <2>2. /\ caller' = [caller EXCEPT ![c] = Waiting]
        /\ UNCHANGED <<token, parent, admitted>>
    BY <1>7 DEF RequestDies
  <2>. QED  BY <2>1, <2>2, TurningKeeps
<1>8. CASE UNCHANGED sessionVars
  BY <1>8, UsingUpKeeps DEF sessionVars, SessionInvariant, Documents
<1>. QED
  BY <1>1, <1>2, <1>3, <1>4, <1>5, <1>6, <1>7, <1>8 DEF SessionNext

LEMMA LineOfTokens == SessionInvariant => SessionIsLinear
<1>. SUFFICES ASSUME SessionInvariant PROVE SessionIsLinear
  OBVIOUS
<1> DEFINE holders == {c \in Callers : Holds(c)}
<1>1. Live = {} \/ \E i \in Tokens : Live = {i}
  BY OneLive DEF Live
<1>2. holders = {} \/ \E c \in Callers : holders = {c}
  BY DEF SessionInvariant, OneRight
<1>3. Live = {} \/ holders = {}
  BY DEF SessionInvariant, OneRight, Live
<1>4. Cardinality(Live) + Cardinality(holders) <= 1
  <2>1. Cardinality({}) = 0
    BY FS_EmptySet
  <2>2. \A x : Cardinality({x}) = 1
    BY FS_Singleton
  <2>3. Cardinality(Live) \in {0, 1} /\ Cardinality(holders) \in {0, 1}
    BY <1>1, <1>2, <2>1, <2>2
  <2>4. Cardinality(Live) = 0 \/ Cardinality(holders) = 0
    BY <1>3, <2>1
  <2>. HIDE DEF holders
  <2>. QED  BY <2>3, <2>4, SMT
<1>5. \A i, j \in Tokens : i # j /\ Issued(i) /\ Issued(j)
                           => parent[i] # parent[j]
  BY TokensAreNumbers DEF SessionInvariant, Chain
<1>. QED  BY <1>4, <1>5 DEF SessionIsLinear, Issued, Holds

(* However many requests present a token at once, at most one continues    *)
(* the session, and no token has two successors.  It does not say that a   *)
(* session that was revoked is over: a pair that is on its way then comes  *)
(* through, and is the only one (auth.service.ts:31-51).                   *)
THEOREM SessionLinear == SessionSpec => []SessionIsLinear
<1>1. SessionInvariant => SessionIsLinear
  BY LineOfTokens
<1>. QED  BY SessionBegins, SessionKeeps, <1>1, PTL DEF SessionSpec

-----------------------------------------------------------------------------
(* The page behind which the session is.                                   *)

(* What the page has, and what of it was issued.                           *)
PageTyped ==
    /\ cookie \in 0..MaxTokens /\ tokens \in 0..MaxTokens
    /\ outdated \subseteq Tokens /\ inFlight \subseteq Callers
    /\ leaving \subseteq Tokens
    /\ call \in [Calls -> [step : {"idle", "sent", "waits", "again"},
                           by : 0..MaxTokens, on : SUBSET Callers]]
    /\ answer \in [Callers -> NoAnswer..MaxTokens]

(* The cookie, the logouts and the answers on their way carry tokens that  *)
(* were issued.                                                            *)
OnlyIssued ==
    /\ cookie # 0 => Issued(cookie)
    /\ \A i \in leaving : Issued(i)
    /\ \A c \in Callers : answer[c] > 0 => Issued(answer[c])

(* A caller with an answer is not in the hands of the server.              *)
AnsweredIsOver ==
    \A c \in Callers : answer[c] # NoAnswer => caller[c] = Waiting

(* A page that nothing disturbed refreshes once at a time, waits for no    *)
(* request of a page before it, and has left when a logout is on its way.  *)
Orderly ==
    /\ \A c, d \in inFlight : c = d
    /\ \A c \in Callers \ inFlight : caller[c] = Waiting
                                     /\ answer[c] = NoAnswer
    /\ leaving # {} => tokens = 0 /\ inFlight = {} /\ ~mounting
    /\ mounting => inFlight = {} /\ \A k \in Calls : call[k] = NotCalling
    /\ tokens = 0 => \A k \in Calls : call[k] = NotCalling

(* What it holds, reads and is answered is the newest token.               *)
HoldsNewest ==
    /\ tokens = 0 /\ leaving = {} => cookie = 0
    /\ tokens # 0 => /\ cookie = tokens
                     /\ (\A c \in inFlight : answer[c] <= 0) => Newest(tokens)
    /\ \A c \in inFlight : /\ caller[c].step = "read" => Newest(caller[c].of)
                           /\ answer[c] > 0 => Newest(answer[c])

(* Unless something disturbed the page, it goes on in the session it has.  *)
PageInvariant ==
    /\ SessionInvariant /\ PageTyped /\ OnlyIssued /\ AnsweredIsOver
    /\ ~disturbed => ~cutOff /\ Orderly /\ HoldsNewest

-----------------------------------------------------------------------------

LEMMA PageTypes == PageInvariant => PageTypeOK
BY DEF PageInvariant, PageTyped, PageTypeOK

LEMMA PageIsRight == PageInvariant => PageKeepsItsSession
BY DEF PageInvariant, HoldsNewest, PageKeepsItsSession, Newest, Issued

LEMMA PageInitInvariant == SessionInit /\ PageInit => PageInvariant
<1> SUFFICES ASSUME SessionInit, PageInit PROVE PageInvariant
    OBVIOUS
<1>1. SessionInvariant
    BY SessionBegins
<1>2. PageTyped
    <2>1. /\ NotCalling \in [step : {"idle", "sent", "waits", "again"},
                             by : 0..MaxTokens, on : SUBSET Callers]
          /\ NoAnswer \in NoAnswer..MaxTokens /\ 0 \in 0..MaxTokens
        BY SessionConstants DEF NotCalling, NoAnswer
    <2> QED
        BY <2>1 DEF PageInit, PageTyped
<1>3. OnlyIssued /\ AnsweredIsOver
    BY DEF PageInit, OnlyIssued, AnsweredIsOver, NoAnswer
<1>4. ~cutOff /\ Orderly /\ HoldsNewest
    BY DEF PageInit, SessionInit, Orderly, HoldsNewest
<1> QED
    BY <1>1, <1>2, <1>3, <1>4 DEF PageInvariant

(* Where the newest token is not live none is, and revoking them all       *)
(* changes nothing.                                                        *)
LEMMA NothingToRevoke ==
    ASSUME SessionInvariant, NEW i \in Tokens, Issued(i), Newest(i),
           token[i] # "LIVE"
    PROVE  Revoked = token
<1>1. ASSUME NEW j \in Tokens, token[j] = "LIVE" PROVE FALSE
    <2>1. Newest(j) /\ Issued(j) /\ i # j
        BY <1>1 DEF SessionInvariant, OnlyNewest, Issued
    <2> QED
        BY <2>1, TokensAreNumbers DEF Newest
<1>2. token = [j \in Tokens |-> token[j]]
    BY DEF SessionInvariant, Documents
<1> QED
    BY <1>1, <1>2 DEF Revoked

(* The tokens that were issued remain so.                                  *)
LEMMA IssuedStay ==
    ASSUME SessionInvariant,
           token' \in {token, Revoked}
              \/ \E i \in Tokens, to \in {"REVOKED", "EXPIRED"} :
                    token[i] = "LIVE" /\ token' = [token EXCEPT ![i] = to]
    PROVE  /\ \A i : i \in Tokens => (Issued(i)' <=> Issued(i))
           /\ \A i : Newest(i)' <=> Newest(i)
<1>1. \A i \in Tokens : Issued(i)' <=> Issued(i)
    BY DEF SessionInvariant, Documents, Issued, Revoked
<1>2. ASSUME NEW i PROVE Newest(i)' <=> Newest(i)
    BY <1>1 DEF Newest
<1> QED
    BY <1>1, <1>2

(* Session and refreshes stay, whatever the page holds.                    *)
LEMMA HoldingStill ==
    ASSUME HoldsNewest, UNCHANGED <<token, caller, cookie, tokens, inFlight,
                                    answer, leaving>>
    PROVE  HoldsNewest'
BY DEF HoldsNewest, Newest, Issued

LEMMA IssuedStill ==
    ASSUME OnlyIssued, UNCHANGED <<token, cookie, answer>>,
           leaving' \subseteq leaving \cup ({cookie} \ {0})
    PROVE  OnlyIssued'
BY DEF OnlyIssued, Issued

LEMMA SessionStill ==
    ASSUME SessionInvariant, UNCHANGED sessionVars
    PROVE  SessionInvariant'
BY SessionKeeps

CallRecords == [step : {"idle", "sent", "waits", "again"}, by : 0..MaxTokens,
                on : SUBSET Callers]

LEMMA EnterInvariant ==
    ASSUME PageInvariant, EnterPage
    PROVE  PageInvariant'
<1>1. /\ \A i \in Tokens : ~Issued(i)
      /\ token' = [token EXCEPT ![1] = "LIVE"] /\ 1 \in Tokens
      /\ cookie' = 1 /\ tokens' = 1 /\ ~mounting
      /\ UNCHANGED <<caller, outdated, call, inFlight, answer, leaving, loads,
                     mounting, disturbed, cutOff>>
    BY TokensAreNumbers DEF EnterPage, Login, Issued
<1>2. SessionInvariant'
    BY LoginKeeps DEF EnterPage, PageInvariant
<1>3. PageTyped'
    BY <1>1, SessionConstants DEF PageInvariant, PageTyped, Tokens
<1>4. /\ leaving = {} /\ \A c \in Callers : ~(answer[c] > 0)
      /\ \A c \in Callers : caller[c].step = "idle"
    <2>1. ASSUME NEW c \in Callers, answer[c] > 0 PROVE FALSE
        <3>1. answer[c] \in Tokens
            BY <2>1, SessionConstants
            DEF PageInvariant, PageTyped, NoAnswer, Tokens
        <3> QED
            BY <1>1, <2>1, <3>1 DEF PageInvariant, OnlyIssued
    <2> QED
        BY <1>1, <2>1 DEF PageInvariant, PageTyped, OnlyIssued,
           SessionInvariant, AboutIssued
<1>5. Issued(1)' /\ Newest(1)'
    <2>1. token'[1] = "LIVE"
        BY <1>1 DEF PageInvariant, SessionInvariant, Documents
    <2> QED
        BY <1>1, <1>2, <2>1 DEF SessionInvariant, OnlyNewest, Issued
<1>6. OnlyIssued' /\ AnsweredIsOver'
    BY <1>1, <1>4, <1>5 DEF PageInvariant, OnlyIssued, AnsweredIsOver
<1>7. ~disturbed => ~cutOff' /\ Orderly'
    BY <1>1, <1>4 DEF PageInvariant, Orderly
<1>8. HoldsNewest'
    BY <1>1, <1>4, <1>5 DEF HoldsNewest, PageInvariant, PageTyped
<1> QED
    BY <1>1, <1>2, <1>3, <1>6, <1>7, <1>8 DEF PageInvariant

LEMMA CallInvariant ==
    ASSUME PageInvariant, NEW k \in Calls, SendCall(k) \/ CallReturns(k)
    PROVE  PageInvariant'
<1>1. /\ UNCHANGED <<sessionVars, cookie, tokens, outdated, inFlight, answer,
                     leaving, loads, mounting, disturbed, cutOff>>
      /\ UNCHANGED <<token, parent, caller, admitted>>
    BY DEF SendCall, CallReturns, sessionVars
<1>2. PICK x \in CallRecords :
         /\ call' = [call EXCEPT ![k] = x]
         /\ x # NotCalling => tokens # 0 /\ ~mounting
    <2>1. CASE CallReturns(k)
        <3>1. NotCalling \in CallRecords
            BY SessionConstants DEF NotCalling, CallRecords
        <3> QED
            BY <2>1, <3>1 DEF CallReturns
    <2>2. CASE SendCall(k)
        <3> DEFINE x == [NotCalling EXCEPT !.step = "sent", !.by = tokens]
        <3>1. /\ NotCalling \in CallRecords
              /\ tokens \in 0..MaxTokens
            BY SessionConstants
            DEF NotCalling, CallRecords, PageInvariant, PageTyped
        <3>2. x \in CallRecords
            <4>1. [NotCalling EXCEPT !.step = "sent"] \in CallRecords
                BY <3>1 DEF CallRecords
            <4> QED
                BY <3>1, <4>1 DEF CallRecords
        <3>3. call' = [call EXCEPT ![k] = x] /\ tokens # 0 /\ ~mounting
            BY <2>2 DEF SendCall
        <3> QED
            BY <3>2, <3>3
    <2> QED
        BY <2>1, <2>2
<1>3. SessionInvariant' /\ OnlyIssued' /\ AnsweredIsOver'
    BY <1>1, SessionStill, IssuedStill DEF PageInvariant, AnsweredIsOver
<1>4. PageTyped'
    BY <1>1, <1>2 DEF PageInvariant, PageTyped, CallRecords
<1>5. ~disturbed => ~cutOff' /\ Orderly' /\ HoldsNewest'
    <2>1. /\ call'[k] = x
          /\ \A j \in Calls \ {k} : call'[j] = call[j]
        BY <1>2 DEF PageInvariant, PageTyped
    <2>2. ~disturbed => Orderly'
        BY <1>1, <1>2, <2>1 DEF PageInvariant, Orderly
    <2> QED
        BY <1>1, <2>2, HoldingStill DEF PageInvariant
<1> QED
    BY <1>1, <1>3, <1>4, <1>5 DEF PageInvariant

LEMMA AccessInvariant ==
    ASSUME PageInvariant, AccessExpires
    PROVE  PageInvariant'
<1>1. /\ outdated' = outdated \cup {tokens} /\ tokens # 0
      /\ UNCHANGED <<token, parent, caller, admitted, cookie, tokens, call,
                     inFlight, answer, leaving, loads, mounting, disturbed,
                     cutOff>>
      /\ UNCHANGED sessionVars
    BY DEF AccessExpires, sessionVars
<1>2. tokens \in Tokens
    BY <1>1 DEF PageInvariant, PageTyped, Tokens
<1>3. SessionInvariant' /\ OnlyIssued' /\ AnsweredIsOver' /\ PageTyped'
    BY <1>1, <1>2, SessionStill, IssuedStill
    DEF PageInvariant, AnsweredIsOver, PageTyped
<1>4. ~disturbed => ~cutOff' /\ Orderly' /\ HoldsNewest'
    BY <1>1, HoldingStill DEF PageInvariant, Orderly
<1> QED
    BY <1>1, <1>3, <1>4 DEF PageInvariant

(* A refresh begins, of a page whose cookie, when nothing disturbed it, is *)
(* none or the newest token.                                               *)
LEMMA StartIs ==
    ASSUME PageInvariant, NEW c \in Callers, StartRefresh(c)
    PROVE  /\ SessionInvariant' /\ answer' \in [Callers -> NoAnswer..MaxTokens]
           /\ inFlight' = inFlight \cup {c}
           /\ caller[c] = Waiting /\ answer[c] = NoAnswer /\ c \notin inFlight
           /\ \A i \in Tokens : Issued(i)' <=> Issued(i)
           /\ \A i : Newest(i)' <=> Newest(i)
           /\ \A d \in Callers \ {c} : /\ caller'[d] = caller[d]
                                       /\ answer'[d] = answer[d]
           /\ answer'[c] \in {0, NoAnswer}
           /\ answer'[c] # NoAnswer => caller'[c] = Waiting
           /\ caller'[c].step = "read" => caller'[c].of = cookie
           /\ ~cutOff /\ (cookie = 0 \/ Newest(cookie)) => ~cutOff'
<1>1. /\ inFlight' = inFlight \cup {c} /\ caller[c] = Waiting
      /\ answer[c] = NoAnswer /\ c \notin inFlight
    BY DEF StartRefresh, Free
<1>2. /\ SessionInvariant /\ caller \in [Callers -> [of: 0..MaxTokens,
                                        step: {"idle", "read", "claimed"}]]
      /\ answer \in [Callers -> NoAnswer..MaxTokens]
      /\ 0 \in NoAnswer..MaxTokens /\ 0 # NoAnswer
    BY SessionConstants
    DEF PageInvariant, PageTyped, SessionInvariant, Documents, NoAnswer
<1>3. CASE Unusable /\ Refused(c) /\ UNCHANGED <<sessionVars, cutOff>>
    <2>1. UNCHANGED <<token, caller>> /\ answer' = [answer EXCEPT ![c] = 0]
        BY <1>3 DEF sessionVars, Refused
    <2>2. SessionInvariant'
        BY <1>2, <1>3, SessionStill
    <2>3. Waiting.step # "read"
        BY DEF Waiting
    <2> QED
        BY <1>1, <1>2, <1>3, <2>1, <2>2, <2>3, IssuedStay
<1>4. CASE /\ ~Unusable /\ Present(c, cookie)
           /\ cutOff' = (cutOff \/ token' # token)
           /\ IF caller' = caller THEN Refused(c) ELSE UNCHANGED answer
    <2>1. cookie \in Tokens
        BY <1>4 DEF Unusable, PageInvariant, PageTyped, Tokens
    <2>2. SessionInvariant'
        BY <1>2, <1>4, <2>1, PresentKeeps
    <2>3. CASE /\ token[cookie] = "LIVE" /\ Moves(c, cookie, "read")
               /\ UNCHANGED token
        <3>1. /\ caller'[c] = [of |-> cookie, step |-> "read"]
              /\ \A d \in Callers \ {c} : caller'[d] = caller[d]
              /\ caller' # caller
            BY <1>1, <1>2, <2>3 DEF Moves, Waiting
        <3>2. UNCHANGED answer
            BY <1>4, <3>1
        <3>3. ~cutOff => ~cutOff'
            BY <1>4, <2>3
        <3> QED
            BY <1>1, <1>2, <2>2, <2>3, <3>1, <3>2, <3>3, IssuedStay
    <2>4. CASE token[cookie] = "REVOKED" /\ token' = Revoked
               /\ UNCHANGED caller
        <3>1. answer' = [answer EXCEPT ![c] = 0]
            BY <1>4, <2>4 DEF Refused
        <3>2. cookie # 0 /\ Issued(cookie) /\ token[cookie] # "LIVE"
            BY <2>1, <2>4, TokensAreNumbers DEF Issued
        <3>3. Newest(cookie) => Revoked = token
            BY <1>2, <2>1, <3>2, NothingToRevoke
        <3>4. ~cutOff /\ Newest(cookie) => ~cutOff'
            BY <1>4, <2>4, <3>3
        <3>5. Waiting.step # "read"
            BY DEF Waiting
        <3> QED
            BY <1>1, <1>2, <2>2, <2>4, <3>1, <3>2, <3>4, <3>5, IssuedStay
    <2> QED
        BY <1>4, <2>3, <2>4 DEF Present
<1> QED
    BY <1>3, <1>4 DEF StartRefresh

LEMMA BeginsInvariant ==
    ASSUME PageInvariant, NEW c \in Callers, StartRefresh(c),
           call' \in [Calls -> CallRecords],
           ~disturbed => /\ inFlight = {} /\ leaving = {} /\ ~mounting'
                         /\ tokens = 0 =>
                               \A k \in Calls : call'[k] = NotCalling,
           UNCHANGED <<cookie, tokens, outdated, leaving, disturbed>>
    PROVE  PageInvariant'
<1>1. /\ SessionInvariant' /\ answer' \in [Callers -> NoAnswer..MaxTokens]
      /\ inFlight' = inFlight \cup {c}
      /\ caller[c] = Waiting /\ answer[c] = NoAnswer /\ c \notin inFlight
      /\ \A i \in Tokens : Issued(i)' <=> Issued(i)
      /\ \A i : Newest(i)' <=> Newest(i)
      /\ \A d \in Callers \ {c} : /\ caller'[d] = caller[d]
                                  /\ answer'[d] = answer[d]
      /\ answer'[c] \in {0, NoAnswer}
      /\ answer'[c] # NoAnswer => caller'[c] = Waiting
      /\ caller'[c].step = "read" => caller'[c].of = cookie
      /\ ~cutOff /\ (cookie = 0 \/ Newest(cookie)) => ~cutOff'
    BY StartIs
<1>2. PageTyped'
    BY <1>1 DEF PageInvariant, PageTyped, CallRecords
<1>3. ~(answer'[c] > 0) /\ NoAnswer < 0
    BY <1>1 DEF NoAnswer
<1>4. OnlyIssued'
    <2>1. cookie # 0 => cookie \in Tokens
        BY DEF PageInvariant, PageTyped, Tokens
    <2>2. ASSUME NEW d \in Callers, answer'[d] > 0
          PROVE  Issued(answer[d])'
        <3>1. d # c /\ answer'[d] = answer[d] /\ Issued(answer[d])
            BY <1>1, <1>3, <2>2 DEF PageInvariant, OnlyIssued
        <3>2. answer[d] \in Tokens
            BY <2>2, <3>1, SessionConstants
            DEF PageInvariant, PageTyped, NoAnswer, Tokens
        <3> QED
            BY <1>1, <3>1, <3>2 DEF Issued
    <2> QED
        BY <1>1, <2>1, <2>2
        DEF PageInvariant, PageTyped, OnlyIssued, Issued
<1>5. AnsweredIsOver'
    BY <1>1 DEF PageInvariant, AnsweredIsOver
<1>6. ASSUME ~disturbed PROVE ~cutOff' /\ Orderly' /\ HoldsNewest'
    <2>1. /\ inFlight = {} /\ inFlight' = {c} /\ leaving' = {}
          /\ ~mounting'
        BY <1>1, <1>6
    <2>2. Orderly'
        BY <1>1, <1>6, <2>1 DEF PageInvariant, Orderly
    <2>3. cookie = 0 \/ Newest(cookie)
        BY <1>6, <2>1 DEF PageInvariant, HoldsNewest
    <2>4. caller'[c].step = "read" => Newest(cookie)
        <3>1. ASSUME cookie = 0, caller'[c].step = "read" PROVE FALSE
            BY <1>1, <3>1, TokensAreNumbers
            DEF SessionInvariant, AboutIssued, Tokens
        <3> QED
            BY <2>3, <3>1
    <2>5. tokens # 0 => cookie = tokens /\ Newest(tokens)
        BY <1>6, <2>1 DEF PageInvariant, HoldsNewest
    <2>6. HoldsNewest'
        <3>1. tokens = 0 /\ leaving = {} => cookie = 0
            BY <1>6 DEF PageInvariant, HoldsNewest
        <3>2. ASSUME NEW d \in inFlight'
              PROVE  /\ caller'[d].step = "read" => Newest(caller[d].of)'
                     /\ ~(answer'[d] > 0)
            <4>1. d = c
                BY <2>1
            <4>2. caller'[c].step = "read" => Newest(caller'[c].of)
                BY <1>1, <2>4
            <4> QED
                BY <1>1, <1>3, <4>1, <4>2 DEF Newest
        <3> QED
            BY <1>1, <2>5, <3>1, <3>2 DEF HoldsNewest
    <2> QED
        BY <1>1, <1>6, <2>2, <2>3, <2>6 DEF PageInvariant
<1> QED
    BY <1>1, <1>2, <1>4, <1>5, <1>6 DEF PageInvariant

LEMMA RefusedInvariant ==
    ASSUME PageInvariant, NEW k \in Calls, CallRefused(k)
    PROVE  PageInvariant'
<1>1. /\ call[k].step = "sent" /\ call[k].step # "idle"
      /\ UNCHANGED <<cookie, tokens, outdated, leaving, loads, mounting,
                     disturbed>>
    BY DEF CallRefused
<1>2. ~disturbed => tokens # 0 /\ ~mounting /\ leaving = {}
    <2>1. call[k] # NotCalling
        BY <1>1 DEF NotCalling
    <2> QED
        BY <2>1 DEF PageInvariant, Orderly
<1> DEFINE Waits(on) == [call EXCEPT ![k].step = "waits", ![k].on = on]
<1>3. ASSUME NEW on \in SUBSET Callers
      PROVE  Waits(on) \in [Calls -> CallRecords]
    <2>1. call[k] \in CallRecords /\ call \in [Calls -> CallRecords]
        BY DEF PageInvariant, PageTyped, CallRecords
    <2>2. PICK x \in CallRecords :
             x = [call[k] EXCEPT !.step = "waits", !.on = on]
        BY <2>1 DEF CallRecords
    <2>3. Waits(on) = [call EXCEPT ![k] = x]
        BY <2>2
    <2> QED
        BY <2>1, <2>3
<1>6. \/ /\ MayShare /\ call' = Waits(inFlight)
         /\ UNCHANGED <<sessionVars, inFlight, answer, cutOff>>
      \/ /\ ~MayShare
         /\ \E c \in Callers : StartRefresh(c) /\ call' = Waits({c})
    BY DEF CallRefused
<1> HIDE DEF Waits
<1>4. CASE /\ MayShare /\ call' = Waits(inFlight)
           /\ UNCHANGED <<sessionVars, inFlight, answer, cutOff>>
    <2>1. UNCHANGED <<token, caller>>
        BY <1>4 DEF sessionVars
    <2>2. SessionInvariant' /\ OnlyIssued' /\ AnsweredIsOver'
        BY <1>1, <1>4, <2>1, SessionStill, IssuedStill
        DEF PageInvariant, AnsweredIsOver
    <2>3. PageTyped'
        BY <1>1, <1>3, <1>4 DEF PageInvariant, PageTyped, CallRecords
    <2>4. ~disturbed => ~cutOff' /\ Orderly' /\ HoldsNewest'
        BY <1>1, <1>2, <1>4, <2>1, HoldingStill DEF PageInvariant, Orderly
    <2> QED
        BY <1>1, <2>2, <2>3, <2>4 DEF PageInvariant
<1>5. ASSUME ~MayShare, NEW c \in Callers, StartRefresh(c),
             call' = Waits({c})
      PROVE  PageInvariant'
    <2>1. inFlight = {} /\ call' \in [Calls -> CallRecords]
        BY <1>3, <1>5 DEF MayShare
    <2> QED
        BY <1>1, <1>2, <1>5, <2>1, BeginsInvariant
<1> QED
    BY <1>4, <1>5, <1>6

LEMMA RestoreInvariant ==
    ASSUME PageInvariant, Restore
    PROVE  PageInvariant'
<1>1. /\ mounting /\ ~mounting'
      /\ UNCHANGED <<cookie, tokens, outdated, call, leaving, loads,
                     disturbed>>
    BY DEF Restore
<1>2. ~disturbed => inFlight = {} /\ leaving = {}
                    /\ \A k \in Calls : call[k] = NotCalling
    BY <1>1 DEF PageInvariant, Orderly
<1>3. CASE UNCHANGED <<sessionVars, inFlight, answer, cutOff>>
    <2>1. UNCHANGED <<token, caller>>
        BY <1>3 DEF sessionVars
    <2>2. SessionInvariant' /\ OnlyIssued' /\ AnsweredIsOver'
        BY <1>1, <1>3, <2>1, SessionStill, IssuedStill
        DEF PageInvariant, AnsweredIsOver
    <2>3. PageTyped'
        BY <1>1, <1>3 DEF PageInvariant, PageTyped
    <2>4. ~disturbed => ~cutOff' /\ Orderly' /\ HoldsNewest'
        BY <1>1, <1>3, <2>1, HoldingStill DEF PageInvariant, Orderly
    <2> QED
        BY <1>1, <2>2, <2>3, <2>4 DEF PageInvariant
<1>4. ASSUME NEW c \in Callers, StartRefresh(c)
      PROVE  PageInvariant'
    <2>1. call' \in [Calls -> CallRecords]
        BY <1>1 DEF PageInvariant, PageTyped, CallRecords
    <2> QED
        BY <1>1, <1>2, <1>4, <2>1, BeginsInvariant
<1> QED
    BY <1>3, <1>4 DEF Restore

LEMMA ReloadInvariant ==
    ASSUME PageInvariant, Reload
    PROVE  PageInvariant'
<1>1. /\ inFlight' = {} /\ call' = [k \in Calls |-> NotCalling]
      /\ UNCHANGED <<token, parent, caller, admitted, cookie, tokens,
                     outdated, answer, leaving, cutOff>>
      /\ UNCHANGED sessionVars
      /\ ~disturbed' => ~disturbed /\ inFlight = {} /\ leaving = {}
    BY DEF Reload, sessionVars
<1>2. SessionInvariant' /\ OnlyIssued' /\ AnsweredIsOver'
    BY <1>1, SessionStill, IssuedStill DEF PageInvariant, AnsweredIsOver
<1>3. PageTyped'
    <2>1. NotCalling \in CallRecords
        BY SessionConstants DEF NotCalling, CallRecords
    <2> QED
        BY <1>1, <2>1 DEF PageInvariant, PageTyped, CallRecords
<1>4. ASSUME ~disturbed' PROVE ~cutOff' /\ Orderly' /\ HoldsNewest'
    <2>1. inFlight' = inFlight
        BY <1>1, <1>4
    <2>2. HoldsNewest'
        BY <1>1, <1>4, <2>1, HoldingStill DEF PageInvariant
    <2> QED
        BY <1>1, <1>4, <2>2 DEF PageInvariant, Orderly
<1> QED
    BY <1>2, <1>3, <1>4 DEF PageInvariant

(* Tokens are used up, and no request moves.                               *)
LEMMA UsedUp ==
    ASSUME PageInvariant, NEW i \in Tokens, NEW to \in {"REVOKED", "EXPIRED"},
           token[i] = "LIVE", token' = [token EXCEPT ![i] = to],
           UNCHANGED <<parent, caller, admitted>>
    PROVE  /\ SessionInvariant'
           /\ \A j : j \in Tokens => (Issued(j)' <=> Issued(j))
           /\ \A j : Newest(j)' <=> Newest(j)
<1>1. SessionInvariant
    BY DEF PageInvariant
<1>2. /\ token' \in [Tokens -> {"NONE", "LIVE", "REVOKED", "EXPIRED"}]
      /\ \A j \in Tokens : token'[j] # token[j] => j = i /\ token'[j] = to
      /\ admitted' \in BOOLEAN
    BY <1>1 DEF SessionInvariant, Documents
<1>3. SessionInvariant'
    BY <1>1, <1>2, UsingUpKeeps
<1> QED
    BY <1>1, <1>3, IssuedStay

LEMMA EndsInvariant ==
    ASSUME PageInvariant, SessionEnds
    PROVE  PageInvariant'
<1>1. PICK i \in Tokens : Expire(i)
    BY DEF SessionEnds
<1>2. /\ SessionInvariant'
      /\ \A j : j \in Tokens => (Issued(j)' <=> Issued(j))
      /\ \A j : Newest(j)' <=> Newest(j)
    BY <1>1, UsedUp DEF Expire
<1>3. /\ UNCHANGED <<cookie, tokens, outdated, call, inFlight, answer,
                     leaving, loads, mounting, disturbed, cutOff>>
      /\ UNCHANGED caller
    BY <1>1 DEF SessionEnds, pageVars, Expire
<1>4. PageTyped' /\ AnsweredIsOver' /\ (Orderly => Orderly')
    BY <1>3 DEF PageInvariant, PageTyped, AnsweredIsOver, Orderly
<1>5. OnlyIssued'
    <2>1. \A j \in 0..MaxTokens : j # 0 => j \in Tokens
        BY SessionConstants DEF Tokens
    <2>2. ASSUME NEW c \in Callers, answer[c] > 0 PROVE answer[c] \in Tokens
        BY <2>2, SessionConstants
        DEF PageInvariant, PageTyped, NoAnswer, Tokens
    <2>3. cookie # 0 => Issued(cookie)'
        BY <1>2, <1>3, <2>1 DEF PageInvariant, PageTyped, OnlyIssued, Issued
    <2>4. \A j \in leaving : Issued(j)'
        BY <1>2, <1>3 DEF PageInvariant, PageTyped, OnlyIssued
    <2>5. \A c \in Callers : answer[c] > 0 => Issued(answer[c])'
        BY <1>2, <1>3, <2>2 DEF PageInvariant, OnlyIssued, Issued
    <2> QED
        BY <1>3, <2>3, <2>4, <2>5 DEF OnlyIssued, Issued
<1>6. HoldsNewest => HoldsNewest'
    BY <1>2, <1>3 DEF HoldsNewest, Newest
<1> QED
    BY <1>2, <1>3, <1>4, <1>5, <1>6 DEF PageInvariant

LEMMA LogoutInvariant ==
    ASSUME PageInvariant, NEW i \in Tokens, LogoutArrives(i)
    PROVE  PageInvariant'
<1>1. /\ i \in leaving /\ leaving' = leaving \ {i} /\ cookie' = 0
      /\ UNCHANGED <<tokens, outdated, call, inFlight, answer, loads,
                     mounting, disturbed, cutOff>>
    BY DEF LogoutArrives
<1>2. /\ SessionInvariant' /\ UNCHANGED caller
      /\ \A j : j \in Tokens => (Issued(j)' <=> Issued(j))
    <2>1. CASE Logout(i)
        BY <2>1, UsedUp DEF Logout
    <2>2. CASE UNCHANGED sessionVars
        BY <2>2, SessionStill DEF PageInvariant, sessionVars, Issued
    <2> QED
        BY <2>1, <2>2 DEF LogoutArrives
<1>3. PageTyped' /\ AnsweredIsOver'
    BY <1>1, <1>2, SessionConstants
    DEF PageInvariant, PageTyped, AnsweredIsOver
<1>4. OnlyIssued'
    <2>1. ASSUME NEW c \in Callers, answer[c] > 0 PROVE answer[c] \in Tokens
        BY <2>1, SessionConstants
        DEF PageInvariant, PageTyped, NoAnswer, Tokens
    <2>2. \A j \in leaving : Issued(j)'
        BY <1>2 DEF PageInvariant, PageTyped, OnlyIssued
    <2>3. \A c \in Callers : answer[c] > 0 => Issued(answer[c])'
        BY <1>1, <1>2, <2>1 DEF PageInvariant, OnlyIssued, Issued
    <2> QED
        BY <1>1, <2>2, <2>3 DEF OnlyIssued, Issued
<1>5. ~disturbed => ~cutOff' /\ Orderly' /\ HoldsNewest'
    <2>1. ~disturbed => ~cutOff /\ Orderly /\ tokens = 0 /\ inFlight = {}
        BY <1>1 DEF PageInvariant, Orderly
    <2>2. ~disturbed => Orderly'
        BY <1>1, <1>2, <2>1 DEF Orderly
    <2> QED
        BY <1>1, <2>1, <2>2 DEF HoldsNewest
<1> QED
    BY <1>1, <1>2, <1>3, <1>4, <1>5 DEF PageInvariant

LEMMA LeaveInvariant ==
    ASSUME PageInvariant, LeavePage
    PROVE  PageInvariant'
<1>1. /\ tokens' = 0 /\ leaving' = leaving \cup ({cookie} \ {0})
      /\ ~mounting
      /\ UNCHANGED <<sessionVars, cookie, outdated, call, inFlight, answer,
                     loads, mounting, cutOff>>
      /\ UNCHANGED <<token, caller>>
      /\ ~disturbed' => /\ ~disturbed /\ inFlight = {}
                        /\ \A k \in Calls : call[k] = NotCalling
    BY DEF LeavePage, Leaves, Busy, sessionVars
<1>2. SessionInvariant' /\ OnlyIssued' /\ AnsweredIsOver'
    BY <1>1, SessionStill, IssuedStill DEF PageInvariant, AnsweredIsOver
<1>3. PageTyped'
    <2>1. cookie # 0 => cookie \in Tokens
        BY DEF PageInvariant, PageTyped, Tokens
    <2> QED
        BY <1>1, <2>1, SessionConstants DEF PageInvariant, PageTyped
<1>4. ASSUME ~disturbed' PROVE ~cutOff' /\ Orderly' /\ HoldsNewest'
    <2>1. Orderly'
        BY <1>1, <1>4 DEF PageInvariant, Orderly
    <2>2. HoldsNewest'
        BY <1>1, <1>4 DEF HoldsNewest
    <2> QED
        BY <1>1, <1>4, <2>1, <2>2 DEF PageInvariant
<1> QED
    BY <1>2, <1>3, <1>4 DEF PageInvariant

LEMMA NobodyInvariant ==
    ASSUME PageInvariant, NEW c \in Callers, AnswerToNobody(c)
    PROVE  PageInvariant'
<1>1. /\ answer[c] # NoAnswer /\ c \notin inFlight
      /\ cookie' \in {cookie} \cup ({answer[c]} \ {0})
      /\ answer' = [answer EXCEPT ![c] = NoAnswer]
      /\ UNCHANGED <<sessionVars, tokens, outdated, call, inFlight, leaving,
                     loads, mounting, disturbed, cutOff>>
      /\ UNCHANGED <<token, caller>>
    BY DEF AnswerToNobody, sessionVars
<1>2. disturbed'
    BY <1>1 DEF PageInvariant, Orderly
<1>3. /\ answer[c] \in 0..MaxTokens /\ NoAnswer \in NoAnswer..MaxTokens
      /\ ~(NoAnswer > 0)
    BY <1>1, SessionConstants DEF PageInvariant, PageTyped, NoAnswer
<1>4. PageTyped'
    BY <1>1, <1>3 DEF PageInvariant, PageTyped
<1>5. OnlyIssued'
    <2>1. answer[c] # 0 => Issued(answer[c])
        BY <1>3 DEF PageInvariant, OnlyIssued
    <2>2. cookie' # 0 => Issued(cookie)'
        BY <1>1, <2>1 DEF PageInvariant, OnlyIssued, Issued
    <2>3. \A d \in Callers : answer'[d] > 0 => answer'[d] = answer[d]
        BY <1>1, <1>3 DEF PageInvariant, PageTyped
    <2> QED
        BY <1>1, <2>2, <2>3 DEF PageInvariant, OnlyIssued, Issued
<1>6. SessionInvariant' /\ AnsweredIsOver'
    <2>1. \A d \in Callers : answer'[d] # NoAnswer => answer[d] # NoAnswer
        BY <1>1 DEF PageInvariant, PageTyped
    <2> QED
        BY <1>1, <2>1, SessionStill DEF PageInvariant, AnsweredIsOver
<1> QED
    BY <1>2, <1>4, <1>5, <1>6 DEF PageInvariant

LEMMA ClaimInvariant ==
    ASSUME PageInvariant, NEW c \in Callers, ClaimRefresh(c)
    PROVE  PageInvariant'
<1> DEFINE i == caller[c].of
<1>1. /\ caller[c].step = "read" /\ Claim(c)
      /\ UNCHANGED <<cookie, tokens, outdated, call, inFlight, leaving, loads,
                     mounting, disturbed>>
    BY DEF ClaimRefresh, Claim
<1>2. /\ SessionInvariant /\ i \in Tokens /\ Issued(i)
      /\ caller[c] # Waiting /\ Waiting.step = "idle"
    BY <1>1 DEF PageInvariant, SessionInvariant, AboutIssued, Waiting
<1>3. /\ answer[c] = NoAnswer
      /\ ~disturbed => c \in inFlight /\ Newest(i)
    BY <1>1, <1>2
    DEF PageInvariant, AnsweredIsOver, Orderly, HoldsNewest
<1>4. SessionInvariant'
    BY <1>1, <1>2, ClaimKeeps
<1>5. /\ \A j : j \in Tokens => (Issued(j)' <=> Issued(j))
      /\ \A j : Newest(j)' <=> Newest(j)
    <2>1. \/ token' = Revoked
          \/ token[i] = "LIVE" /\ token' = [token EXCEPT ![i] = "REVOKED"]
        BY <1>1 DEF Claim, StillUnused
    <2> QED
        BY <1>2, <2>1, IssuedStay
<1>6. /\ caller'[c].step # "read"
      /\ \A d \in Callers \ {c} : /\ caller'[d] = caller[d]
                                  /\ answer'[d] = answer[d]
      /\ answer' \in [Callers -> NoAnswer..MaxTokens]
      /\ \/ answer'[c] = NoAnswer
         \/ answer'[c] = 0 /\ caller'[c] = Waiting
      /\ ~disturbed => ~cutOff'
    <2>1. /\ caller \in [Callers -> [of: 0..MaxTokens,
                                     step: {"idle", "read", "claimed"}]]
          /\ answer \in [Callers -> NoAnswer..MaxTokens]
          /\ 0 \in NoAnswer..MaxTokens
          /\ ~disturbed => ~cutOff
        BY <1>2, SessionConstants
        DEF SessionInvariant, Documents, PageInvariant, PageTyped, NoAnswer
    <2>2. CASE StillUnused(i)
        <3>1. /\ caller' = [caller EXCEPT ![c] = [of |-> i,
                                                  step |-> "claimed"]]
              /\ UNCHANGED <<answer, cutOff>>
            BY <1>1, <2>2 DEF Claim, Moves, ClaimRefresh
        <3> QED
            BY <1>3, <2>1, <3>1
    <2>3. CASE ~StillUnused(i)
        <3>1. /\ token' = Revoked /\ caller' = [caller EXCEPT ![c] = Waiting]
              /\ answer' = [answer EXCEPT ![c] = 0]
              /\ cutOff' = (cutOff \/ token' # token)
            BY <1>1, <2>3 DEF Claim, ClaimRefresh, Refused
        <3>2. ~disturbed => Revoked = token
            BY <1>2, <1>3, <2>3, NothingToRevoke DEF StillUnused
        <3>3. ~disturbed => ~cutOff'
            BY <2>1, <3>1, <3>2
        <3> QED
            BY <1>2, <2>1, <3>1, <3>3
    <2> QED
        BY <2>2, <2>3
<1>7. PageTyped' /\ AnsweredIsOver'
    BY <1>1, <1>6 DEF PageInvariant, PageTyped, AnsweredIsOver
<1>8. ~(answer'[c] > 0)
    BY <1>6 DEF NoAnswer
<1>9. OnlyIssued'
    <2>1. ASSUME NEW d \in Callers, answer[d] > 0 PROVE answer[d] \in Tokens
        BY <2>1, SessionConstants
        DEF PageInvariant, PageTyped, NoAnswer, Tokens
    <2>2. cookie # 0 => cookie \in Tokens
        BY DEF PageInvariant, PageTyped, Tokens
    <2>3. cookie # 0 => Issued(cookie)'
        BY <1>1, <1>5, <2>2 DEF PageInvariant, OnlyIssued, Issued
    <2>4. \A j \in leaving : Issued(j)'
        BY <1>5 DEF PageInvariant, PageTyped, OnlyIssued
    <2>5. \A d \in Callers \ {c} : answer[d] > 0 => Issued(answer[d])'
        BY <1>5, <1>6, <2>1 DEF PageInvariant, OnlyIssued, Issued
    <2> QED
        BY <1>1, <1>6, <1>8, <2>3, <2>4, <2>5 DEF OnlyIssued, Issued
<1>10. ASSUME ~disturbed PROVE Orderly' /\ HoldsNewest'
    <2>1. Orderly /\ HoldsNewest /\ c \in inFlight
        BY <1>3, <1>10 DEF PageInvariant
    <2>2. Orderly'
        BY <1>1, <1>6, <2>1 DEF Orderly
    <2>3. (\A d \in inFlight : answer'[d] <= 0)
             => (\A d \in inFlight : answer[d] <= 0)
        BY <1>3, <1>6, <2>1 DEF PageInvariant, PageTyped, NoAnswer
    <2>4. \A d \in inFlight :
             caller'[d].step = "read" => Newest(caller[d].of)'
        BY <1>5, <1>6, <2>1 DEF PageInvariant, PageTyped, HoldsNewest, Newest
    <2>5. \A d \in inFlight : answer'[d] > 0 => Newest(answer[d])'
        BY <1>5, <1>6, <1>8, <2>1
        DEF PageInvariant, PageTyped, HoldsNewest, Newest
    <2>6. HoldsNewest'
        BY <1>1, <1>5, <2>1, <2>3, <2>4, <2>5 DEF HoldsNewest, Newest
    <2> QED
        BY <2>2, <2>6
<1> QED
    BY <1>1, <1>4, <1>6, <1>7, <1>9, <1>10 DEF PageInvariant

LEMMA IssueInvariant ==
    ASSUME PageInvariant, NEW c \in Callers, IssuePair(c)
    PROVE  PageInvariant'
<1>1. /\ caller[c].step = "claimed" /\ Issue(c)
      /\ UNCHANGED <<cookie, tokens, outdated, call, inFlight, leaving, loads,
                     mounting, disturbed, cutOff>>
    BY DEF IssuePair, Issue
<1>2. PICK i \in Tokens : Fresh(i) /\ answer' = [answer EXCEPT ![c] = i]
    BY DEF IssuePair
<1>3. token' = [token EXCEPT ![i] = "LIVE"]
    <2>1. PICK j \in Tokens : Fresh(j) /\ token' = [token EXCEPT ![j] = "LIVE"]
        BY <1>1 DEF Issue
    <2>2. ~(i < j) /\ ~(j < i)
        BY <1>2, <2>1 DEF Fresh
    <2>3. i = j
        BY <2>2, SMT DEF Tokens
    <2> QED
        BY <2>1, <2>3
<1>4. /\ SessionInvariant /\ SessionInvariant'
      /\ caller[c] # Waiting /\ Waiting.step = "idle"
    BY <1>1, IssueKeeps DEF PageInvariant, Waiting
<1>5. /\ token'[i] = "LIVE" /\ Issued(i)' /\ Newest(i)'
      /\ \A j : j \in Tokens /\ Issued(j) => Issued(j)'
    <2>1. token'[i] = "LIVE"
        BY <1>3, <1>4 DEF SessionInvariant, Documents
    <2>2. Newest(i)'
        BY <1>4, <2>1 DEF SessionInvariant, OnlyNewest
    <2> QED
        BY <1>2, <1>3, <1>4, <2>1, <2>2
        DEF SessionInvariant, Documents, Issued, Fresh
<1>6. i > 0 /\ i \in NoAnswer..MaxTokens
    BY SMT DEF Tokens, NoAnswer
<1>7. /\ caller'[c] = Waiting /\ answer'[c] = i
      /\ \A d \in Callers \ {c} : /\ caller'[d] = caller[d]
                                  /\ answer'[d] = answer[d]
      /\ answer' \in [Callers -> NoAnswer..MaxTokens]
    BY <1>1, <1>2, <1>4, <1>6
    DEF SessionInvariant, Documents, PageInvariant, PageTyped, Issue
<1>8. PageTyped' /\ AnsweredIsOver'
    BY <1>1, <1>7 DEF PageInvariant, PageTyped, AnsweredIsOver
<1>9. OnlyIssued'
    <2>1. ASSUME NEW d \in Callers, answer[d] > 0 PROVE answer[d] \in Tokens
        BY <2>1, SessionConstants
        DEF PageInvariant, PageTyped, NoAnswer, Tokens
    <2>2. cookie # 0 => cookie \in Tokens
        BY DEF PageInvariant, PageTyped, Tokens
    <2>3. cookie # 0 => Issued(cookie)'
        BY <1>1, <1>5, <2>2 DEF PageInvariant, OnlyIssued, Issued
    <2>4. \A j \in leaving : Issued(j)'
        BY <1>5 DEF PageInvariant, PageTyped, OnlyIssued
    <2>5. \A d \in Callers \ {c} : answer[d] > 0 => Issued(answer[d])'
        BY <1>5, <1>7, <2>1 DEF PageInvariant, OnlyIssued, Issued
    <2> QED
        BY <1>1, <1>5, <1>7, <2>3, <2>4, <2>5 DEF OnlyIssued, Issued
<1>10. ASSUME ~disturbed PROVE ~cutOff /\ Orderly' /\ HoldsNewest'
    <2>1. /\ ~cutOff /\ Orderly /\ HoldsNewest /\ c \in inFlight
          /\ \A d \in inFlight : d = c
        BY <1>1, <1>4, <1>10 DEF PageInvariant, Orderly
    <2>2. Orderly'
        BY <1>1, <1>7, <2>1 DEF Orderly
    <2>3. \A d \in inFlight : caller'[d].step # "read" /\ answer'[d] = i
        BY <1>4, <1>7, <2>1
    <2>4. ~(\A d \in inFlight : answer'[d] <= 0)
        BY <1>6, <2>1, <2>3, SMT DEF Tokens
    <2>5. \A d \in inFlight : Newest(answer[d])'
        BY <1>5, <2>3 DEF Newest
    <2>6. HoldsNewest'
        BY <1>1, <2>1, <2>3, <2>4, <2>5 DEF HoldsNewest
    <2> QED
        BY <2>1, <2>2, <2>6
<1> QED
    BY <1>1, <1>4, <1>8, <1>9, <1>10 DEF PageInvariant

LEMMA ReturnsInvariant ==
    ASSUME PageInvariant, NEW c \in Callers, RefreshReturns(c)
    PROVE  PageInvariant'
<1> DEFINE x == [step |-> "again", by |-> answer[c], on |-> {}]
<1>1. /\ answer[c] > 0 /\ c \in inFlight
      /\ cookie' = answer[c] /\ tokens' = answer[c]
      /\ call' = [k \in Calls |-> IF k \notin WaitingFor(c) THEN call[k]
                                  ELSE x]
      /\ inFlight' = inFlight \ {c}
      /\ answer' = [answer EXCEPT ![c] = NoAnswer]
      /\ UNCHANGED <<token, parent, caller, admitted, outdated, leaving,
                     loads, mounting, disturbed, cutOff>>
      /\ UNCHANGED sessionVars
    BY DEF RefreshReturns, Over, sessionVars
<1>2. answer[c] \in 0..MaxTokens /\ answer[c] # 0 /\ answer[c] # NoAnswer
    BY <1>1, SessionConstants DEF PageInvariant, PageTyped, NoAnswer
<1>3. x \in CallRecords
    BY <1>2 DEF CallRecords
<1>4. PageTyped'
    <2> HIDE DEF x
    <2>1. call' \in [Calls -> CallRecords]
        BY <1>1, <1>3 DEF PageInvariant, PageTyped, CallRecords
    <2>2. answer' \in [Callers -> NoAnswer..MaxTokens]
        BY <1>1, SessionConstants DEF PageInvariant, PageTyped, NoAnswer
    <2> QED
        BY <1>1, <1>2, <2>1, <2>2 DEF PageInvariant, PageTyped, CallRecords
<1>5. \A d \in Callers : answer'[d] # NoAnswer => answer'[d] = answer[d]
    BY <1>1 DEF PageInvariant, PageTyped
<1>6. SessionInvariant' /\ AnsweredIsOver'
    BY <1>1, <1>5, SessionStill DEF PageInvariant, AnsweredIsOver
<1>7. OnlyIssued'
    <2>1. ~(NoAnswer > 0)
        BY DEF NoAnswer
    <2> QED
        BY <1>1, <1>5, <2>1 DEF PageInvariant, OnlyIssued, Issued
<1>8. ASSUME ~disturbed PROVE ~cutOff /\ Orderly' /\ HoldsNewest'
    <2>1. /\ ~cutOff /\ inFlight = {c} /\ leaving = {} /\ ~mounting
          /\ Newest(answer[c]) /\ caller[c] = Waiting
          /\ Orderly
        BY <1>1, <1>2, <1>8
        DEF PageInvariant, Orderly, HoldsNewest, AnsweredIsOver
    <2>2. /\ inFlight' = {} /\ answer'[c] = NoAnswer
          /\ \A d \in Callers \ {c} : answer'[d] = answer[d]
        BY <1>1, <2>1 DEF PageInvariant, PageTyped
    <2>3. Orderly'
        BY <1>1, <1>2, <2>1, <2>2 DEF Orderly
    <2>4. HoldsNewest'
        BY <1>1, <1>2, <2>1, <2>2 DEF HoldsNewest, Newest, Issued
    <2> QED
        BY <2>1, <2>3, <2>4
<1> QED
    BY <1>1, <1>4, <1>6, <1>7, <1>8 DEF PageInvariant

LEMMA FailsInvariant ==
    ASSUME PageInvariant, NEW c \in Callers, RefreshFails(c)
    PROVE  PageInvariant'
<1>1. /\ c \in inFlight /\ inFlight' = inFlight \ {c}
      /\ answer' = [answer EXCEPT ![c] = NoAnswer]
      /\ call' = [k \in Calls |-> IF k \in WaitingFor(c) THEN NotCalling
                                  ELSE call[k]]
      /\ UNCHANGED <<cookie, outdated, loads, mounting, cutOff>>
      /\ UNCHANGED <<token, parent, admitted>>
      /\ ~disturbed' => ~disturbed /\ answer[c] = 0 /\ ~Busy(WaitingFor(c))
    BY DEF RefreshFails, Over, sessionVars, RequestDies
<1>2. \/ UNCHANGED <<tokens, leaving>>
      \/ tokens' = 0 /\ leaving' = leaving \cup ({cookie} \ {0})
    BY DEF RefreshFails, Leaves
<1>3. /\ \A d \in Callers : answer'[d] # NoAnswer => /\ answer'[d] = answer[d]
                                                     /\ d # c
      /\ NoAnswer \in NoAnswer..MaxTokens /\ ~(NoAnswer > 0) /\ NoAnswer # 0
    BY <1>1, SessionConstants DEF PageInvariant, PageTyped, NoAnswer
<1>4. SessionInvariant' /\ AnsweredIsOver'
    <2>1. \A d \in Callers \ {c} : caller'[d] = caller[d]
        BY DEF RefreshFails, sessionVars, RequestDies, PageInvariant,
               SessionInvariant, Documents
    <2>2. SessionInvariant'
        BY SessionKeeps DEF RefreshFails, PageInvariant, SessionNext
    <2> QED
        BY <1>3, <2>1, <2>2 DEF PageInvariant, AnsweredIsOver
<1>5. PageTyped'
    <2>1. cookie # 0 => cookie \in Tokens
        BY DEF PageInvariant, PageTyped, Tokens
    <2>2. tokens' \in 0..MaxTokens /\ leaving' \subseteq Tokens
        BY <1>2, <2>1, SessionConstants DEF PageInvariant, PageTyped
    <2>3. NotCalling \in CallRecords
        BY SessionConstants DEF NotCalling, CallRecords
    <2>4. call' \in [Calls -> CallRecords]
        BY <1>1, <2>3 DEF PageInvariant, PageTyped, CallRecords
    <2> QED
        BY <1>1, <1>3, <2>2, <2>4 DEF PageInvariant, PageTyped, CallRecords
<1>6. OnlyIssued'
    <2>1. \A j \in leaving' : Issued(j)
        BY <1>2 DEF PageInvariant, OnlyIssued
    <2> QED
        BY <1>1, <1>3, <2>1 DEF PageInvariant, OnlyIssued, Issued
<1>7. ASSUME ~disturbed' PROVE ~cutOff' /\ Orderly' /\ HoldsNewest'
    <2>1. /\ ~cutOff /\ Orderly /\ HoldsNewest
          /\ inFlight = {c} /\ leaving = {} /\ ~mounting
          /\ answer[c] = 0 /\ caller[c] = Waiting
        BY <1>1, <1>3, <1>7
        DEF PageInvariant, Orderly, AnsweredIsOver
    <2>2. UNCHANGED caller
        BY <2>1 DEF RefreshFails, sessionVars, RequestDies
    <2>3. /\ inFlight' = {} /\ answer'[c] = NoAnswer
          /\ \A d \in Callers \ {c} : answer'[d] = answer[d]
        BY <1>1, <2>1 DEF PageInvariant, PageTyped
    <2>4. \A k \in Calls : call'[k] = NotCalling
        BY <1>1, <1>7 DEF Busy
    <2>5. Orderly'
        BY <1>1, <1>2, <2>1, <2>2, <2>3, <2>4 DEF Orderly
    <2>6. tokens # 0 => Newest(tokens)
        BY <2>1 DEF HoldsNewest
    <2>7. HoldsNewest'
        BY <1>1, <1>2, <2>1, <2>3, <2>6 DEF HoldsNewest, Newest, Issued
    <2> QED
        BY <1>1, <2>1, <2>5, <2>7
<1> QED
    BY <1>4, <1>5, <1>6, <1>7 DEF PageInvariant

LEMMA PageStill ==
    ASSUME PageInvariant, UNCHANGED <<sessionVars, pageVars>>
    PROVE  PageInvariant'
<1>1. /\ UNCHANGED <<token, parent, caller, admitted, cookie, tokens,
                     outdated, call, inFlight, answer, leaving, loads,
                     mounting, disturbed, cutOff>>
      /\ UNCHANGED sessionVars
    BY DEF sessionVars, pageVars
<1>2. SessionInvariant' /\ OnlyIssued' /\ AnsweredIsOver' /\ PageTyped'
    BY <1>1, SessionStill, IssuedStill
    DEF PageInvariant, AnsweredIsOver, PageTyped
<1>3. ~disturbed' => ~cutOff' /\ Orderly' /\ HoldsNewest'
    BY <1>1, HoldingStill DEF PageInvariant, Orderly
<1> QED
    BY <1>2, <1>3 DEF PageInvariant

LEMMA PageKeepsInvariant ==
    PageInvariant /\ [PageNext]_<<sessionVars, pageVars>> => PageInvariant'
<1> SUFFICES ASSUME PageInvariant, [PageNext]_<<sessionVars, pageVars>>
             PROVE  PageInvariant'
    OBVIOUS
<1>1. CASE EnterPage \/ LeavePage \/ AccessExpires \/ Reload \/ Restore
           \/ SessionEnds
    BY <1>1, EnterInvariant, LeaveInvariant, AccessInvariant, ReloadInvariant,
       RestoreInvariant, EndsInvariant
<1>2. ASSUME NEW k \in Calls, SendCall(k) \/ CallReturns(k) \/ CallRefused(k)
      PROVE  PageInvariant'
    BY <1>2, CallInvariant, RefusedInvariant
<1>3. ASSUME NEW c \in Callers, \/ ClaimRefresh(c) \/ IssuePair(c)
                                \/ RefreshReturns(c) \/ RefreshFails(c)
                                \/ AnswerToNobody(c)
      PROVE  PageInvariant'
    BY <1>3, ClaimInvariant, IssueInvariant, ReturnsInvariant, FailsInvariant,
       NobodyInvariant
<1>4. ASSUME NEW i \in Tokens, LogoutArrives(i)
      PROVE  PageInvariant'
    BY <1>4, LogoutInvariant
<1>5. CASE UNCHANGED <<sessionVars, pageVars>>
    BY <1>5, PageStill
<1> QED
    BY <1>1, <1>2, <1>3, <1>4, <1>5 DEF PageNext

-----------------------------------------------------------------------------
(* The lists and reports.                                                  *)

ListQueries == [of : Lists, asks : Asks, aborted : BOOLEAN]
RowChanges == [of : Lists, by : Asks]

ListsTyped ==
    /\ ListTypeOK /\ failed \subseteq Lists /\ overtaken \subseteq Lists
    /\ request \subseteq ListQueries /\ row \subseteq RowChanges

(* Only the tabs of the open list load and change anything.                *)
OnlyOpen ==
    /\ timers \subseteq {open}
    /\ \A r \in request : r.of \in Alike(open)
    /\ \A c \in row : c.of \in Alike(open)

(* What an open list that is not overtaken waits for is what is asked.     *)
WaitsForAsked ==
    open \notin overtaken =>
       \A r \in request : r.of = open /\ ~r.aborted => r.asks = query[open]

(* The open list waits for what is asked, and shows it when it came.       *)
ListInvariant ==
    ListsTyped /\ OnlyOpen /\ WaitsForAsked /\ ListsShowWhatIsAsked

-----------------------------------------------------------------------------

LEMMA KindsAre ==
    ASSUME NEW l \in Lists
    PROVE  /\ Kind[l].alike = IF l = "orders" THEN {"deposits"}
                              ELSE IF l = "deposits" THEN {"orders"} ELSE {}
           /\ Kind[l].clamps => l \notin {"orders", "deposits"}
           /\ Kind[l].clears => l \notin {"orders", "deposits"}
           /\ Kind[l].after = "effect" => l = "coupons"
           /\ {"orders", "deposits", "coupons"} \subseteq Lists
<1> DEFINE is(k, alike, clamps, clears, effect) ==
              /\ k.alike = alike /\ (k.clamps <=> clamps)
              /\ (k.clears <=> clears) /\ (k.after = "effect" <=> effect)
<1>1. /\ is(OrderList, {"deposits"}, FALSE, FALSE, FALSE)
      /\ is(DepositList, {"orders"}, FALSE, FALSE, FALSE)
      /\ is(ManagementList, {}, FALSE, FALSE, FALSE)
      /\ is(ComplaintList, {}, FALSE, FALSE, FALSE)
    BY DEF OrderList, DepositList, ManagementList, ComplaintList, Plain
<1>2. /\ is(InventoryList, {}, TRUE, FALSE, FALSE)
      /\ is(CouponList, {}, TRUE, FALSE, TRUE)
      /\ is(GrowthReport, {}, FALSE, TRUE, FALSE)
      /\ is(SpenderReport, {}, FALSE, TRUE, FALSE)
    BY DEF InventoryList, CouponList, GrowthReport, SpenderReport, Plain
<1>3. /\ is(RepeatReport, {}, TRUE, TRUE, FALSE)
      /\ is(BankReport, {}, FALSE, TRUE, FALSE)
    BY DEF RepeatReport, BankReport, Plain
<1>4. /\ Kind["orders"] = OrderList /\ Kind["deposits"] = DepositList
      /\ Kind["management"] = ManagementList
      /\ Kind["complaints"] = ComplaintList
      /\ Kind["inventory"] = InventoryList /\ Kind["coupons"] = CouponList
      /\ Kind["growth"] = GrowthReport /\ Kind["spenders"] = SpenderReport
      /\ Kind["repeats"] = RepeatReport
      /\ Kind["reconciliation"] = BankReport
    BY DEF Kind
<1>5. Lists = {"orders", "deposits", "management", "complaints",
               "inventory", "coupons", "growth", "spenders", "repeats",
               "reconciliation"}
    BY DEF Kind, Lists
<1>6. CASE l \in {"orders", "deposits", "management", "complaints"}
    BY <1>1, <1>4, <1>5, <1>6
<1>7. CASE l \in {"inventory", "coupons", "growth"}
    BY <1>2, <1>4, <1>5, <1>7
<1>8. CASE l \in {"spenders", "repeats", "reconciliation"}
    BY <1>2, <1>3, <1>4, <1>5, <1>8
<1> QED
    BY <1>5, <1>6, <1>7, <1>8

LEMMA AlikeLists ==
    ASSUME NEW l \in Lists
    PROVE  /\ l \in Alike(l) /\ Alike(l) \subseteq Lists
           /\ \A k \in Alike(l) : Alike(k) = Alike(l)
           /\ \A k \in Alike(l) \ {l} :
                 ~Kind[k].clamps /\ ~Kind[k].clears /\ Kind[k].after # "effect"
                 /\ k # "coupons"
BY KindsAre DEF Alike

LEMMA AbortedOnes ==
    ASSUME request \subseteq ListQueries, NEW ls
    PROVE  /\ Aborted(ls) \subseteq ListQueries
           /\ \A s \in Aborted(ls) : \E r \in request : s.of = r.of
           /\ \A s \in Aborted(ls) :
                 ~s.aborted => s \in request /\ s.of \notin ls
           /\ \A r \in request :
                 ~r.aborted /\ r.of \notin ls => r \in Aborted(ls)
<1> DEFINE stop(r) == r.aborted \/ r.of \in ls
           copy(r) == [r EXCEPT !.aborted = stop(r)]
<1>1. Aborted(ls) = {copy(r) : r \in request}
    BY DEF Aborted
<1>2. ASSUME NEW r \in request
      PROVE  /\ copy(r) \in ListQueries /\ copy(r).of = r.of
             /\ copy(r).aborted <=> r.aborted \/ r.of \in ls
             /\ ~copy(r).aborted => copy(r) = r
    <2>1. r \in ListQueries /\ stop(r) \in BOOLEAN
        BY DEF ListQueries
    <2>2. ASSUME NEW s \in BOOLEAN
          PROVE  /\ [r EXCEPT !.aborted = s] \in ListQueries
                 /\ [r EXCEPT !.aborted = s].of = r.of
                 /\ [r EXCEPT !.aborted = s].aborted = s
                 /\ s = r.aborted => [r EXCEPT !.aborted = s] = r
        BY <2>1 DEF ListQueries
    <2>3. ~stop(r) => stop(r) = r.aborted
        BY <2>1 DEF ListQueries
    <2>4. stop(r) <=> r.aborted \/ r.of \in ls
        OBVIOUS
    <2> HIDE DEF stop
    <2> QED
        BY <2>1, <2>2, <2>3, <2>4
<1> HIDE DEF copy
<1> QED
    BY <1>1, <1>2

LEMMA ListInitInvariant == ListInit => ListInvariant
<1> SUFFICES ASSUME ListInit PROVE ListInvariant
    OBVIOUS
<1>1. ListsTyped
    <2>1. 1 \in Asks /\ open \in Lists
        BY ListConstants DEF ListInit
    <2>2. query \in [Lists -> Asks] /\ shown \in [Lists -> {Never} \cup Asks]
        BY <2>1 DEF ListInit
    <2> QED
        BY <2>1, <2>2 DEF ListInit, ListsTyped, ListTypeOK
<1>2. OnlyOpen /\ WaitsForAsked
    BY DEF ListInit, OnlyOpen, WaitsForAsked
<1>3. ListsShowWhatIsAsked
    BY DEF ListInit, ListsShowWhatIsAsked, Awaited
<1> QED
    BY <1>1, <1>2, <1>3 DEF ListInvariant

(* What the invariant says of the lists where a step begins.               *)
LEMMA ListsAre ==
    ASSUME ListInvariant
    PROVE  /\ open \in Lists /\ query \in [Lists -> Asks]
           /\ shown \in [Lists -> {Never} \cup Asks] /\ length \in Asks
           /\ request \subseteq ListQueries /\ row \subseteq RowChanges
           /\ timers \subseteq Lists /\ spins \subseteq Lists
           /\ failed \subseteq Lists /\ overtaken \subseteq Lists
BY DEF ListInvariant, ListsTyped, ListTypeOK

(* The types of the lists after a step.                                    *)
LEMMA ListsStayTyped ==
    ASSUME open' \in Lists, query' \in [Lists -> Asks],
           shown' \in [Lists -> {Never} \cup Asks], length' \in Asks,
           request' \subseteq ListQueries, row' \subseteq RowChanges,
           timers' \subseteq Lists, spins' \subseteq Lists,
           failed' \subseteq Lists, overtaken' \subseteq Lists
    PROVE  ListsTyped'
BY DEF ListsTyped, ListTypeOK, ListQueries

(* The list runs its effect: nothing is awaited, and a timer is set.       *)
LEMMA EffectInvariant ==
    ASSUME ListInvariant, RunEffect(open),
           query' \in [Lists -> Asks], row' \subseteq row,
           overtaken' = overtaken, length' \in Asks,
           UNCHANGED <<open, shown, spins, failed>>
    PROVE  ListInvariant'
<1>1. /\ request' = Aborted(Alike(open)) /\ timers' = timers \cup {open}
    BY DEF RunEffect
<1>2. open \in Lists /\ open \in Alike(open)
    BY ListsAre, AlikeLists
<1>3. /\ request' \subseteq ListQueries
      /\ \A s \in request' : \E r \in request : s.of = r.of
      /\ \A s \in request' : s.of = open => s.aborted
    BY <1>1, <1>2, ListsAre, AbortedOnes
<1>4. ListsTyped'
    BY <1>1, <1>2, <1>3, ListsAre, ListsStayTyped
<1>5. OnlyOpen'
    BY <1>1, <1>3 DEF ListInvariant, OnlyOpen
<1>6. WaitsForAsked'
    BY <1>3 DEF WaitsForAsked
<1>7. ListsShowWhatIsAsked'
    BY <1>1 DEF ListsShowWhatIsAsked
<1> QED
    BY <1>4, <1>5, <1>6, <1>7 DEF ListInvariant

LEMMA AskForInvariant ==
    ASSUME ListInvariant, NEW l \in Lists, NEW asks \in Asks, AskFor(l, asks)
    PROVE  ListInvariant'
<1>1. /\ l = open /\ query' = [query EXCEPT ![l] = asks]
      /\ UNCHANGED <<open, spins, failed, row, length>>
    BY DEF AskFor
<1>2. query' \in [Lists -> Asks]
    BY <1>1, ListsAre
<1>3. CASE ~Kind[l].byHand
    BY <1>1, <1>2, <1>3, EffectInvariant, ListsAre DEF AskFor
<1>4. CASE Kind[l].byHand
    <2>1. /\ shown' = [shown EXCEPT ![l] = Never]
          /\ overtaken' = overtaken \cup IF Awaited(l) = {} THEN {} ELSE {l}
          /\ UNCHANGED <<request, timers>>
        BY <1>4 DEF AskFor
    <2>2. /\ shown' \in [Lists -> {Never} \cup Asks] /\ shown'[open] = Never
          /\ overtaken' \subseteq Lists
          /\ open \notin overtaken' => open \notin overtaken
                                       /\ Awaited(open) = {}
        BY <1>1, <2>1, ListsAre
    <2>3. ListsTyped'
        BY <1>1, <1>2, <2>1, <2>2, ListsAre, ListsStayTyped
    <2>4. OnlyOpen'
        BY <1>1, <2>1 DEF ListInvariant, OnlyOpen
    <2>5. WaitsForAsked'
        BY <1>1, <2>1, <2>2 DEF WaitsForAsked, Awaited
    <2>6. ListsShowWhatIsAsked'
        BY <1>1, <1>4, <2>1, <2>2
        DEF ListInvariant, ListsShowWhatIsAsked, Awaited
    <2> QED
        BY <2>3, <2>4, <2>5, <2>6 DEF ListInvariant
<1> QED
    BY <1>3, <1>4

LEMMA OpenOtherInvariant ==
    ASSUME ListInvariant, NEW l \in Lists, OpenOther(l)
    PROVE  ListInvariant'
<1>1. /\ l \in Alike(open) /\ open' = l /\ timers' = {l}
      /\ request' = Aborted(Alike(l))
      /\ UNCHANGED <<query, shown, spins, failed, row, length, overtaken>>
    BY DEF OpenOther, Alike
<1>2. Alike(l) = Alike(open) /\ l \in Alike(l)
    BY <1>1, ListsAre, AlikeLists
<1>3. /\ request' \subseteq ListQueries
      /\ \A s \in request' : \E r \in request : s.of = r.of
      /\ \A s \in request' : s.of = l => s.aborted
    BY <1>1, <1>2, ListsAre, AbortedOnes
<1>4. ListsTyped'
    BY <1>1, <1>3, ListsAre, ListsStayTyped
<1>5. OnlyOpen'
    <2>1. Alike(open)' = Alike(open)
        BY <1>1, <1>2 DEF Alike
    <2> QED
        BY <1>1, <1>3, <2>1 DEF ListInvariant, OnlyOpen
<1>6. WaitsForAsked'
    BY <1>1, <1>3 DEF WaitsForAsked
<1>7. ListsShowWhatIsAsked'
    BY <1>1 DEF ListsShowWhatIsAsked
<1> QED
    BY <1>4, <1>5, <1>6, <1>7 DEF ListInvariant

(* The open list asks for what its filters say.                            *)
LEMMA BeginInvariant ==
    ASSUME ListInvariant, Begin(open, query[open]),
           overtaken' \subseteq Lists, timers' \subseteq timers,
           row' \subseteq row, length' \in Asks,
           UNCHANGED <<open, query>>
    PROVE  ListInvariant'
<1> DEFINE new == [of |-> open, asks |-> query[open], aborted |-> FALSE]
<1>1. /\ request' = Aborted(Alike(open)) \cup {new}
      /\ spins' = spins \cup {open} /\ failed' = failed \ {open}
      /\ shown' \in {shown, [shown EXCEPT ![open] = Never]}
    BY DEF Begin
<1>2. /\ open \in Lists /\ open \in Alike(open) /\ new \in ListQueries
      /\ new.of = open /\ new.asks = query[open] /\ ~new.aborted
    BY ListsAre, AlikeLists DEF ListQueries
<1> HIDE DEF new
<1>3. /\ request' \subseteq ListQueries
      /\ \A s \in request' : s = new \/ \E r \in request : s.of = r.of
      /\ \A s \in request' : s.of = open /\ ~s.aborted => s = new
    BY <1>1, <1>2, ListsAre, AbortedOnes
<1>4. ListsTyped'
    <2>1. shown' \in [Lists -> {Never} \cup Asks]
        BY <1>1, ListsAre
    <2> QED
        BY <1>1, <1>2, <1>3, <2>1, ListsAre, ListsStayTyped
<1>5. OnlyOpen'
    BY <1>2, <1>3 DEF ListInvariant, OnlyOpen
<1>6. WaitsForAsked'
    BY <1>2, <1>3 DEF WaitsForAsked
<1>7. ListsShowWhatIsAsked'
    <2>1. new \in Awaited(open)'
        BY <1>1, <1>2 DEF Awaited
    <2> QED
        BY <2>1 DEF ListsShowWhatIsAsked, Awaited
<1> QED
    BY <1>4, <1>5, <1>6, <1>7 DEF ListInvariant

LEMMA LoadsInvariant ==
    ASSUME ListInvariant, NEW l \in Lists, TimerLoads(l) \/ RunByHand(l)
    PROVE  ListInvariant'
<1>1. l = open
    BY DEF TimerLoads, RunByHand, ListInvariant, OnlyOpen
<1>2. /\ Begin(open, query[open]) /\ overtaken' = overtaken \ {l}
      /\ timers' \subseteq timers /\ UNCHANGED <<open, query, row, length>>
    BY <1>1 DEF TimerLoads, RunByHand
<1> QED
    BY <1>2, BeginInvariant, ListsAre

(* A request is over.                                                      *)
LEMMA AnswerInvariant ==
    ASSUME ListInvariant, NEW r \in request, AnswerComes(r)
    PROVE  ListInvariant'
<1>1. /\ request' = request \ {r} /\ r \in ListQueries
      /\ UNCHANGED <<open, failed, row, length, overtaken>>
    BY ListsAre DEF AnswerComes
<1>2. r.of \in Alike(open) /\ r.of \in Lists /\ r.asks \in Asks
    BY <1>1 DEF ListInvariant, OnlyOpen, ListQueries
<1>3. open \notin overtaken /\ r.of = open /\ ~r.aborted
         => /\ r.asks = query[open]
            /\ \A s \in request' : s.of = open => s.aborted
    BY <1>1, ListsAre DEF ListInvariant, WaitsForAsked, ListQueries
<1>4. CASE r.aborted
    <2>1. UNCHANGED <<query, timers, shown, spins>>
        BY <1>4 DEF AnswerComes, Counts
    <2>2. Awaited(open)' = Awaited(open)
        BY <1>1, <1>4 DEF Awaited
    <2>3. ListsTyped'
        BY <1>1, <2>1, ListsAre, ListsStayTyped
    <2>4. OnlyOpen' /\ WaitsForAsked'
        BY <1>1, <2>1 DEF ListInvariant, OnlyOpen, WaitsForAsked
    <2>5. ListsShowWhatIsAsked'
        BY <1>1, <2>1, <2>2 DEF ListInvariant, ListsShowWhatIsAsked
    <2> QED
        BY <2>3, <2>4, <2>5 DEF ListInvariant
<1>5. CASE ~r.aborted /\ Beyond(r)
    <2>1. /\ query' = [query EXCEPT ![r.of] = length]
          /\ timers' = timers \cup {r.of}
          /\ spins' = spins \ {r.of} /\ UNCHANGED shown
        BY <1>5 DEF AnswerComes, Counts
    <2>2. r.of = open
        BY <1>2, <1>5, ListsAre, AlikeLists DEF Beyond
    <2>3. query' \in [Lists -> Asks]
        BY <2>1, ListsAre
    <2>4. ListsTyped'
        BY <1>1, <1>2, <2>1, <2>3, ListsAre, ListsStayTyped
    <2>5. OnlyOpen'
        BY <1>1, <2>1, <2>2 DEF ListInvariant, OnlyOpen
    <2>6. WaitsForAsked'
        BY <1>1, <1>3, <1>5, <2>2 DEF WaitsForAsked
    <2>7. ListsShowWhatIsAsked'
        BY <1>1, <2>1, <2>2 DEF ListsShowWhatIsAsked
    <2> QED
        BY <2>4, <2>5, <2>6, <2>7 DEF ListInvariant
<1>6. CASE ~r.aborted /\ ~Beyond(r)
    <2>1. /\ shown' = [shown EXCEPT ![r.of] = r.asks]
          /\ spins' = spins \ {r.of} /\ UNCHANGED <<query, timers>>
        BY <1>6 DEF AnswerComes, Counts
    <2>2. /\ shown' \in [Lists -> {Never} \cup Asks] /\ shown'[r.of] = r.asks
          /\ \A l \in Lists \ {r.of} : shown'[l] = shown[l]
        BY <1>2, <2>1, ListsAre
    <2>3. ListsTyped'
        BY <1>1, <2>1, <2>2, ListsAre, ListsStayTyped
    <2>4. OnlyOpen' /\ WaitsForAsked'
        BY <1>1, <2>1 DEF ListInvariant, OnlyOpen, WaitsForAsked
    <2>5. CASE r.of = open
        <3>1. ListsShowWhatIsAsked'
            BY <1>1, <1>3, <1>6, <2>1, <2>2, <2>5 DEF ListsShowWhatIsAsked
        <3> QED
            BY <2>3, <2>4, <3>1 DEF ListInvariant
    <2>6. CASE r.of # open
        <3>1. Awaited(open)' = Awaited(open)
            BY <1>1, <2>6 DEF Awaited
        <3>2. ListsShowWhatIsAsked'
            BY <1>1, <2>1, <2>2, <2>6, <3>1, ListsAre
            DEF ListInvariant, ListsShowWhatIsAsked
        <3> QED
            BY <2>3, <2>4, <3>2 DEF ListInvariant
    <2> QED
        BY <2>3, <2>4, <2>5, <2>6 DEF ListInvariant
<1> QED
    BY <1>4, <1>5, <1>6

LEMMA FailInvariant ==
    ASSUME ListInvariant, NEW r \in request, Fail(r)
    PROVE  ListInvariant'
<1>1. /\ request' = request \ {r} /\ r \in ListQueries
      /\ spins' = spins \ {r.of} /\ failed' = failed \cup {r.of}
      /\ shown' = IF r.of = "coupons" THEN [shown EXCEPT ![r.of] = Never]
                  ELSE shown
      /\ UNCHANGED <<open, query, timers, row, length, overtaken>>
    BY ListsAre DEF Fail
<1>2. r.of \in Alike(open) /\ r.of \in Lists
    BY <1>1 DEF ListInvariant, OnlyOpen, ListQueries
<1>3. ListsTyped'
    <2>1. shown' \in [Lists -> {Never} \cup Asks]
        BY <1>1, ListsAre
    <2> QED
        BY <1>1, <1>2, <2>1, ListsAre, ListsStayTyped
<1>4. OnlyOpen' /\ WaitsForAsked'
    BY <1>1 DEF ListInvariant, OnlyOpen, WaitsForAsked
<1>5. ListsShowWhatIsAsked'
    <2>1. CASE r.of = open
        BY <1>1, <2>1 DEF ListsShowWhatIsAsked
    <2>2. CASE r.of # open
        <3>1. Awaited(open)' = Awaited(open)
            BY <1>1, <2>2 DEF Awaited
        <3>2. shown' = shown
            BY <1>1, <1>2, <2>2, ListsAre, AlikeLists
        <3> QED
            BY <1>1, <2>2, <3>1, <3>2 DEF ListInvariant, ListsShowWhatIsAsked
    <2> QED
        BY <2>1, <2>2
<1> QED
    BY <1>3, <1>4, <1>5 DEF ListInvariant

LEMMA ChangeRowInvariant ==
    ASSUME ListInvariant, NEW l \in Lists, ChangeRow(l)
    PROVE  ListInvariant'
<1>1. /\ row' = {[of |-> l, by |-> query[l]]} /\ l = open
      /\ UNCHANGED <<open, query, timers, request, shown, spins, failed,
                     length, overtaken>>
    BY DEF ChangeRow
<1>2. row' \subseteq RowChanges /\ \A c \in row' : c.of = open
    BY <1>1, ListsAre DEF RowChanges
<1>3. ListsTyped'
    BY <1>1, <1>2, ListsAre, ListsStayTyped
<1>4. OnlyOpen' /\ WaitsForAsked'
    BY <1>1, <1>2, ListsAre, AlikeLists
    DEF ListInvariant, OnlyOpen, WaitsForAsked
<1>5. ListsShowWhatIsAsked'
    BY <1>1 DEF ListInvariant, ListsShowWhatIsAsked, Awaited
<1> QED
    BY <1>3, <1>4, <1>5 DEF ListInvariant

(* The tab beside the open one loads after its row changed.                *)
LEMMA OtherTabInvariant ==
    ASSUME ListInvariant, NEW c \in row, RowChanged(c), c.of # open
    PROVE  ListInvariant'
<1> DEFINE new == [of |-> c.of, asks |-> FiltersAtEnd(c), aborted |-> FALSE]
<1>1. /\ c \in RowChanges /\ c.of \in Alike(open) \ {open}
      /\ c.of \in Lists /\ open \in Lists
    BY ListsAre DEF RowChanges, ListInvariant, OnlyOpen
<1>2. /\ Alike(c.of) = Alike(open) /\ open \in Alike(open)
      /\ ~Kind[c.of].clears /\ Kind[c.of].after # "effect"
    BY <1>1, AlikeLists
<1>3. /\ request' = Aborted(Alike(open)) \cup {new}
      /\ spins' = spins \cup {c.of} /\ failed' = failed \ {c.of}
      /\ overtaken' = (overtaken \ {c.of}) \cup Misled(c)
      /\ shown' = shown /\ row' = row \ {c}
      /\ UNCHANGED <<open, query, timers>>
    BY <1>2 DEF RowChanged, Begin
<1>4. length' \in Asks
    BY ListsAre DEF RowChanged
<1>5. new \in ListQueries /\ new.of = c.of
    <2>1. FiltersAtEnd(c) \in Asks
        BY <1>1, ListsAre DEF FiltersAtEnd, RowChanges
    <2> QED
        BY <1>1, <2>1 DEF ListQueries
<1> HIDE DEF new
<1>6. /\ request' \subseteq ListQueries
      /\ \A s \in request' : s = new \/ \E r \in request : s.of = r.of
      /\ \A s \in request' : s.of = open => s.aborted
    BY <1>1, <1>2, <1>3, <1>5, ListsAre, AbortedOnes
<1>7. /\ overtaken' \subseteq Lists
      /\ open \notin overtaken' => /\ open \notin overtaken
                                   /\ Awaited(open) = {}
    <2>1. Misled(c) \subseteq Lists
        BY <1>1, AlikeLists DEF Misled
    <2>2. Awaited(open) # {} => open \in Misled(c)
        BY <1>1, <1>2 DEF Misled
    <2> QED
        BY <1>1, <1>3, <2>1, <2>2, ListsAre
<1>8. ListsTyped'
    BY <1>1, <1>3, <1>4, <1>6, <1>7, ListsAre, ListsStayTyped
<1>9. OnlyOpen'
    BY <1>1, <1>3, <1>5, <1>6 DEF ListInvariant, OnlyOpen
<1>10. WaitsForAsked'
    BY <1>3, <1>6 DEF WaitsForAsked
<1>11. ListsShowWhatIsAsked'
    BY <1>1, <1>3, <1>7 DEF ListInvariant, ListsShowWhatIsAsked
<1> QED
    BY <1>8, <1>9, <1>10, <1>11 DEF ListInvariant

(* The open list loads with filters that are no longer its own.            *)
LEMMA OldFiltersInvariant ==
    ASSUME ListInvariant, NEW c \in row, RowChanged(c), c.of = open,
           Kind[open].after = "begun", c.by # query[open]
    PROVE  ListInvariant'
<1> DEFINE new == [of |-> open, asks |-> c.by, aborted |-> FALSE]
<1>1. /\ request' = Aborted(Alike(open)) \cup {new}
      /\ spins' = spins \cup {open} /\ failed' = failed \ {open}
      /\ overtaken' = (overtaken \ {open}) \cup Misled(c)
      /\ shown' \in {shown, [shown EXCEPT ![open] = Never]}
      /\ row' = row \ {c} /\ UNCHANGED <<open, query, timers>>
    BY DEF RowChanged, Begin, FiltersAtEnd
<1>2. /\ open \in Lists /\ open \in Alike(open) /\ Alike(open) \subseteq Lists
      /\ c \in RowChanges /\ length' \in Asks
    BY ListsAre, AlikeLists DEF RowChanged
<1>3. new \in ListQueries /\ new.of = open
    BY <1>2 DEF ListQueries, RowChanges
<1> HIDE DEF new
<1>4. /\ request' \subseteq ListQueries
      /\ \A s \in request' : s = new \/ \E r \in request : s.of = r.of
    BY <1>1, <1>3, ListsAre, AbortedOnes
<1>5. open \in overtaken' /\ overtaken' \subseteq Lists
    BY <1>1, <1>2, ListsAre DEF Misled
<1>6. ListsTyped'
    <2>1. shown' \in [Lists -> {Never} \cup Asks]
        BY <1>1, ListsAre
    <2> QED
        BY <1>1, <1>2, <1>4, <1>5, <2>1, ListsAre, ListsStayTyped
<1>7. OnlyOpen'
    BY <1>1, <1>2, <1>3, <1>4 DEF ListInvariant, OnlyOpen
<1>8. WaitsForAsked' /\ ListsShowWhatIsAsked'
    BY <1>1, <1>5 DEF WaitsForAsked, ListsShowWhatIsAsked
<1> QED
    BY <1>6, <1>7, <1>8 DEF ListInvariant

LEMMA RowChangedInvariant ==
    ASSUME ListInvariant, NEW c \in row, RowChanged(c)
    PROVE  ListInvariant'
<1>1. length' \in Asks /\ row' \subseteq row /\ UNCHANGED <<open, query>>
    BY ListsAre DEF RowChanged
<1>2. CASE c.of = open /\ Kind[open].after = "effect"
    BY <1>1, <1>2, EffectInvariant, ListsAre DEF RowChanged
<1>3. CASE c.of = open /\ Kind[open].after # "effect"
             /\ (Kind[open].after # "begun" \/ c.by = query[open])
    <2>1. Begin(open, query[open]) /\ UNCHANGED timers
        BY <1>3 DEF RowChanged, FiltersAtEnd
    <2>2. overtaken' = (overtaken \ {open}) \cup Misled(c)
        BY <1>3 DEF RowChanged
    <2>3. Misled(c) \subseteq Lists
        BY <1>3, ListsAre, AlikeLists DEF Misled
    <2> QED
        BY <1>1, <2>1, <2>2, <2>3, BeginInvariant, ListsAre
<1> QED
    BY <1>2, <1>3, OldFiltersInvariant, OtherTabInvariant

LEMMA ListKeepsInvariant ==
    ListInvariant /\ [ListNext]_listVars => ListInvariant'
<1> SUFFICES ASSUME ListInvariant, [ListNext]_listVars
             PROVE  ListInvariant'
    OBVIOUS
<1>1. ASSUME NEW l \in Lists, NEW asks \in Asks, AskFor(l, asks)
      PROVE  ListInvariant'
    BY <1>1, AskForInvariant
<1>2. ASSUME NEW l \in Lists, Renew(l)
      PROVE  ListInvariant'
    BY <1>2, EffectInvariant, ListsAre DEF Renew
<1>3. ASSUME NEW l \in Lists, OpenOther(l)
      PROVE  ListInvariant'
    BY <1>3, OpenOtherInvariant
<1>4. ASSUME NEW l \in Lists, TimerLoads(l) \/ RunByHand(l)
      PROVE  ListInvariant'
    BY <1>4, LoadsInvariant
<1>5. ASSUME NEW l \in Lists, ChangeRow(l)
      PROVE  ListInvariant'
    BY <1>5, ChangeRowInvariant
<1>6. ASSUME NEW r \in request, AnswerComes(r) \/ Fail(r)
      PROVE  ListInvariant'
    BY <1>6, AnswerInvariant, FailInvariant
<1>7. ASSUME NEW c \in row, RowChanged(c)
      PROVE  ListInvariant'
    BY <1>7, RowChangedInvariant
<1>8. CASE UNCHANGED listVars
    BY <1>8 DEF listVars, ListInvariant, ListsTyped, ListTypeOK, OnlyOpen,
       WaitsForAsked, ListsShowWhatIsAsked, Awaited
<1> QED
    BY <1>1, <1>2, <1>3, <1>4, <1>5, <1>6, <1>7, <1>8 DEF ListNext

-----------------------------------------------------------------------------
(* The messages.                                                           *)

Fetches == [kind : Kinds, of : Whom, saw : {NotRead} \cup Nat,
            aborted : BOOLEAN]

CenterTyped ==
    /\ mode \in {"direct", "broadcast"} /\ customer \in Whom
    /\ thread \in [of : Whom, has : Nat] /\ notices \in Nat
    /\ due \subseteq KindsOf(mode) /\ waits \subseteq Kinds
    /\ fetches \subseteq Fetches
    /\ sends \subseteq [to : Whom, arrived : BOOLEAN]
    /\ arrived \in [Whom -> Nat] /\ sent \in [Whom -> Nat]

(* Whoever is told that a message is sent is told so after it arrived.     *)
SentArrived ==
    /\ \A c \in Whom : sent[c] <= arrived[c]
    /\ \A m \in sends : m.arrived => sent[m.to] < arrived[m.to]

(* A request that nobody aborted is for what is on the screen, and its     *)
(* answer misses no message that the administrator was told is sent.       *)
IsCurrent(r) ==
    /\ ~hidden /\ r.kind \in KindsOf(mode)
    /\ r.kind = "thread" => r.of = customer /\ customer # 0
    /\ r.kind = "notices" => r.of = 0
    /\ r.kind # "list" => r.saw = NotRead \/ r.saw >= sent[r.of]

FetchesAreCurrent == \A r \in fetches : ~r.aborted => IsCurrent(r)

(* What is fetched and not aborted is for the screen as it is.             *)
CenterInvariant ==
    CenterTyped /\ SentArrived /\ FetchesAreCurrent /\ ThreadIsOfCustomer

-----------------------------------------------------------------------------

LEMMA KindsOfMode ==
    ASSUME NEW m
    PROVE  /\ KindsOf(m) \subseteq Kinds
           /\ "thread" \in KindsOf(m) <=> m = "direct"
           /\ "notices" \in KindsOf(m) <=> m # "direct"
BY DEF KindsOf, Kinds

LEMMA CenterTypes == CenterInvariant => CenterTypeOK
<1> SUFFICES ASSUME CenterInvariant PROVE CenterTypeOK
    OBVIOUS
<1>1. due \subseteq Kinds
    BY KindsOfMode DEF CenterInvariant, CenterTyped
<1>2. \A r \in fetches : r.kind \in Kinds /\ r.of \in Whom
    BY DEF CenterInvariant, CenterTyped, Fetches
<1> QED
    BY <1>1, <1>2 DEF CenterInvariant, CenterTyped, SentArrived, CenterTypeOK

(* A request that is aborted stays, if it stays, without being heard.      *)
LEMMA AbortedFetches ==
    ASSUME fetches \subseteq Fetches, NEW ks
    PROVE  /\ AbortedOf(ks) \subseteq Fetches
           /\ \A r \in AbortedOf(ks) :
                 ~r.aborted => r \in fetches /\ r.kind \notin ks
           /\ \A r \in fetches : r.kind \notin ks => r \in AbortedOf(ks)
<1> DEFINE old == {q \in fetches : q.kind \in ks \cap {"thread"}}
           stop(r) == [r EXCEPT !.aborted = TRUE, !.saw = 0]
<1>1. AbortedOf(ks) = {r \in fetches : r.kind \notin ks}
                      \cup {stop(r) : r \in old}
    BY DEF AbortedOf
<1>2. ASSUME NEW r \in old
      PROVE  stop(r) \in Fetches /\ stop(r).aborted
    BY DEF Fetches
<1> HIDE DEF stop, old
<1> QED
    BY <1>1, <1>2

LEMMA CenterInitInvariant == CenterInit => CenterInvariant
<1> SUFFICES ASSUME CenterInit PROVE CenterInvariant
    OBVIOUS
<1>1. CenterTyped
    <2>1. arrived \in [Whom -> Nat] /\ sent \in [Whom -> Nat]
        BY DEF CenterInit
    <2>2. thread \in [of : Whom, has : Nat]
        BY DEF CenterInit, Blank, Whom
    <2>3. due \subseteq KindsOf(mode)
        BY DEF CenterInit, KindsOf
    <2> QED
        BY <2>1, <2>2, <2>3 DEF CenterInit, CenterTyped
<1>2. SentArrived
    BY DEF CenterInit, SentArrived
<1>3. FetchesAreCurrent
    BY DEF CenterInit, FetchesAreCurrent
<1>4. ThreadIsOfCustomer
    BY DEF CenterInit, ThreadIsOfCustomer, AtRest, Blank
<1> QED
    BY <1>1, <1>2, <1>3, <1>4 DEF CenterInvariant

(* What Load() leaves: the requests that run are the old ones that it      *)
(* spared and new ones, of each kind that it was to load.                  *)
LEMMA LoadIs ==
    ASSUME CenterTyped, NEW ks \in SUBSET Kinds, NEW silent \in BOOLEAN,
           Load(ks, silent)
    PROVE  /\ fetches' \subseteq Fetches
           /\ \A r \in fetches' : ~r.aborted =>
                 \/ /\ r \in fetches /\ (r.kind \in ks => silent)
                 \/ /\ r.kind \in ks
                    /\ r.kind = "thread" => r.of = customer /\ customer # 0
                    /\ r.kind = "notices" => r.of = 0
                    /\ r.kind # "list" => r.saw = NotRead
           /\ \A k \in ks : \/ \E r \in fetches' : r.kind = k /\ ~r.aborted
                            \/ k = "thread" /\ customer = 0 /\ k \notin waits'
           /\ \A r \in fetches : r.kind \notin ks => r \in fetches'
           /\ waits' \subseteq waits \cup ks
           /\ broken \ ks \subseteq broken'
           /\ thread' \in {thread, Blank}
           /\ customer # 0 => thread' = thread
<1> DEFINE wanted == {k \in ks : ~silent \/ Running(k) = {}}
           asked == IF customer = 0 THEN wanted \ {"thread"} ELSE wanted
           one(k) == [kind |-> k, of |-> IF k = "thread" THEN customer ELSE 0,
                      saw |-> IF k = "list" THEN 0 ELSE NotRead,
                      aborted |-> FALSE]
           new == {one(k) : k \in asked}
<1>1. /\ fetches' = AbortedOf(wanted) \cup new
      /\ waits' = (waits \cup IF silent THEN {} ELSE asked)
                     \ (wanted \ asked)
      /\ broken' = broken \ asked
      /\ thread' = IF wanted = asked THEN thread ELSE Blank
    BY DEF Load
<1>2. /\ asked \subseteq wanted /\ wanted \subseteq ks
      /\ wanted \ asked \subseteq {"thread"}
      /\ customer = 0 => "thread" \notin asked
      /\ customer # 0 => wanted = asked
    OBVIOUS
<1>3. ASSUME NEW k \in asked
      PROVE  /\ one(k) \in Fetches /\ one(k).kind = k /\ ~one(k).aborted
             /\ k = "thread" => one(k).of = customer
             /\ k # "thread" => one(k).of = 0
             /\ k # "list" => one(k).saw = NotRead
    <2>1. k \in Kinds /\ customer \in Whom /\ 0 \in Whom
        BY DEF CenterTyped, Whom
    <2> QED
        BY <2>1 DEF Fetches
<1>4. \A k \in ks \ wanted : silent /\ Running(k) # {}
    OBVIOUS
<1>5. \A r \in fetches : ~r.aborted /\ r.kind \in ks \ wanted => silent
    BY <1>4
<1> HIDE DEF one, wanted, asked
<1>6. /\ AbortedOf(wanted) \subseteq Fetches
      /\ \A r \in AbortedOf(wanted) :
            ~r.aborted => r \in fetches /\ r.kind \notin wanted
      /\ \A r \in fetches : r.kind \notin wanted => r \in AbortedOf(wanted)
    BY AbortedFetches DEF CenterTyped
<1>7. fetches' \subseteq Fetches
    BY <1>1, <1>3, <1>6
<1>8. ASSUME NEW r \in fetches', ~r.aborted
      PROVE  \/ /\ r \in fetches /\ (r.kind \in ks => silent)
             \/ /\ r.kind \in ks
                /\ r.kind = "thread" => r.of = customer /\ customer # 0
                /\ r.kind = "notices" => r.of = 0
                /\ r.kind # "list" => r.saw = NotRead
    <2>1. CASE r \in AbortedOf(wanted)
        BY <1>5, <1>6, <1>8, <2>1
    <2>2. CASE r \in new
        BY <1>2, <1>3, <2>2
    <2> QED
        BY <1>1, <2>1, <2>2
<1>9. ASSUME NEW k \in ks
      PROVE  \/ \E r \in fetches' : r.kind = k /\ ~r.aborted
             \/ k = "thread" /\ customer = 0 /\ k \notin waits'
    <2>1. CASE k \in asked
        BY <1>1, <1>3, <2>1
    <2>2. CASE k \in wanted \ asked
        BY <1>1, <1>2, <2>2
    <2>3. CASE k \notin wanted
        <3>1. PICK r \in fetches : r.kind = k /\ ~r.aborted
            BY <1>4, <2>3 DEF Running
        <3> QED
            BY <1>1, <1>6, <2>3, <3>1
    <2> QED
        BY <2>1, <2>2, <2>3
<1>10. \A r \in fetches : r.kind \notin ks => r \in fetches'
    BY <1>1, <1>2, <1>6
<1>11. waits' \subseteq waits \cup ks /\ broken \ ks \subseteq broken'
    BY <1>1, <1>2
<1>12. thread' \in {thread, Blank} /\ (customer # 0 => thread' = thread)
    BY <1>1, <1>2
<1> QED
    BY <1>7, <1>8, <1>9, <1>10, <1>11, <1>12

(* The parts of the invariant that a step keeps whose requests, waits and  *)
(* timers are those of Load().                                             *)
LEMMA LoadInvariant ==
    ASSUME CenterInvariant, NEW ks \in SUBSET KindsOf(mode),
           NEW silent \in BOOLEAN, Load(ks, silent), ~hidden',
           hidden => ks = KindsOf(mode),
           due' \subseteq due, due \ ks \subseteq due',
           SentArrived', sends' \subseteq [to : Whom, arrived : BOOLEAN],
           sent' \in [Whom -> Nat],
           UNCHANGED sent \/ (ks = KindsOf(mode) /\ ~silent),
           UNCHANGED <<mode, customer, notices, arrived>>
    PROVE  CenterInvariant'
<1>0. /\ mode \in {"direct", "broadcast"} /\ customer \in Whom
      /\ thread \in [of : Whom, has : Nat] /\ fetches \subseteq Fetches
    BY DEF CenterInvariant, CenterTyped
<1>1. /\ fetches' \subseteq Fetches
      /\ \A r \in fetches' : ~r.aborted =>
            \/ /\ r \in fetches /\ (r.kind \in ks => silent)
            \/ /\ r.kind \in ks
               /\ r.kind = "thread" => r.of = customer /\ customer # 0
               /\ r.kind = "notices" => r.of = 0
               /\ r.kind # "list" => r.saw = NotRead
      /\ \A k \in ks : \/ \E r \in fetches' : r.kind = k /\ ~r.aborted
                       \/ k = "thread" /\ customer = 0 /\ k \notin waits'
      /\ \A r \in fetches : r.kind \notin ks => r \in fetches'
      /\ waits' \subseteq waits \cup ks
      /\ broken \ ks \subseteq broken'
      /\ thread' \in {thread, Blank}
      /\ customer # 0 => thread' = thread
    <2>1. ks \in SUBSET Kinds
        BY KindsOfMode
    <2> QED
        BY <2>1, LoadIs DEF CenterInvariant
<1>2. CenterTyped'
    <2>1. thread' \in [of : Whom, has : Nat]
        BY <1>0, <1>1 DEF Blank, Whom
    <2>2. waits' \subseteq Kinds
        BY <1>1, KindsOfMode DEF CenterInvariant, CenterTyped
    <2>3. KindsOf(mode)' = KindsOf(mode)
        BY DEF KindsOf
    <2> QED
        BY <1>1, <2>1, <2>2, <2>3 DEF CenterInvariant, CenterTyped
<1>3. FetchesAreCurrent'
    <2> SUFFICES ASSUME NEW r \in fetches', ~r.aborted
                 PROVE  /\ r.kind \in KindsOf(mode)
                        /\ r.kind = "thread" => r.of = customer /\ customer # 0
                        /\ r.kind = "notices" => r.of = 0
                        /\ r.kind # "list" => \/ r.saw = NotRead
                                              \/ r.saw >= sent'[r.of]
        BY DEF FetchesAreCurrent, IsCurrent, KindsOf
    <2>1. CASE r \in fetches /\ (r.kind \in ks => silent)
        <3>1. IsCurrent(r)
            BY <2>1 DEF CenterInvariant, FetchesAreCurrent
        <3>2. UNCHANGED sent
            BY <2>1, <3>1 DEF IsCurrent
        <3> QED
            BY <3>1, <3>2 DEF IsCurrent
    <2>2. CASE ~(r \in fetches /\ (r.kind \in ks => silent))
        BY <1>1, <2>2
    <2> QED
        BY <2>1, <2>2
<1>4. ASSUME NEW k \in KindsOf(mode) \ ks
      PROVE  /\ AtRest(k)' => AtRest(k)
             /\ Running(k) # {} => Running(k)' # {}
             /\ ~hidden /\ UNCHANGED sent
    <2>1. Running(k) \subseteq Running(k)'
        BY <1>1 DEF Running
    <2>2. due \ ks \subseteq due' /\ broken \ ks \subseteq broken'
        BY <1>1
    <2>3. AtRest(k)' => AtRest(k)
        BY <2>1, <2>2 DEF AtRest
    <2>4. ks # KindsOf(mode) /\ ~hidden
        OBVIOUS
    <2> QED
        BY <2>1, <2>3, <2>4
<1>5. ASSUME NEW k \in ks
      PROVE  \/ Running(k)' # {}
             \/ k = "thread" /\ customer = 0 /\ k \notin waits'
    <2>1. CASE \E r \in fetches' : r.kind = k /\ ~r.aborted
        BY <2>1 DEF Running
    <2> QED
        BY <1>1, <2>1
<1>6. thread'.of \in {0, customer}
    BY <1>1 DEF CenterInvariant, ThreadIsOfCustomer, Blank
<1>7. ASSUME mode = "direct", customer # 0, AtRest("thread")'
      PROVE  thread'.of = customer /\ thread'.has >= sent'[customer]
    <2>1. "thread" \in KindsOf(mode) \ ks
        BY <1>5, <1>7, KindsOfMode DEF AtRest
    <2> QED
        BY <1>1, <1>4, <1>7, <2>1 DEF CenterInvariant, ThreadIsOfCustomer
<1>8. ASSUME mode = "broadcast", AtRest("notices")'
      PROVE  notices' >= sent'[0]
    <2>1. "notices" \in KindsOf(mode) \ ks
        BY <1>5, <1>8, KindsOfMode DEF AtRest
    <2> QED
        BY <1>4, <1>8, <2>1 DEF CenterInvariant, ThreadIsOfCustomer
<1>9. ASSUME NEW k \in waits' \cap KindsOf(mode)
      PROVE  k \in due' \/ Running(k)' # {}
    <2>1. CASE k \in ks
        BY <1>5, <1>9, <2>1
    <2>2. CASE k \notin ks
        <3>1. k \in waits /\ ~hidden
            BY <1>1, <1>4, <2>2
        <3>2. k \in due \/ Running(k) # {}
            BY <3>1 DEF CenterInvariant, ThreadIsOfCustomer
        <3> QED
            BY <1>4, <2>2, <3>2
    <2> QED
        BY <2>1, <2>2
<1>10. ThreadIsOfCustomer'
    <2>1. KindsOf(mode)' = KindsOf(mode)
        BY DEF KindsOf
    <2> QED
        BY <1>6, <1>7, <1>8, <1>9, <2>1 DEF ThreadIsOfCustomer
<1> QED
    BY <1>2, <1>3, <1>10 DEF CenterInvariant

(* What is aborted does not run, and nothing else stops.                   *)
LEMMA AbortedRun ==
    ASSUME fetches \subseteq Fetches, NEW ks, fetches' = AbortedOf(ks)
    PROVE  /\ fetches' \subseteq Fetches
           /\ \A r \in fetches' :
                 ~r.aborted => r \in fetches /\ r.kind \notin ks
           /\ \A k : k \notin ks => Running(k)' = Running(k)
BY AbortedFetches DEF Running

LEMMA SelectInvariant ==
    ASSUME CenterInvariant, mode = "direct", NEW c \in Customers, Select(c)
    PROVE  CenterInvariant'
<1>1. /\ customer' = c /\ thread' = Blank /\ fetches' = AbortedOf({"thread"})
      /\ due' = due \cup {"thread"}
      /\ UNCHANGED <<mode, hidden, notices, loaded, waits, broken, sends,
                     arrived, sent>>
    BY DEF Select, RunEffects
<1>2. /\ fetches' \subseteq Fetches
      /\ \A r \in fetches' :
            ~r.aborted => r \in fetches /\ r.kind \notin {"thread"}
      /\ \A k : k \notin {"thread"} => Running(k)' = Running(k)
    BY <1>1, AbortedRun DEF CenterInvariant, CenterTyped
<1>3. CenterTyped'
    <2>1. /\ Blank \in [of : Whom, has : Nat] /\ c \in Whom
          /\ "thread" \in KindsOf(mode) /\ KindsOf(mode)' = KindsOf(mode)
        BY <1>1, KindsOfMode DEF Blank, Whom, KindsOf
    <2> QED
        BY <1>1, <1>2, <2>1 DEF CenterInvariant, CenterTyped
<1>4. FetchesAreCurrent'
    <2>1. ASSUME NEW r \in fetches', ~r.aborted
          PROVE  IsCurrent(r)'
        BY <1>1, <1>2, <2>1
        DEF CenterInvariant, FetchesAreCurrent, IsCurrent, KindsOf
    <2> QED
        BY <2>1 DEF FetchesAreCurrent
<1>5. ThreadIsOfCustomer'
    <2>1. /\ ~AtRest("thread")' /\ thread'.of = 0
          /\ mode' # "broadcast" /\ KindsOf(mode)' = KindsOf(mode)
        BY <1>1 DEF AtRest, Blank, KindsOf
    <2>2. ASSUME NEW k \in waits' \cap KindsOf(mode), ~hidden
          PROVE  k \in due' \/ Running(k)' # {}
        BY <1>1, <1>2, <2>2 DEF CenterInvariant, ThreadIsOfCustomer
    <2> QED
        BY <1>1, <2>1, <2>2 DEF ThreadIsOfCustomer
<1>6. SentArrived'
    BY <1>1 DEF CenterInvariant, SentArrived
<1> QED
    BY <1>3, <1>4, <1>5, <1>6 DEF CenterInvariant

LEMMA SearchInvariant ==
    ASSUME CenterInvariant, Search
    PROVE  CenterInvariant'
<1>1. /\ mode = "direct" /\ fetches' = AbortedOf({"list"})
      /\ due' = due \cup {"list"}
      /\ UNCHANGED <<mode, hidden, customer, thread, notices, loaded, waits,
                     broken, sends, arrived, sent>>
    BY DEF Search, RunEffects
<1>2. /\ fetches' \subseteq Fetches
      /\ \A r \in fetches' :
            ~r.aborted => r \in fetches /\ r.kind \notin {"list"}
      /\ \A k : k \notin {"list"} => Running(k)' = Running(k)
    BY <1>1, AbortedRun DEF CenterInvariant, CenterTyped
<1>3. CenterTyped'
    <2>1. "list" \in KindsOf(mode) /\ KindsOf(mode)' = KindsOf(mode)
        BY <1>1 DEF KindsOf
    <2> QED
        BY <1>1, <1>2, <2>1 DEF CenterInvariant, CenterTyped
<1>4. FetchesAreCurrent'
    <2>1. ASSUME NEW r \in fetches', ~r.aborted
          PROVE  IsCurrent(r)'
        BY <1>1, <1>2, <2>1
        DEF CenterInvariant, FetchesAreCurrent, IsCurrent, KindsOf
    <2> QED
        BY <2>1 DEF FetchesAreCurrent
<1>5. ThreadIsOfCustomer'
    <2>1. /\ AtRest("thread")' => AtRest("thread")
          /\ KindsOf(mode)' = KindsOf(mode)
        BY <1>1, <1>2 DEF AtRest, KindsOf
    <2>2. ASSUME NEW k \in waits' \cap KindsOf(mode), ~hidden
          PROVE  k \in due' \/ Running(k)' # {}
        BY <1>1, <1>2, <2>2 DEF CenterInvariant, ThreadIsOfCustomer
    <2> QED
        BY <1>1, <2>1, <2>2 DEF CenterInvariant, ThreadIsOfCustomer
<1>6. SentArrived'
    BY <1>1 DEF CenterInvariant, SentArrived
<1> QED
    BY <1>3, <1>4, <1>5, <1>6 DEF CenterInvariant

(* Every request is aborted: the view is another one, or hidden.           *)
LEMMA AwayInvariant ==
    ASSUME CenterInvariant, fetches' = AbortedOf(Kinds),
           mode' \in {"direct", "broadcast"}, due' \subseteq KindsOf(mode'),
           hidden' \/ due' = KindsOf(mode'),
           UNCHANGED <<customer, thread, notices, waits, broken, sends,
                       arrived, sent>>
    PROVE  CenterInvariant'
<1>1. /\ fetches' \subseteq Fetches
      /\ \A r \in fetches' : ~r.aborted => r.kind \notin Kinds
    BY AbortedRun DEF CenterInvariant, CenterTyped
<1>2. \A r \in fetches' : r.aborted
    BY <1>1 DEF Fetches
<1>3. KindsOf(mode)' = KindsOf(mode')
    BY DEF KindsOf
<1>4. CenterTyped'
    BY <1>1, <1>3 DEF CenterInvariant, CenterTyped
<1>5. FetchesAreCurrent'
    BY <1>2 DEF FetchesAreCurrent
<1>6. ThreadIsOfCustomer'
    <2>1. hidden' \/ (/\ mode' = "direct" => ~AtRest("thread")'
                      /\ mode' = "broadcast" => ~AtRest("notices")')
        BY KindsOfMode DEF AtRest
    <2> QED
        BY <1>3, <2>1 DEF CenterInvariant, ThreadIsOfCustomer
<1>7. SentArrived'
    BY DEF CenterInvariant, SentArrived
<1> QED
    BY <1>4, <1>5, <1>6, <1>7 DEF CenterInvariant

LEMMA ReadInvariant ==
    ASSUME CenterInvariant, NEW r \in fetches, Read(r)
    PROVE  CenterInvariant'
<1>1. /\ fetches' = (fetches \ {r}) \cup {[r EXCEPT !.saw = arrived[r.of]]}
      /\ UNCHANGED <<mode, hidden, customer, thread, notices, loaded, due,
                     waits, broken, sends, arrived, sent>>
    BY DEF Read
<1>2. r \in Fetches /\ r.of \in Whom /\ arrived[r.of] \in Nat
    BY DEF CenterInvariant, CenterTyped, Fetches
<1>3. PICK q \in Fetches : /\ q = [r EXCEPT !.saw = arrived[r.of]]
                           /\ q.kind = r.kind /\ q.of = r.of
                           /\ q.aborted <=> r.aborted
                           /\ q.saw = arrived[r.of]
    <2> DEFINE read == arrived[r.of]
    <2>1. read \in Nat
        BY <1>2
    <2> HIDE DEF read
    <2>2. LET q == [r EXCEPT !.saw = read]
          IN  /\ q \in Fetches /\ q.kind = r.kind /\ q.of = r.of
              /\ (q.aborted <=> r.aborted) /\ q.saw = read
        BY <1>2, <2>1 DEF Fetches
    <2> QED
        BY <2>2 DEF read
<1>4. /\ fetches' = (fetches \ {r}) \cup {q}
      /\ sent[q.of] <= arrived[q.of] /\ sent[q.of] \in Nat
    BY <1>1, <1>2, <1>3 DEF CenterInvariant, SentArrived, CenterTyped
<1>5. \A k : Running(k) = {} <=> Running(k)' = {}
    BY <1>3, <1>4 DEF Running
<1>6. CenterTyped' /\ SentArrived'
    BY <1>1, <1>3, <1>4
    DEF CenterInvariant, CenterTyped, SentArrived, KindsOf
<1>7. FetchesAreCurrent'
    <2>1. ASSUME NEW s \in fetches \ {r}, ~s.aborted
          PROVE  IsCurrent(s)'
        BY <1>1, <2>1
        DEF CenterInvariant, FetchesAreCurrent, IsCurrent, KindsOf
    <2>2. ~q.aborted => IsCurrent(q)'
        BY <1>1, <1>2, <1>3, <1>4
        DEF CenterInvariant, FetchesAreCurrent, IsCurrent, KindsOf
    <2> QED
        BY <1>4, <2>1, <2>2 DEF FetchesAreCurrent
<1>8. ThreadIsOfCustomer'
    BY <1>1, <1>5
    DEF CenterInvariant, ThreadIsOfCustomer, AtRest, KindsOf
<1> QED
    BY <1>6, <1>7, <1>8 DEF CenterInvariant

(* An answer that counts is what the page shows now.                       *)
LEMMA FetchReturnsInvariant ==
    ASSUME CenterInvariant, NEW r \in fetches, LoadReturns(r)
    PROVE  CenterInvariant'
<1>1. /\ fetches' = fetches \ {r} /\ r.saw # NotRead /\ r \in Fetches
      /\ UNCHANGED <<mode, hidden, customer, due, broken, sends, arrived,
                     sent>>
    BY DEF LoadReturns, CenterInvariant, CenterTyped
<1>2. FetchesAreCurrent' /\ SentArrived' /\ KindsOf(mode)' = KindsOf(mode)
    BY <1>1 DEF CenterInvariant, FetchesAreCurrent, IsCurrent, SentArrived,
       KindsOf
<1>3. CASE r.aborted
    <2>1. UNCHANGED <<thread, notices, waits>>
        BY <1>3 DEF LoadReturns, Heard
    <2>2. \A k : Running(k)' = Running(k)
        BY <1>1, <1>3 DEF Running
    <2>3. CenterTyped' /\ ThreadIsOfCustomer'
        BY <1>1, <1>2, <2>1, <2>2 DEF CenterInvariant, CenterTyped,
           ThreadIsOfCustomer, AtRest
    <2> QED
        BY <1>2, <2>3 DEF CenterInvariant
<1>4. CASE ~r.aborted
    <2>1. /\ thread' = IF r.kind = "thread"
                       THEN [of |-> r.of, has |-> r.saw] ELSE thread
          /\ notices' = IF r.kind = "notices" THEN r.saw ELSE notices
          /\ waits' = waits \ {r.kind}
        BY <1>4 DEF LoadReturns, Heard
    <2>2. /\ IsCurrent(r) /\ r.saw \in Nat /\ r.of \in Whom
          /\ r.kind \in Kinds
        BY <1>1, <1>4 DEF Fetches, CenterInvariant, FetchesAreCurrent
    <2>3. \A k : k # r.kind => Running(k)' = Running(k)
        BY <1>1 DEF Running
    <2>4. CenterTyped'
        BY <1>1, <1>2, <2>1, <2>2 DEF CenterInvariant, CenterTyped
    <2>5. /\ thread'.of \in {0, customer}
          /\ r.kind = "thread" => thread'.of = customer
                                  /\ thread'.has >= sent[customer]
          /\ r.kind = "notices" => notices' >= sent[0]
        BY <1>1, <2>1, <2>2
        DEF IsCurrent, CenterInvariant, ThreadIsOfCustomer
    <2>6. ASSUME NEW k, k # r.kind
          PROVE  AtRest(k)' = AtRest(k)
        BY <1>1, <2>3, <2>6 DEF AtRest
    <2>7. ThreadIsOfCustomer'
        BY <1>1, <1>2, <2>1, <2>3, <2>5, <2>6
        DEF CenterInvariant, ThreadIsOfCustomer
    <2> QED
        BY <1>2, <2>4, <2>7 DEF CenterInvariant
<1> QED
    BY <1>3, <1>4

LEMMA LoadFailsInvariant ==
    ASSUME CenterInvariant, NEW r \in fetches, LoadFails(r)
    PROVE  CenterInvariant'
<1>1. /\ fetches' = fetches \ {r} /\ waits' = waits \ {r.kind}
      /\ broken' = broken \cup {r.kind}
      /\ UNCHANGED <<mode, hidden, customer, thread, notices, loaded, due,
                     sends, arrived, sent>>
    BY DEF LoadFails
<1>2. /\ FetchesAreCurrent' /\ SentArrived' /\ CenterTyped'
      /\ KindsOf(mode)' = KindsOf(mode)
    BY <1>1 DEF CenterInvariant, FetchesAreCurrent, IsCurrent, SentArrived,
       KindsOf, CenterTyped
<1>3. \A k : k # r.kind => Running(k)' = Running(k)
    BY <1>1 DEF Running
<1>4. \A k : AtRest(k)' => AtRest(k) /\ k # r.kind
    BY <1>1, <1>3 DEF AtRest
<1>5. ThreadIsOfCustomer'
    BY <1>1, <1>2, <1>3, <1>4 DEF CenterInvariant, ThreadIsOfCustomer
<1> QED
    BY <1>2, <1>5 DEF CenterInvariant

(* Nothing but the messages on their way changes.                          *)
LEMMA SendingInvariant ==
    ASSUME CenterInvariant, SentArrived',
           sends' \subseteq [to : Whom, arrived : BOOLEAN],
           arrived' \in [Whom -> Nat],
           UNCHANGED <<mode, hidden, customer, thread, notices, loaded, due,
                       fetches, waits, broken, sent>>
    PROVE  CenterInvariant'
<1>1. CenterTyped' /\ FetchesAreCurrent'
    BY DEF CenterInvariant, CenterTyped, FetchesAreCurrent, IsCurrent,
       KindsOf
<1>2. ThreadIsOfCustomer'
    BY DEF CenterInvariant, ThreadIsOfCustomer, AtRest, Running, KindsOf
<1> QED
    BY <1>1, <1>2 DEF CenterInvariant

LEMMA TimerInvariant ==
    ASSUME CenterInvariant, NEW k \in Kinds, TimerRuns(k)
    PROVE  CenterInvariant'
<1>1. /\ k \in due /\ due' = due \ {k} /\ k \in KindsOf(mode)
      /\ UNCHANGED <<mode, hidden, customer, notices, loaded, sends, arrived,
                     sent>>
    BY DEF TimerRuns, CenterInvariant, CenterTyped
<1>2. /\ SentArrived' /\ sends' \subseteq [to : Whom, arrived : BOOLEAN]
      /\ sent' \in [Whom -> Nat]
    BY <1>1 DEF CenterInvariant, SentArrived, CenterTyped
<1>3. CASE hidden
    <2>1. UNCHANGED <<fetches, waits, broken, thread>>
        BY <1>3 DEF TimerRuns
    <2>2. CenterTyped' /\ FetchesAreCurrent'
        BY <1>1, <2>1 DEF CenterInvariant, CenterTyped, FetchesAreCurrent,
           IsCurrent, KindsOf
    <2>3. ThreadIsOfCustomer'
        BY <1>1, <1>3, <2>1 DEF CenterInvariant, ThreadIsOfCustomer
    <2> QED
        BY <1>2, <2>2, <2>3 DEF CenterInvariant
<1>4. CASE ~hidden
    <2>1. ~hidden' /\ {k} \in SUBSET KindsOf(mode)
        BY <1>1, <1>4
    <2>3. Load({k}, FALSE)
        BY <1>4, Zenon DEF TimerRuns
    <2>2. due' \subseteq due /\ due \ {k} \subseteq due'
        BY <1>1
    <2> QED
        BY <1>1, <1>2, <1>4, <2>1, <2>2, <2>3, LoadInvariant
<1> QED
    BY <1>3, <1>4

LEMMA PollInvariant ==
    ASSUME CenterInvariant, Poll \/ PressRefresh \/ ComeBack
    PROVE  CenterInvariant'
<1>1. /\ ~hidden'
      /\ UNCHANGED <<mode, customer, notices, due, sends, arrived, sent>>
    <2>1. CASE Poll
        BY <2>1 DEF Poll
    <2>2. CASE PressRefresh
        BY <2>2 DEF PressRefresh
    <2>3. CASE ComeBack
        BY <2>3 DEF ComeBack
    <2> QED
        BY <2>1, <2>2, <2>3
<1>2. PICK silent \in BOOLEAN : Load(KindsOf(mode), silent)
    BY DEF Poll, PressRefresh, ComeBack
<1>3. /\ SentArrived' /\ sends' \subseteq [to : Whom, arrived : BOOLEAN]
      /\ sent' \in [Whom -> Nat]
    BY <1>1 DEF CenterInvariant, SentArrived, CenterTyped
<1>4. due' \subseteq due /\ due \ KindsOf(mode) \subseteq due'
    BY <1>1
<1> QED
    BY <1>1, <1>2, <1>3, <1>4, LoadInvariant

LEMMA WriteInvariant ==
    ASSUME CenterInvariant, WriteMessage
    PROVE  CenterInvariant'
<1> DEFINE to == IF mode = "direct" THEN customer ELSE 0
           m == [to |-> to, arrived |-> FALSE]
<1>1. /\ sends' = {m} /\ ~m.arrived
      /\ UNCHANGED <<mode, hidden, customer, thread, notices, loaded, due,
                     fetches, waits, broken, arrived, sent>>
    BY DEF WriteMessage
<1>2. m \in [to : Whom, arrived : BOOLEAN]
    BY DEF CenterInvariant, CenterTyped, Whom
<1> HIDE DEF m
<1>3. /\ SentArrived' /\ sends' \subseteq [to : Whom, arrived : BOOLEAN]
      /\ arrived' \in [Whom -> Nat]
    BY <1>1, <1>2 DEF CenterInvariant, SentArrived, CenterTyped
<1> QED
    BY <1>1, <1>3, SendingInvariant

LEMMA ArrivesInvariant ==
    ASSUME CenterInvariant, NEW m \in sends, MessageArrives(m)
    PROVE  CenterInvariant'
<1>1. /\ sends' = {[m EXCEPT !.arrived = TRUE]}
      /\ arrived' = [arrived EXCEPT ![m.to] = @ + 1]
      /\ UNCHANGED <<mode, hidden, customer, thread, notices, loaded, due,
                     fetches, waits, broken, sent>>
    BY DEF MessageArrives
<1>2. m \in [to : Whom, arrived : BOOLEAN]
    BY DEF CenterInvariant, CenterTyped
<1>3. PICK n \in [to : Whom, arrived : BOOLEAN] :
         n = [m EXCEPT !.arrived = TRUE] /\ n.to = m.to
    <2>1. LET n == [m EXCEPT !.arrived = TRUE]
          IN  n \in [to : Whom, arrived : BOOLEAN] /\ n.to = m.to
        BY <1>2
    <2> QED
        BY <2>1
<1>4. /\ arrived' \in [Whom -> Nat] /\ arrived'[m.to] = arrived[m.to] + 1
      /\ \A c \in Whom \ {m.to} : arrived'[c] = arrived[c]
    BY <1>1, <1>2 DEF CenterInvariant, CenterTyped
<1>5. SentArrived'
    <2>1. \A c \in Whom : arrived[c] \in Nat /\ sent[c] \in Nat
                          /\ sent[c] <= arrived[c]
        BY DEF CenterInvariant, CenterTyped, SentArrived
    <2>2. \A c \in Whom : sent[c] <= arrived'[c]
        BY <1>4, <2>1
    <2>3. sent[m.to] < arrived'[m.to]
        BY <1>2, <1>4, <2>1
    <2> QED
        BY <1>1, <1>3, <2>2, <2>3 DEF SentArrived
<1> QED
    BY <1>1, <1>3, <1>4, <1>5, SendingInvariant

LEMMA SendFailsInvariant ==
    ASSUME CenterInvariant, NEW m \in sends, SendFails(m)
    PROVE  CenterInvariant'
<1>1. /\ sends' = {}
      /\ UNCHANGED <<mode, hidden, customer, thread, notices, loaded, due,
                     fetches, waits, broken, arrived, sent>>
    BY DEF SendFails
<1>2. SentArrived' /\ arrived' \in [Whom -> Nat]
    BY <1>1 DEF CenterInvariant, SentArrived, CenterTyped
<1> QED
    BY <1>1, <1>2, SendingInvariant

(* The answer that a message is sent, which the view that is open follows. *)
LEMMA SentInvariant ==
    ASSUME CenterInvariant, NEW m \in sends, MessageSent(m)
    PROVE  CenterInvariant'
<1>1. /\ m.arrived /\ sends' = {} /\ sent' = [sent EXCEPT ![m.to] = @ + 1]
      /\ UNCHANGED <<mode, hidden, customer, notices, loaded, due, arrived>>
    BY DEF MessageSent
<1>2. m \in [to : Whom, arrived : BOOLEAN] /\ sent[m.to] < arrived[m.to]
    BY <1>1 DEF CenterInvariant, CenterTyped, SentArrived
<1>3. /\ sent' \in [Whom -> Nat] /\ sent'[m.to] = sent[m.to] + 1
      /\ \A c \in Whom \ {m.to} : sent'[c] = sent[c]
    BY <1>1, <1>2 DEF CenterInvariant, CenterTyped
<1>4. SentArrived'
    <2>1. \A c \in Whom : arrived[c] \in Nat /\ sent[c] \in Nat
                          /\ sent[c] <= arrived[c]
        BY DEF CenterInvariant, CenterTyped, SentArrived
    <2>2. \A c \in Whom : sent'[c] <= arrived[c]
        BY <1>2, <1>3, <2>1
    <2> QED
        BY <1>1, <2>2 DEF SentArrived
<1>5. sends' \subseteq [to : Whom, arrived : BOOLEAN]
    BY <1>1
<1>6. CASE hidden
    <2>1. UNCHANGED <<fetches, waits, broken, thread>>
        BY <1>6 DEF MessageSent
    <2>2. CenterTyped'
        BY <1>1, <1>3, <1>5, <2>1 DEF CenterInvariant, CenterTyped, KindsOf
    <2>3. FetchesAreCurrent'
        BY <1>6, <2>1 DEF CenterInvariant, FetchesAreCurrent, IsCurrent
    <2>4. ThreadIsOfCustomer'
        BY <1>1, <1>6, <2>1 DEF CenterInvariant, ThreadIsOfCustomer
    <2> QED
        BY <1>4, <2>2, <2>3, <2>4 DEF CenterInvariant
<1>7. CASE ~hidden
    <2>1. ~hidden'
        BY <1>1, <1>7
    <2>3. Load(KindsOf(mode), FALSE)
        BY <1>7, Zenon DEF MessageSent
    <2>2. due' \subseteq due /\ due \ KindsOf(mode) \subseteq due'
        BY <1>1
    <2> QED
        BY <1>1, <1>3, <1>4, <1>5, <2>1, <2>2, <2>3, LoadInvariant
<1> QED
    BY <1>6, <1>7

LEMMA CenterKeepsInvariant ==
    CenterInvariant /\ [CenterNext]_centerVars => CenterInvariant'
<1> SUFFICES ASSUME CenterInvariant, [CenterNext]_centerVars
             PROVE  CenterInvariant'
    OBVIOUS
<1>1. ASSUME NEW k \in Kinds, TimerRuns(k)
      PROVE  CenterInvariant'
    BY <1>1, TimerInvariant
<1>2. ASSUME NEW c \in Customers, SelectConversation(c)
      PROVE  CenterInvariant'
    <2>1. mode = "direct" /\ \E d \in Customers : Select(d)
        BY <1>2 DEF SelectConversation, Select
    <2> QED
        BY <2>1, SelectInvariant
<1>3. ASSUME NEW m \in {"direct", "broadcast"}, SwitchMode(m)
      PROVE  CenterInvariant'
    BY <1>3, AwayInvariant DEF SwitchMode
<1>4. CASE Search
    BY <1>4, SearchInvariant
<1>5. CASE Poll \/ PressRefresh \/ ComeBack
    BY <1>5, PollInvariant
<1>6. CASE Hide
    BY <1>6, AwayInvariant DEF Hide, CenterInvariant, CenterTyped
<1>7. CASE WriteMessage
    BY <1>7, WriteInvariant
<1>8. ASSUME NEW r \in fetches, Read(r) \/ LoadReturns(r) \/ LoadFails(r)
      PROVE  CenterInvariant'
    BY <1>8, ReadInvariant, FetchReturnsInvariant, LoadFailsInvariant
<1>9. ASSUME NEW m \in sends,
             MessageArrives(m) \/ MessageSent(m) \/ SendFails(m)
      PROVE  CenterInvariant'
    BY <1>9, ArrivesInvariant, SentInvariant, SendFailsInvariant
<1>10. CASE UNCHANGED centerVars
    BY <1>10 DEF centerVars, CenterInvariant, CenterTyped, SentArrived,
       FetchesAreCurrent, IsCurrent, ThreadIsOfCustomer, AtRest, Running,
       KindsOf
<1> QED
    BY <1>1, <1>2, <1>3, <1>4, <1>5, <1>6, <1>7, <1>8, <1>9, <1>10
    DEF CenterNext

-----------------------------------------------------------------------------
(* The cached list.                                                        *)

(* What a load saw is at least what its readers may rely on, and the load  *)
(* in the cache is not older than the last replacement of the cache.       *)
CacheInvariant ==
    /\ CacheTypeOK
    /\ entry # 0 =>
          /\ load[entry].step \in {"running", "read", "done"}
          /\ load[entry].step # "running" => replaced \subseteq load[entry].saw
    /\ \A r \in Readers : reader[r].on # 0 =>
          /\ load[reader[r].on].step # "idle"
          /\ load[reader[r].on].step \in {"read", "done"} =>
                reader[r].sure \subseteq load[reader[r].on].saw
    /\ ListShowsOwnWrites

LEMMA CacheBegins == CacheInit => CacheInvariant
BY DEF CacheInit, CacheInvariant, CacheTypeOK, Unread, Away, ListShowsOwnWrites

LEMMA CacheKept ==
    ASSUME CacheInvariant, [CacheNext]_cacheVars PROVE CacheInvariant'
<1>0. 0 \notin Loads
  BY CacheConstants
<1>. USE DEF CacheInvariant, CacheTypeOK, ListShowsOwnWrites
<1>1. ASSUME NEW w \in Writers, StoreMessage(w) PROVE CacheInvariant'
  BY <1>1 DEF StoreMessage, Same
<1>2. ASSUME NEW w \in Writers, Invalidate(w) PROVE CacheInvariant'
  BY <1>2 DEF Invalidate, Same, Emptied
<1>3. ASSUME NEW r \in Readers, AskForList(r) PROVE CacheInvariant'
  <2>0. UNCHANGED <<stored, replaced>> /\ reader[r] = Away
    BY <1>3 DEF AskForList
  <2>1. PICK l \in Loads :
          /\ reader' = [reader EXCEPT ![r].on = l, ![r].sure = replaced]
          /\ entry' = l
          /\ \/ UNCHANGED <<entry, load>> /\ entry # 0
             \/ load[l] = Unread /\ load' = [load EXCEPT ![l].step = "running"]
    BY <1>3 DEF AskForList
  <2>2. /\ reader'[r].on = l /\ reader'[r].sure = replaced
        /\ reader'[r].shown = {}
    <3>1. reader[r].shown = {}
      BY <2>0 DEF Away
    <3>. QED  BY <2>1, <3>1
  <2>3. \A q \in Readers \ {r} : reader'[q] = reader[q]
    BY <2>1
  <2>4. reader' \in [Readers -> [on: {0} \cup Loads, sure: SUBSET stored',
                                 shown: SUBSET SUBSET stored']]
    <3>1. [reader[r] EXCEPT !.on = l, !.sure = replaced]
             \in [on: {0} \cup Loads, sure: SUBSET stored,
                  shown: SUBSET SUBSET stored]
      <4>1. reader[r] \in [on: {0} \cup Loads, sure: SUBSET stored,
                           shown: SUBSET SUBSET stored]
        OBVIOUS
      <4>. QED  BY <4>1
    <3>2. reader' = [reader EXCEPT
             ![r] = [reader[r] EXCEPT !.on = l, !.sure = replaced]]
      BY <2>1
    <3>. QED  BY <2>0, <3>1, <3>2
  <2>5. ListShowsOwnWrites'
    BY <2>2, <2>3
  <2>6. CASE UNCHANGED <<entry, load>> /\ entry # 0
    <3>1. \A q \in Readers : reader'[q].on # 0 =>
            /\ load[reader'[q].on].step # "idle"
            /\ load[reader'[q].on].step \in {"read", "done"} =>
                  reader'[q].sure \subseteq load[reader'[q].on].saw
      BY <2>1, <2>2, <2>3, <2>6
    <3>. QED  BY <2>0, <2>4, <2>5, <2>6, <3>1
  <2>7. CASE load[l] = Unread /\ load' = [load EXCEPT ![l].step = "running"]
    <3>1. /\ load'[l].step = "running"
          /\ \A k \in Loads \ {l} : load'[k] = load[k]
      BY <2>7
    <3>2. load' \in [Loads -> [step: {"idle", "running", "read", "done",
                                      "failed"}, saw: SUBSET stored']]
      BY <2>0, <2>7, <3>1
    <3>3. \A q \in Readers \ {r} : reader[q].on # 0 => reader[q].on # l
      BY <2>7 DEF Unread
    <3>4. \A q \in Readers : reader'[q].on # 0 =>
            /\ load'[reader'[q].on].step # "idle"
            /\ load'[reader'[q].on].step \in {"read", "done"} =>
                  reader'[q].sure \subseteq load'[reader'[q].on].saw
      BY <2>2, <2>3, <3>1, <3>3
    <3>. QED  BY <2>0, <2>1, <2>4, <2>5, <3>1, <3>2, <3>4
  <2>. QED  BY <2>1, <2>6, <2>7
<1>4. ASSUME NEW r \in Readers, Show(r) PROVE CacheInvariant'
  BY <1>0, <1>4 DEF Show
<1>5. ASSUME NEW l \in Loads, ReadList(l) PROVE CacheInvariant'
  BY <1>0, <1>5 DEF ReadList
<1>6. ASSUME NEW l \in Loads, FinishLoad(l) \/ FailLoad(l)
      PROVE  CacheInvariant'
  BY <1>0, <1>6 DEF FinishLoad, FailLoad
<1>7. CASE Outlived
  BY <1>7 DEF Outlived, Same
<1>8. CASE UNCHANGED cacheVars
  BY <1>8 DEF cacheVars
<1>. QED  BY <1>1, <1>2, <1>3, <1>4, <1>5, <1>6, <1>7, <1>8 DEF CacheNext

(* Who asks for the list of conversations after this process answered for  *)
(* a message is shown it, whatever reads are under way                     *)
(* (messaging.service.ts:191).                                             *)
THEOREM ListIsFresh == CacheSpec => []ListShowsOwnWrites
<1>1. CacheInvariant => ListShowsOwnWrites
  BY DEF CacheInvariant
<1>. QED  BY <1>1, CacheBegins, CacheKept, PTL DEF CacheSpec

-----------------------------------------------------------------------------
(* The reports: days.                                                      *)

LEMMA Division ==
    ASSUME NEW a \in Int, NEW b \in Nat \ {0}
    PROVE  /\ a \div b \in Int
           /\ (a \div b) * b <= a /\ a < (a \div b) * b + b
OBVIOUS

(* The greatest number of whole days in a time.                            *)
LEMMA DivisionIs ==
    ASSUME NEW a \in Int, NEW b \in Nat \ {0}, NEW d \in Int
    PROVE  d * b <= a <=> d <= a \div b
<1> DEFINE q == a \div b
<1>1. q \in Int /\ q * b <= a /\ a < q * b + b
    BY Division
<1> HIDE DEF q
<1>2. ASSUME d <= q PROVE d * b <= q * b
    BY <1>1, <1>2
<1>3. ASSUME q < d PROVE q * b + b <= d * b
    <2>1. q + 1 <= d
      BY <1>1, <1>3
    <2>2. (q + 1) * b <= d * b
      BY <1>1, <2>1
    <2> QED
      BY <1>1, <2>2
<1>4. d * b \in Int /\ q * b \in Int /\ q * b + b \in Int
    BY <1>1
<1> QED
    BY <1>1, <1>2, <1>3, <1>4 DEF q

(* The day of a time is the last one that has begun.                       *)
LEMMA DayIs ==
    ASSUME NEW t \in Int
    PROVE  /\ DayOf(t) \in Int
           /\ \A d \in Int : d * DayLength - UtcOffset <= t <=> d <= DayOf(t)
<1>1. /\ DayLength \in Nat \ {0} /\ UtcOffset \in Nat
      /\ t + UtcOffset \in Int
    BY ReportConstants
<1>2. DayOf(t) \in Int
    BY <1>1, Division DEF DayOf
<1>3. ASSUME NEW d \in Int
      PROVE  d * DayLength - UtcOffset <= t <=> d <= DayOf(t)
    <2> DEFINE s == d * DayLength
    <2>1. s \in Int
        BY <1>1
    <2>2. s <= t + UtcOffset <=> d <= DayOf(t)
        BY <1>1, DivisionIs DEF DayOf
    <2> HIDE DEF s
    <2>3. s - UtcOffset <= t <=> s <= t + UtcOffset
        BY <1>1, <2>1
    <2> QED
        BY <2>2, <2>3 DEF s
<1> QED
    BY <1>2, <1>3

(* A time is in a range of days if its day is one of them.                 *)
LEMMA WithinDays ==
    ASSUME NEW from \in Int, NEW to \in Int, NEW t \in Int
    PROVE  Within(DateRange(from, to), t)
              <=> from <= DayOf(t) /\ DayOf(t) <= to
<1>1. /\ DateRange(from, to).start = from * DayLength - UtcOffset
      /\ DateRange(from, to).end = (to + 1) * DayLength - UtcOffset
    BY DEF DateRange
<1>2. /\ from * DayLength - UtcOffset <= t <=> from <= DayOf(t)
      /\ (to + 1) * DayLength - UtcOffset <= t <=> to + 1 <= DayOf(t)
      /\ DayOf(t) \in Int
    BY DayIs
<1>3. t < (to + 1) * DayLength - UtcOffset
         <=> ~ ((to + 1) * DayLength - UtcOffset <= t)
    <2> DEFINE e == (to + 1) * DayLength - UtcOffset
    <2>1. e \in Int
        BY ReportConstants
    <2> HIDE DEF e
    <2>2. t < e <=> ~ (e <= t)
        BY <2>1
    <2> QED
        BY <2>2 DEF e
<1> HIDE DEF DayOf
<1> QED
    BY <1>1, <1>2, <1>3 DEF Within

LEMMA DaysFollowTime ==
    ASSUME NEW t \in Int, NEW u \in Int, t <= u
    PROVE  DayOf(t) <= DayOf(u)
<1> DEFINE d == DayOf(t)
           s == d * DayLength - UtcOffset
<1>1. d \in Int /\ s <= t
    BY DayIs
<1>2. s \in Int
    BY <1>1, ReportConstants
<1> HIDE DEF s
<1>3. s <= u
    BY <1>1, <1>2
<1> HIDE DEF d
<1> QED
    BY <1>1, <1>3, DayIs DEF s, d

(* Days are no more than ticks.                                            *)
LEMMA DayOfTick ==
    ASSUME NEW t \in Nat
    PROVE  DayOf(t) \in Nat /\ DayOf(t) <= t
<1>1. DayLength \in Nat /\ DayLength >= 1
      /\ UtcOffset \in Nat /\ UtcOffset < DayLength
    BY ReportConstants
<1>2. DayOf(t) \in Int /\ 0 <= DayOf(t)
    <2>1. 0 * DayLength - UtcOffset <= t
        BY <1>1
    <2> QED
        BY <2>1, DayIs
<1>3. ~ (t + 1 <= DayOf(t))
    <2> DEFINE m == t * DayLength
    <2>1. m \in Int /\ t <= m
        <3>1. PICK k \in Nat : DayLength = k + 1
            <4>1. DayLength - 1 \in Nat /\ DayLength = (DayLength - 1) + 1
                BY <1>1
            <4> QED
                BY <4>1
        <3>2. m = t * k + t /\ t * k \in Nat
            BY <3>1
        <3> QED
            BY <3>2
    <2>2. (t + 1) * DayLength = m + DayLength
        BY <1>1
    <2> HIDE DEF m
    <2>3. ~ (m + DayLength - UtcOffset <= t)
        BY <1>1, <2>1
    <2> DEFINE n == t + 1
    <2>4. n \in Int
        OBVIOUS
    <2>5. n * DayLength = m + DayLength
        BY <2>2
    <2> HIDE DEF n
    <2>6. n * DayLength - UtcOffset <= t <=> n <= DayOf(t)
        BY <2>4, DayIs
    <2>7. ~ (n <= DayOf(t))
        BY <1>1, <2>1, <2>3, <2>5, <2>6
    <2> QED
        BY <2>7 DEF n
<1> QED
    BY <1>2, <1>3

-----------------------------------------------------------------------------
(* The reports: the longest run of days.                                   *)

IsStreaks(g, D) ==
    g = [s \in SUBSET D |->
            IF s = {} THEN NoStreak
            ELSE NextDay(g[s \ {Max(s)}], Max(s))]

Streaks(g, D) ==
    \A s \in SUBSET D :
       g[s] = IF s = {} THEN NoStreak
              ELSE NextDay(g[s \ {Max(s)}], Max(s))

LEMMA IsOfStreaks ==
    ASSUME NEW D, NEW g, IsStreaks(g, D)
    PROVE  Streaks(g, D)
BY DEF Streaks, IsStreaks

LEMMA LastDayIn ==
    ASSUME NEW D \in SUBSET Nat, IsFiniteSet(D), NEW s \in SUBSET D, s # {}
    PROVE  Max(s) \in s /\ \A x \in s : x <= Max(s)
<1>1. IsFiniteSet(s)
  BY FS_Subset
<1>2. s \in SUBSET Int
  OBVIOUS
<1> QED
  BY <1>1, <1>2, GreatestIn

(* A streak of days is determined by its equations.                        *)
LEMMA StreaksAgree ==
    ASSUME NEW D \in SUBSET Nat, IsFiniteSet(D), NEW g, NEW h,
           Streaks(g, D), Streaks(h, D)
    PROVE  \A s \in SUBSET D : g[s] = h[s]
<1> DEFINE Good == {s \in SUBSET D : g[s] = h[s]}
<1>1. ASSUME NEW s \in SUBSET D, \A t \in SUBSET s : t # s => t \in Good
      PROVE  s \in Good
  <2>1. CASE s = {}
    BY <2>1 DEF Streaks
  <2>2. CASE s # {}
    <3> DEFINE r == s \ {Max(s)}
    <3>1. r \in Good
      <4>1. r \in SUBSET s /\ r # s
        BY <2>2, LastDayIn
      <4> HIDE DEF r
      <4> QED
        BY <1>1, <4>1
    <3>2. g[s] = NextDay(g[r], Max(s)) /\ h[s] = NextDay(h[r], Max(s))
      BY <2>2 DEF Streaks
    <3> HIDE DEF r
    <3> QED
      BY <3>1, <3>2
  <2> QED
    BY <2>1, <2>2
<1>2. SUBSET D \subseteq Good
  <2> HIDE DEF Good
  <2> QED
    BY <1>1, SubsetInduction
<1> QED
  BY <1>2

LEMMA StreaksExist ==
    ASSUME NEW D \in SUBSET Nat, IsFiniteSet(D)
    PROVE  \E g : IsStreaks(g, D)
<1> DEFINE Good == {S \in SUBSET D : \E g : IsStreaks(g, S)}
           h(S) == CHOOSE g : IsStreaks(g, S)
<1>1. ASSUME NEW S \in SUBSET D, \A t \in SUBSET S : t # S => t \in Good
      PROVE  S \in Good
  <2>1. \A t \in SUBSET S : t # S => IsStreaks(h(t), t)
    BY <1>1
  <2>2. \A t \in SUBSET S : IsFiniteSet(t) /\ t \in SUBSET Nat
    BY FS_Subset
  <2>3. ASSUME NEW t \in SUBSET S, t # S PROVE Streaks(h(t), t)
    <3>1. IsStreaks(h(t), t)
      BY <2>1, <2>3
    <3> HIDE DEF h
    <3> QED
      BY <3>1, IsOfStreaks
  <2> DEFINE v(t) == h(t)[t]
             w(t) == IF t = {} THEN NoStreak
                     ELSE NextDay(v(t \ {Max(t)}), Max(t))
             g == [t \in SUBSET S |-> w(t)]
  <2>4. ASSUME NEW t \in SUBSET S, t # {}
        PROVE  t \ {Max(t)} \in SUBSET t /\ t \ {Max(t)} # t
    BY <2>4, LastDayIn
  <2>5. ASSUME NEW t \in SUBSET S, t # S PROVE v(t) = w(t)
    <3>1. CASE t = {}
      BY <2>3, <2>5, <3>1 DEF Streaks
    <3>2. CASE t # {}
      <4> DEFINE r == t \ {Max(t)}
      <4>1. r \in SUBSET t /\ r # t /\ r \in SUBSET S /\ r # S
        BY <2>4, <2>5, <3>2
      <4>2. Streaks(h(t), r) /\ Streaks(h(r), r)
        BY <2>3, <2>5, <4>1 DEF Streaks
      <4>3. h(t)[r] = h(r)[r]
        <5>1. IsFiniteSet(r) /\ r \in SUBSET Nat
          BY <2>2, <4>1
        <5> HIDE DEF h, r
        <5> QED
          BY <4>2, <5>1, StreaksAgree
      <4>4. h(t)[t] = NextDay(h(t)[r], Max(t))
        BY <2>3, <2>5, <3>2 DEF Streaks
      <4> HIDE DEF h
      <4> QED
        BY <3>2, <4>3, <4>4
    <3> QED
      BY <3>1, <3>2
  <2>6. ASSUME NEW t \in SUBSET S, t # {}
        PROVE  g[t \ {Max(t)}] = v(t \ {Max(t)})
    <3> DEFINE r == t \ {Max(t)}
    <3>0. r \in SUBSET t /\ r # t
      BY <2>4, <2>6
    <3> HIDE DEF r
    <3>1. r \in SUBSET S /\ r # S
      BY <3>0
    <3> HIDE DEF v
    <3>2. g[r] = v(r)
      BY <2>5, <3>1
    <3> QED
      BY <3>2 DEF r
  <2>7. IsStreaks(g, S)
    <3> HIDE DEF v
    <3>1. \A t \in SUBSET S :
             g[t] = IF t = {} THEN NoStreak
                    ELSE NextDay(g[t \ {Max(t)}], Max(t))
      BY <2>6
    <3> HIDE DEF w
    <3>2. g = [t \in SUBSET S |-> g[t]]
      OBVIOUS
    <3> HIDE DEF g
    <3> QED
      BY <3>1, <3>2 DEF IsStreaks
  <2> HIDE DEF g
  <2> QED
    BY <2>7
<1>2. SUBSET D \subseteq Good
  <2> HIDE DEF Good
  <2> QED
    BY <1>1, SubsetInduction
<1>3. D \in Good
  BY <1>2
<1> QED
  BY <1>3

LEMMA StreakIs ==
    ASSUME NEW D \in SUBSET Nat, IsFiniteSet(D)
    PROVE  \E g : Streaks(g, D) /\ Streak(D) = g[D]
<1>1. Streak(D) = (CHOOSE g : IsStreaks(g, D))[D]
  BY Zenon DEF Streak, MapThenFoldSet, IsStreaks
<1>2. IsStreaks(CHOOSE g : IsStreaks(g, D), D)
  BY StreaksExist
<1> QED
  BY <1>1, <1>2, IsOfStreaks

(* What is known after the days of s: the run that the last day ends, and  *)
(* the first one of the longest.                                           *)
RunIn(s, a, b) == a \in s /\ b \in s /\ a <= b /\ a..b \subseteq s

KnowsRuns(r, s) ==
    /\ r.previous \in s /\ \A x \in s : x <= r.previous
    /\ RunIn(s, r.currentFrom, r.previous) /\ r.currentFrom - 1 \notin s
    /\ r.current = r.previous - r.currentFrom + 1
    /\ r.longest \in Nat /\ r.from \in Nat
    /\ RunIn(s, r.from, r.from + r.longest - 1)
    /\ \A a, b \in s : RunIn(s, a, b) =>
          /\ b - a + 1 <= r.longest
          /\ b - a + 1 = r.longest => r.from <= a

LEMMA GreaterOf ==
    ASSUME NEW m \in Int, NEW n \in Int
    PROVE  Max({m, n}) = IF n > m THEN n ELSE m
<1> DEFINE k == IF n > m THEN n ELSE m
<1>1. k \in {m, n} /\ \A x \in {m, n} : k >= x
  OBVIOUS
<1>2. \A x \in {m, n} : (\A y \in {m, n} : x >= y) => x = k
  OBVIOUS
<1> HIDE DEF k
<1>3. (CHOOSE x \in {m, n} : \A y \in {m, n} : x >= y) = k
  BY <1>1, <1>2
<1> QED
  BY <1>3 DEF Max, k

LEMMA NextDayIs ==
    ASSUME NEW r, NEW d, r.longest \in Int, r.current \in Int,
           NEW long, NEW from, NEW n, n = NextDay(r, d),
           IF r.previous # Unseen /\ d = r.previous + 1
           THEN long = r.current + 1 /\ from = r.currentFrom
           ELSE long = 1 /\ from = d
    PROVE  /\ n.previous = d /\ n.current = long /\ n.currentFrom = from
           /\ IF long > r.longest
              THEN n.longest = long /\ n.from = from
              ELSE n.longest = r.longest /\ n.from = r.from
<1>1. NextDay(r, d) =
         [previous |-> d, current |-> long, currentFrom |-> from,
          longest |-> Max({r.longest, long}),
          from |-> IF long > r.longest THEN from ELSE r.from,
          to |-> IF long > r.longest THEN d ELSE r.to]
  BY DEF NextDay
<1>2. long \in Int
  OBVIOUS
<1>3. Max({r.longest, long}) = IF long > r.longest THEN long ELSE r.longest
  BY <1>2, GreaterOf
<1> HIDE DEF NextDay
<1> QED
  BY <1>1, <1>3

LEMMA FirstDay ==
    ASSUME NEW d \in Nat
    PROVE  KnowsRuns(NextDay(NoStreak, d), {d})
<1> DEFINE r == NextDay(NoStreak, d)
<1>1. /\ NoStreak.previous = Unseen /\ NoStreak.longest = 0
      /\ NoStreak.current = 0
  BY DEF NoStreak
<1>2. /\ r.previous = d /\ r.currentFrom = d /\ r.current = 1
      /\ r.longest = 1 /\ r.from = d
  <2> DEFINE n == NoStreak
  <2>1. /\ n.longest \in Int /\ n.current \in Int /\ n.longest = 0
        /\ n.previous = Unseen
    BY <1>1
  <2> HIDE DEF n
  <2>2. PICK k : k = NextDay(n, d)
    OBVIOUS
  <2>3. /\ k.previous = d /\ k.current = 1 /\ k.currentFrom = d
        /\ IF 1 > n.longest
           THEN k.longest = 1 /\ k.from = d
           ELSE k.longest = n.longest /\ k.from = n.from
    BY <2>1, <2>2, NextDayIs
  <2>4. k.longest = 1 /\ k.from = d
    BY <2>1, <2>3
  <2>5. r = k
    BY <2>2 DEF n
  <2> HIDE DEF r
  <2> QED
    BY <2>3, <2>4, <2>5
<1> HIDE DEF r
<1>3. RunIn({d}, d, d)
  BY DEF RunIn
<1>4. d + 1 - 1 = d /\ d - 1 # d /\ d - d + 1 = 1
  OBVIOUS
<1> QED
  BY <1>2, <1>3, <1>4 DEF KnowsRuns, r

(* A later day goes on with the run or begins one.                         *)
LEMMA LaterDay ==
    ASSUME NEW s \in SUBSET Nat, NEW r, KnowsRuns(r, s),
           NEW d \in Nat, \A x \in s : x < d
    PROVE  KnowsRuns(NextDay(r, d), s \cup {d})
<1> DEFINE next == d = r.previous + 1
           long == IF next THEN r.current + 1 ELSE 1
           from == IF next THEN r.currentFrom ELSE d
           n == NextDay(r, d)
           t == s \cup {d}
<1>0. /\ r.previous \in s /\ \A x \in s : x <= r.previous
      /\ RunIn(s, r.currentFrom, r.previous) /\ r.currentFrom - 1 \notin s
      /\ r.current = r.previous - r.currentFrom + 1
      /\ r.longest \in Nat /\ r.from \in Nat
      /\ RunIn(s, r.from, r.from + r.longest - 1)
      /\ \A a, b \in s : RunIn(s, a, b) =>
            /\ b - a + 1 <= r.longest
            /\ b - a + 1 = r.longest => r.from <= a
  BY DEF KnowsRuns
<1>1. /\ r.previous \in Nat /\ r.currentFrom \in Nat /\ r.current \in Nat
      /\ r.currentFrom <= r.previous /\ r.current >= 1
      /\ r.longest \in Nat /\ r.longest >= 1 /\ r.from \in Nat
  <2>1. /\ r.previous \in Nat /\ r.currentFrom \in s
        /\ r.currentFrom <= r.previous /\ r.from <= r.from + r.longest - 1
    BY <1>0 DEF RunIn
  <2>2. r.currentFrom \in Nat /\ r.longest \in Nat /\ r.from \in Nat
    BY <1>0, <2>1
  <2>3. r.current = r.previous - r.currentFrom + 1
    BY <1>0
  <2> QED
    BY <2>1, <2>2, <2>3
<1>2. /\ n.previous = d /\ n.current = long /\ n.currentFrom = from
      /\ IF long > r.longest
         THEN n.longest = long /\ n.from = from
         ELSE n.longest = r.longest /\ n.from = r.from
  <2>1. r.previous # Unseen
    BY <1>1 DEF Unseen
  <2>2. IF r.previous # Unseen /\ d = r.previous + 1
        THEN long = r.current + 1 /\ from = r.currentFrom
        ELSE long = 1 /\ from = d
    BY <2>1
  <2>3. r.longest \in Int /\ r.current \in Int
    BY <1>1
  <2>4. n = NextDay(r, d)
    OBVIOUS
  <2> HIDE DEF long, from, n
  <2> QED
    BY <2>2, <2>3, <2>4, NextDayIs
<1>3. /\ from \in t /\ from \in Nat /\ from <= d /\ from..d \subseteq t
      /\ from - 1 \notin t /\ long = d - from + 1 /\ long \in Nat
  <2>1. CASE next
    <3>1. /\ from = r.currentFrom /\ long = r.current + 1
          /\ d = r.previous + 1
      BY <2>1
    <3>2. r.currentFrom..r.previous \subseteq s /\ r.currentFrom \in s
      BY <1>0 DEF RunIn
    <3>3. r.currentFrom..d \subseteq t
      <4> SUFFICES ASSUME NEW x \in r.currentFrom..d PROVE x \in t
        OBVIOUS
      <4>1. x = d \/ x \in r.currentFrom..r.previous
        BY <1>1, <3>1
      <4> QED
        BY <3>2, <4>1
    <3>4. r.currentFrom - 1 \notin t
      BY <1>0, <1>1, <3>1
    <3> HIDE DEF from, long, next
    <3> QED
      BY <1>0, <1>1, <3>1, <3>2, <3>3, <3>4
  <2>2. CASE ~next
    <3>1. from = d /\ long = 1
      BY <2>2
    <3>2. d - 1 \notin t
      <4>1. d - 1 # r.previous
        BY <1>1, <2>2
      <4>2. r.previous < d
        BY <1>0
      <4>3. d - 1 \notin s
        BY <1>0, <1>1, <4>1, <4>2
      <4> QED
        BY <4>3
    <3>3. d..d \subseteq t
      OBVIOUS
    <3> HIDE DEF from, long, next
    <3> QED
      BY <3>1, <3>2, <3>3
  <2> QED
    BY <2>1, <2>2
<1>4. RunIn(t, from, d)
  BY <1>3 DEF RunIn
<1>5. ASSUME NEW a \in s, NEW b \in s, RunIn(s, a, b)
      PROVE  RunIn(t, a, b)
  BY <1>5 DEF RunIn
<1>6. ASSUME NEW a \in t, NEW b \in t, RunIn(t, a, b), b # d
      PROVE  a \in s /\ b \in s /\ RunIn(s, a, b)
  <2>1. b \in s /\ a <= b /\ b < d /\ a..b \subseteq t
    BY <1>6 DEF RunIn
  <2>2. a \in s
    BY <2>1
  <2>3. d \notin a..b
    BY <2>1
  <2> QED
    BY <2>1, <2>2, <2>3 DEF RunIn
<1>7. ASSUME NEW a \in t, RunIn(t, a, d)
      PROVE  from <= a
  <2>1. a <= d /\ a..d \subseteq t /\ a \in Nat
    BY <1>7 DEF RunIn
  <2>2. ~ (a < from)
    <3> SUFFICES ASSUME a < from PROVE FALSE
      OBVIOUS
    <3>1. from - 1 \in a..d
      BY <1>3, <2>1
    <3> QED
      BY <1>3, <2>1, <3>1
  <2> QED
    BY <1>3, <2>1, <2>2
<1> HIDE DEF long, from, next, n
<1>8. /\ n.longest \in Nat /\ n.from \in Nat
      /\ RunIn(t, n.from, n.from + n.longest - 1)
  <2>1. CASE long > r.longest
    <3>1. n.longest = long /\ n.from = from /\ from + long - 1 = d
      BY <1>2, <1>3, <2>1
    <3> QED
      BY <1>3, <1>4, <3>1
  <2>2. CASE ~ (long > r.longest)
    <3>1. n.longest = r.longest /\ n.from = r.from
      BY <1>2, <2>2
    <3>2. r.from \in s /\ r.from + r.longest - 1 \in s
      BY <1>0 DEF RunIn
    <3> QED
      BY <1>0, <1>5, <3>1, <3>2
  <2> QED
    BY <2>1, <2>2
<1>9. ASSUME NEW a \in t, NEW b \in t, RunIn(t, a, b)
      PROVE  /\ b - a + 1 <= n.longest
             /\ b - a + 1 = n.longest => n.from <= a
  <2>0. a \in Nat /\ b \in Nat /\ a <= b
    BY <1>9 DEF RunIn
  <2>1. CASE b = d
    <3>1. from <= a /\ b - a + 1 <= long
      BY <1>3, <1>7, <1>9, <2>0, <2>1
    <3>2. CASE long > r.longest
      BY <1>2, <1>3, <2>0, <3>1, <3>2
    <3>3. CASE ~ (long > r.longest)
      <4>1. n.longest = r.longest /\ n.from = r.from /\ long <= r.longest
        BY <1>1, <1>2, <1>3, <3>3
      <4>2. r.from + r.longest - 1 < d
        BY <1>0 DEF RunIn
      <4>3. ASSUME b - a + 1 = r.longest PROVE r.from <= a
        BY <1>0, <2>0, <2>1, <4>2, <4>3
      <4> QED
        BY <1>0, <1>3, <2>0, <3>1, <4>1, <4>3
    <3> QED
      BY <3>2, <3>3
  <2>2. CASE b # d
    <3>1. a \in s /\ b \in s /\ RunIn(s, a, b)
      BY <1>6, <1>9, <2>2
    <3>2. /\ b - a + 1 <= r.longest
          /\ b - a + 1 = r.longest => r.from <= a
      BY <1>0, <3>1
    <3>3. CASE long > r.longest
      BY <1>1, <1>2, <1>3, <2>0, <3>2, <3>3
    <3>4. CASE ~ (long > r.longest)
      BY <1>2, <3>2, <3>4
    <3> QED
      BY <3>3, <3>4
  <2> QED
    BY <2>1, <2>2
<1>10. \A x \in t : x <= d
  OBVIOUS
<1> HIDE DEF t
<1>11. d \in t
  BY DEF t
<1>12. KnowsRuns(n, t)
  BY <1>2, <1>3, <1>4, <1>8, <1>9, <1>10, <1>11 DEF KnowsRuns
<1> QED
  BY <1>12 DEF n, t

(* After every day $reduce knows the longest run of the days so far.       *)
LEMMA StreakKnows ==
    ASSUME NEW D \in SUBSET Nat, IsFiniteSet(D), D # {}
    PROVE  KnowsRuns(Streak(D), D)
<1> PICK g : Streaks(g, D) /\ Streak(D) = g[D]
  BY StreakIs
<1> DEFINE Good == {s \in SUBSET D : s # {} => KnowsRuns(g[s], s)}
<1>1. ASSUME NEW s \in SUBSET D, \A t \in SUBSET s : t # s => t \in Good
      PROVE  s \in Good
  <2> SUFFICES ASSUME s # {} PROVE KnowsRuns(g[s], s)
    OBVIOUS
  <2> DEFINE d == Max(s)
             r == s \ {d}
  <2>1. d \in s /\ \A x \in s : x <= d
    BY LastDayIn
  <2>2. g[s] = NextDay(g[r], d)
    BY DEF Streaks
  <2> HIDE DEF d
  <2>3. r \in SUBSET s /\ r # s /\ s = r \cup {d} /\ d \in Nat
    BY <2>1
  <2>4. r \in Good
    BY <1>1, <2>3
  <2>5. CASE r = {}
    <3>1. g[{}] = NoStreak
      BY DEF Streaks
    <3>2. KnowsRuns(NextDay(NoStreak, d), {d})
      BY <2>3, FirstDay
    <3>3. s = {d}
      BY <2>3, <2>5
    <3> HIDE DEF r
    <3> QED
      BY <2>2, <2>5, <3>1, <3>2, <3>3
  <2>6. CASE r # {}
    <3>1. KnowsRuns(g[r], r)
      BY <2>4, <2>6
    <3>2. \A x \in r : x < d
      BY <2>1
    <3>3. r \in SUBSET Nat
      OBVIOUS
    <3> HIDE DEF r
    <3>4. KnowsRuns(NextDay(g[r], d), r \cup {d})
      BY <2>3, <3>1, <3>2, <3>3, LaterDay
    <3> QED
      BY <2>2, <2>3, <3>4
  <2> QED
    BY <2>5, <2>6
<1>2. SUBSET D \subseteq Good
  <2> HIDE DEF Good
  <2> QED
    BY <1>1, SubsetInduction
<1>3. D \in Good
  BY <1>2
<1> QED
  BY <1>3

(* The streak is the longest run of days, and the first one so long.       *)
LEMMA StreakIsLongest ==
    ASSUME NEW D \in SUBSET (0..LastTick), D # {}
    PROVE  /\ Streak(D).longest = LongestRun(D).longest
           /\ Streak(D).from = LongestRun(D).from
<1> DEFINE runs == {r \in D \X D : r[1] <= r[2] /\ r[1]..r[2] \subseteq D}
           lengths == {r[2] - r[1] + 1 : r \in runs}
           best == Max({0} \cup lengths)
           starts == {r[1] : r \in {q \in runs : q[2] - q[1] + 1 = best}}
           m == Streak(D).longest
           f == Streak(D).from
<1>0. LastTick \in Nat
  BY ReportConstants
<1>1. IsFiniteSet(D) /\ D \in SUBSET Nat
  <2>1. IsFiniteSet(0..LastTick)
    BY <1>0, FS_Interval
  <2>2. IsFiniteSet(D)
    BY <2>1, FS_Subset
  <2> QED
    BY <1>0, <2>2
<1>2. KnowsRuns(Streak(D), D)
  BY <1>1, StreakKnows
<1>3. /\ m \in Nat /\ f \in Nat /\ f \in D /\ f + m - 1 \in D
      /\ f <= f + m - 1 /\ f..(f + m - 1) \subseteq D
      /\ \A a, b \in D : a <= b /\ a..b \subseteq D =>
            /\ b - a + 1 <= m
            /\ b - a + 1 = m => f <= a
  BY <1>2 DEF KnowsRuns, RunIn
<1> HIDE DEF m, f
<1>4. m \in lengths /\ \A x \in lengths : x <= m
  <2>1. <<f, f + m - 1>> \in runs /\ (f + m - 1) - f + 1 = m
    BY <1>3
  <2>2. m \in lengths
    BY <2>1
  <2>3. \A r \in runs : r[2] - r[1] + 1 <= m
    BY <1>3
  <2> QED
    BY <2>2, <2>3
<1>5. best = m
  <2> DEFINE S == {0} \cup lengths
  <2>1. m \in S /\ \A x \in S : m >= x
    BY <1>3, <1>4
  <2>2. \A x \in S : (\A y \in S : x >= y) => x = m
    <3>1. S \subseteq Int
      <4>0. \A r \in runs : r[2] \in Int /\ r[1] \in Int
        <5>1. \A r \in runs : r[2] \in D /\ r[1] \in D
          OBVIOUS
        <5>2. \A x \in D : x \in Int
          BY <1>1
        <5> HIDE DEF runs
        <5> QED
          BY <5>1, <5>2
      <4> HIDE DEF runs
      <4>1. \A r \in runs : r[2] - r[1] + 1 \in Int
        BY <4>0
      <4>2. lengths \subseteq Int
        BY <4>1
      <4> QED
        BY <4>2
    <3> HIDE DEF S
    <3> QED
      BY <2>1, <3>1
  <2> HIDE DEF S
  <2>3. (CHOOSE x \in S : \A y \in S : x >= y) = m
    BY <2>1, <2>2
  <2> QED
    BY <2>3 DEF Max, S
<1> HIDE DEF best
<1>6. f \in starts /\ \A x \in starts : f <= x
  <2>1. <<f, f + m - 1>> \in {q \in runs : q[2] - q[1] + 1 = best}
    BY <1>3, <1>5
  <2>2. <<f, f + m - 1>>[1] = f
    OBVIOUS
  <2>3. f \in starts
    BY <2>1, <2>2
  <2>4. \A r \in runs : r[2] - r[1] + 1 = best => f <= r[1]
    BY <1>3, <1>5
  <2> QED
    BY <2>3, <2>4
<1>7. starts \subseteq D
  OBVIOUS
<1> HIDE DEF starts
<1>8. Min({LastTick} \cup starts) = f
  <2> DEFINE S == {LastTick} \cup starts
  <2>1. S \subseteq Int /\ f \in S /\ \A x \in S : f =< x
    BY <1>0, <1>1, <1>3, <1>6, <1>7
  <2> HIDE DEF S
  <2>2. \A x \in S : (\A y \in S : x =< y) => x = f
    BY <2>1
  <2>3. (CHOOSE x \in S : \A y \in S : x =< y) = f
    BY <2>1, <2>2
  <2> QED
    BY <2>3 DEF Min, S
<1>9. LongestRun(D) = [longest |-> best, from |-> Min({LastTick} \cup starts)]
  BY DEF LongestRun, best, starts
<1> QED
  BY <1>5, <1>8, <1>9 DEF m, f

-----------------------------------------------------------------------------
(* The reports: an order is none that is not made yet, and only an order   *)
(* that was delivered has the time of it.                                  *)
SaleKeys == {NoKey} \cup {<<"group", o>> : o \in Sales}
                \cup {<<"request", o>> : o \in Sales}
SaleStates == {"NONE", "PENDING", "DELIVERED", "REFUNDED"}
SaleRecords == [status: SaleStates, of: Wishes \cup {OldWish},
                pay: SaleKeys, group: SaleKeys, created: Int, deliveredAt: Int]

SalesTyped ==
    /\ sale \in [AllSales -> SaleRecords] /\ ReportTypeOK

LEMMA NotSoldTyped ==
    /\ NotSold \in SaleRecords /\ NotSold.status = "NONE"
    /\ NotSold.created = -1 /\ NotSold.deliveredAt = -1
<1>1. NoKey \in SaleKeys
    BY DEF SaleKeys
<1> QED
    BY <1>1 DEF NotSold, SaleRecords, SaleStates, Unseen

(* An order made or changed at a time.                                     *)
Made(s, status, at) == [s EXCEPT !.status = status, !.created = at]

LEMMA MadeTyped ==
    ASSUME NEW s \in SaleRecords, NEW status \in SaleStates, NEW at \in Int
    PROVE  LET q == Made(s, status, at)
           IN  /\ q \in SaleRecords /\ q.status = status /\ q.created = at
               /\ q.deliveredAt = s.deliveredAt
BY DEF Made, SaleRecords

LEMMA SalesInitInvariant == ReportInit => SalesTyped
<1> SUFFICES ASSUME ReportInit PROVE SalesTyped
    OBVIOUS
<1> DEFINE old == [NotSold EXCEPT !.status = "DELIVERED", !.created = 0]
<1>1. /\ old \in SaleRecords /\ old.status = "DELIVERED" /\ old.created = 0
    <2> DEFINE n == NotSold
    <2>1. n \in SaleRecords
        BY NotSoldTyped
    <2> HIDE DEF n
    <2>2. "DELIVERED" \in SaleStates
        BY DEF SaleStates
    <2>3. old = Made(n, "DELIVERED", 0)
        BY DEF Made, n
    <2> QED
        BY <2>1, <2>2, <2>3, MadeTyped
<1>2. sale = [o \in AllSales |-> IF o \in Sales THEN NotSold ELSE old]
    BY DEF ReportInit
<1> HIDE DEF old
<1>3. tick \in 0..LastTick /\ tick \in Nat
    BY ReportConstants DEF ReportInit
<1>4. ASSUME NEW o \in AllSales
      PROVE  /\ sale[o] \in SaleRecords /\ sale[o].status \in SaleStates
             /\ sale[o].created <= tick
             /\ sale[o].status # "DELIVERED" => sale[o].deliveredAt = Unseen
    <2>1. CASE o \in Sales
        BY <1>2, <1>3, <2>1, NotSoldTyped DEF SaleStates, Unseen
    <2>2. CASE o \notin Sales
        BY <1>1, <1>2, <1>3, <2>2 DEF SaleStates
    <2> QED
        BY <2>1, <2>2
<1>5. visit \in [Visits -> Unseen..tick]
    BY <1>3 DEF ReportInit, Unseen
<1> QED
    BY <1>2, <1>3, <1>4, <1>5 DEF SalesTyped, ReportTypeOK, SaleStates

(* One order changes.                                                      *)
LEMMA SaleChanges ==
    ASSUME SalesTyped, NEW o \in AllSales, NEW s \in SaleRecords,
           sale' = [sale EXCEPT ![o] = s], UNCHANGED <<tick, visit>>,
           s.created <= tick,
           s.status # "DELIVERED" => s.deliveredAt = Unseen
    PROVE  SalesTyped'
<1>1. s.status \in SaleStates
    BY DEF SaleRecords
<1>2. sale' \in [AllSales -> SaleRecords]
    BY DEF SalesTyped
<1>3. ASSUME NEW q \in AllSales
      PROVE  /\ sale'[q].status \in SaleStates
             /\ sale'[q].created <= tick
             /\ sale'[q].status # "DELIVERED" => sale'[q].deliveredAt = Unseen
    <2>1. CASE q = o
        BY <1>1, <2>1 DEF SalesTyped
    <2>2. CASE q # o
        BY <2>2 DEF SalesTyped, ReportTypeOK, SaleStates
    <2> QED
        BY <2>1, <2>2
<1> QED
    BY <1>2, <1>3 DEF SalesTyped, ReportTypeOK, SaleStates

(* A new order: its wish, and the keys of its checkout.                    *)
OrderOf(w, g, r) == [NotSold EXCEPT !.of = w, !.group = g, !.pay = r]

LEMMA OrderTyped ==
    ASSUME NEW w \in Wishes, NEW g \in SaleKeys, NEW r \in SaleKeys
    PROVE  OrderOf(w, g, r) \in SaleRecords
           /\ OrderOf(w, g, r).deliveredAt = Unseen
<1> DEFINE n == NotSold
<1>1. n \in SaleRecords /\ n.deliveredAt = Unseen
    BY NotSoldTyped DEF Unseen
<1> HIDE DEF n
<1>2. LET q == [n EXCEPT !.of = w, !.group = g, !.pay = r]
      IN  q \in SaleRecords /\ q.deliveredAt = n.deliveredAt
    BY <1>1 DEF SaleRecords
<1> QED
    BY <1>1, <1>2 DEF OrderOf, n

AsPlaced(s) == Made(s, "PENDING", tick)

(* The keys that a new order may have: none, those of a checkout, and with *)
(* them that of its request.                                               *)
CheckoutKeys(o) == {<<NoKey, NoKey>>, <<<<"group", o>>, NoKey>>,
                    <<<<"group", o>>, <<"request", o>>>>}

LEMMA CheckoutKeysAre ==
    ASSUME NEW o \in Sales, NEW k \in CheckoutKeys(o)
    PROVE  /\ k[1] \in SaleKeys /\ k[2] \in SaleKeys
           /\ k[1] \in {NoKey, <<"group", o>>}
           /\ k[2] # NoKey => k[2] = <<"request", o>> /\ k[1] = <<"group", o>>
<1> DEFINE g == <<"group", o>>
           r == <<"request", o>>
<1>1. g \in SaleKeys /\ r \in SaleKeys /\ NoKey \in SaleKeys
    BY DEF SaleKeys
<1>2. k \in {<<NoKey, NoKey>>, <<g, NoKey>>, <<g, r>>}
    BY DEF CheckoutKeys
<1> HIDE DEF g, r
<1>3. /\ k[1] \in {NoKey, g} /\ k[2] \in {NoKey, r}
      /\ k[2] # NoKey => k[2] = r /\ k[1] = g
    BY <1>2
<1> QED
    BY <1>1, <1>3 DEF g, r

LEMMA PlacedIs ==
    ASSUME NEW o \in Sales, PlaceSale(o)
    PROVE  \E s : /\ sale' = [sale EXCEPT ![o] = AsPlaced(s)]
                  /\ UNCHANGED <<tick, visit>> /\ sale[o].status = "NONE"
                  /\ \/ \E w \in Wishes, k \in CheckoutKeys(o) :
                           s = OrderOf(w, k[1], k[2])
                     \/ \E q \in Beginning : s = sale[q]
<1> DEFINE NewOf == {OrderOf(n[1], n[2][1], n[2][2]) :
                        n \in Wishes \X CheckoutKeys(o)}
           Later == {sale[q] : q \in Beginning}
<1>1. \E s \in NewOf \cup Later : sale' = [sale EXCEPT ![o] = AsPlaced(s)]
    BY Zenon DEF PlaceSale, OrderOf, AsPlaced, Made, CheckoutKeys
<1>2. ASSUME NEW s \in NewOf
      PROVE  \E w \in Wishes, k \in CheckoutKeys(o) :
                s = OrderOf(w, k[1], k[2])
    <2>1. PICK n \in Wishes \X CheckoutKeys(o) :
             s = OrderOf(n[1], n[2][1], n[2][2])
        BY <1>2
    <2> QED
        BY <2>1
<1>3. \A s \in Later : \E q \in Beginning : s = sale[q]
    OBVIOUS
<1> HIDE DEF NewOf, Later
<1>4. UNCHANGED <<tick, visit>> /\ sale[o].status = "NONE"
    BY DEF PlaceSale
<1>5. PICK s \in NewOf \cup Later : sale' = [sale EXCEPT ![o] = AsPlaced(s)]
    BY <1>1
<1>6. \/ \E w \in Wishes, k \in CheckoutKeys(o) : s = OrderOf(w, k[1], k[2])
      \/ \E q \in Beginning : s = sale[q]
    BY <1>2, <1>3
<1> QED
    BY <1>4, <1>5, <1>6

LEMMA PlacedTyped ==
    ASSUME SalesTyped, NEW o \in Sales, PlaceSale(o) PROVE SalesTyped'
<1>1. PICK s : /\ sale' = [sale EXCEPT ![o] = AsPlaced(s)]
               /\ UNCHANGED <<tick, visit>>
               /\ \/ \E w \in Wishes, k \in CheckoutKeys(o) :
                        s = OrderOf(w, k[1], k[2])
                  \/ \E q \in Beginning : s = sale[q]
    BY PlacedIs
<1>2. ASSUME NEW q \in Beginning, s = sale[q]
      PROVE  s \in SaleRecords /\ s.deliveredAt = Unseen
    <2>1. q \in AllSales /\ sale[q].status = "PENDING"
        BY DEF Beginning, AllSales
    <2> QED
        BY <1>2, <2>1 DEF SalesTyped, ReportTypeOK
<1>3. s \in SaleRecords /\ s.deliveredAt = Unseen
    <2>1. ASSUME NEW w \in Wishes, NEW k \in CheckoutKeys(o),
                 s = OrderOf(w, k[1], k[2])
          PROVE  s \in SaleRecords /\ s.deliveredAt = Unseen
        <3>1. k[1] \in SaleKeys /\ k[2] \in SaleKeys
            BY CheckoutKeysAre
        <3> QED
            BY <2>1, <3>1, OrderTyped
    <2> QED
        BY <1>1, <1>2, <2>1
<1>4. tick \in Int
    BY DEF SalesTyped, ReportTypeOK
<1>5. /\ AsPlaced(s) \in SaleRecords /\ AsPlaced(s).created = tick
      /\ AsPlaced(s).deliveredAt = Unseen
    <2>1. "PENDING" \in SaleStates
        BY DEF SaleStates
    <2> QED
        BY <1>3, <1>4, <2>1, MadeTyped DEF AsPlaced
<1>6. o \in AllSales
    BY DEF AllSales
<1> DEFINE n == AsPlaced(s)
<1>7. /\ n \in SaleRecords /\ n.created <= tick
      /\ n.status # "DELIVERED" => n.deliveredAt = Unseen
      /\ sale' = [sale EXCEPT ![o] = n] /\ UNCHANGED <<tick, visit>>
    BY <1>1, <1>4, <1>5
<1> HIDE DEF n
<1> QED
    BY <1>6, <1>7, SaleChanges

LEMMA DeliveredTyped ==
    ASSUME SalesTyped, NEW o \in Sales, DeliverSale(o) \/ RefundSale(o)
    PROVE  SalesTyped'
<1> DEFINE s == sale[o]
           given == [s EXCEPT !.status = "DELIVERED", !.deliveredAt = tick]
           back == [s EXCEPT !.status = "REFUNDED"]
<1>1. o \in AllSales /\ s \in SaleRecords /\ s.status = "PENDING"
    BY DEF SalesTyped, AllSales, DeliverSale, RefundSale
<1>2. tick \in Int /\ s.created <= tick /\ s.deliveredAt = Unseen
    BY <1>1 DEF SalesTyped, ReportTypeOK
<1>3. \/ sale' = [sale EXCEPT ![o] = given]
      \/ sale' = [sale EXCEPT ![o] = back]
    BY DEF DeliverSale, RefundSale
<1>4. UNCHANGED <<tick, visit>>
    BY DEF DeliverSale, RefundSale
<1> HIDE DEF s
<1>5. /\ given \in SaleRecords /\ given.status = "DELIVERED"
      /\ given.created = s.created
    BY <1>1, <1>2 DEF SaleRecords, SaleStates
<1>6. /\ back \in SaleRecords /\ back.deliveredAt = s.deliveredAt
      /\ back.created = s.created
    BY <1>1 DEF SaleRecords, SaleStates
<1> HIDE DEF given, back
<1> QED
    BY <1>1, <1>2, <1>3, <1>4, <1>5, <1>6, SaleChanges

LEMMA SalesKeepInvariant ==
    SalesTyped /\ [ReportNext]_reportVars => SalesTyped'
<1> SUFFICES ASSUME SalesTyped, [ReportNext]_reportVars PROVE SalesTyped'
    OBVIOUS
<1>1. CASE TickPasses
    <2>1. /\ tick \in Nat /\ tick' = tick + 1 /\ tick' \in 0..LastTick
          /\ UNCHANGED <<sale, visit>>
        BY <1>1, ReportConstants DEF TickPasses, SalesTyped, ReportTypeOK
    <2>2. visit' \in [Visits -> Unseen..tick']
        BY <2>1 DEF SalesTyped, ReportTypeOK, Unseen
    <2>3. \A o \in AllSales : sale[o].created \in Int
        BY DEF SalesTyped, SaleRecords
    <2> QED
        BY <2>1, <2>2, <2>3 DEF SalesTyped, ReportTypeOK
<1>2. ASSUME NEW o \in Sales, PlaceSale(o) \/ DeliverSale(o) \/ RefundSale(o)
      PROVE  SalesTyped'
    BY <1>2, PlacedTyped, DeliveredTyped
<1>3. ASSUME NEW v \in Visits, RecordEvent(v) PROVE SalesTyped'
    <2>1. tick \in Unseen..tick
        BY DEF SalesTyped, ReportTypeOK, Unseen
    <2> QED
        BY <1>3, <2>1 DEF RecordEvent, SalesTyped, ReportTypeOK
<1>4. CASE UNCHANGED reportVars
    BY <1>4 DEF reportVars, SalesTyped, ReportTypeOK
<1> QED
    BY <1>1, <1>2, <1>3, <1>4 DEF ReportNext

(* When an order was made and delivered; the old order is the one of day 0.*)
SalesDated ==
    /\ DayLength - UtcOffset <= tick
    /\ sale[0].status = "DELIVERED" /\ sale[0].created = 0
    /\ sale[0].deliveredAt = Unseen
    /\ \A o \in Sales :
          /\ sale[o].status # "NONE" => sale[o].created \in 0..tick
          /\ sale[o].status = "DELIVERED" => sale[o].deliveredAt \in 0..tick

(* The key of an order is that of a checkout of the same wish.             *)
SalesKeyed ==
    \A o \in Placed : /\ PurchaseKey(o)[2] \in Placed
                      /\ sale[PurchaseKey(o)[2]].of = sale[o].of

SalesInvariant == SalesTyped /\ SalesDated /\ SalesKeyed

LEMMA OldIsNew == 0 \in AllSales /\ 0 \notin Sales
BY ReportConstants DEF AllSales

(* What an order is grouped by, apart.                                     *)
LEMMA KeyIs ==
    ASSUME NEW o
    PROVE  PurchaseKey(o) = IF sale[o].pay # NoKey THEN sale[o].pay
                            ELSE IF sale[o].group # NoKey THEN sale[o].group
                            ELSE <<"id", o>>
BY DEF PurchaseKey

LEMMA KeyIsThen ==
    ASSUME NEW o
    PROVE  PurchaseKey(o)' = IF sale'[o].pay # NoKey THEN sale'[o].pay
                             ELSE IF sale'[o].group # NoKey
                             THEN sale'[o].group ELSE <<"id", o>>
BY DEF PurchaseKey

LEMMA OldSale ==
    ASSUME ReportInit
    PROVE  /\ sale[0].status = "DELIVERED" /\ sale[0].created = 0
           /\ sale[0].deliveredAt = Unseen
           /\ sale[0].pay = NoKey /\ sale[0].group = NoKey
<1> DEFINE old == [NotSold EXCEPT !.status = "DELIVERED", !.created = 0]
<1>1. sale[0] = old
    BY OldIsNew DEF ReportInit
<1>2. /\ old.status = "DELIVERED" /\ old.created = 0
      /\ old.deliveredAt = Unseen /\ old.pay = NoKey /\ old.group = NoKey
    BY DEF NotSold
<1> HIDE DEF old
<1> QED
    BY <1>1, <1>2

LEMMA SalesBegin == ReportInit => SalesInvariant
<1> SUFFICES ASSUME ReportInit PROVE SalesInvariant
    OBVIOUS
<1>1. SalesTyped
    BY SalesInitInvariant
<1>2. \A o \in Sales : sale[o] = NotSold /\ sale[o].status = "NONE"
    <2>1. \A o \in Sales : sale[o] = NotSold
        BY DEF ReportInit, AllSales
    <2> QED
        BY <2>1 DEF NotSold
<1>3. DayLength - UtcOffset <= tick
    BY ReportConstants DEF ReportInit
<1>4. SalesDated
    BY <1>2, <1>3, OldSale DEF SalesDated
<1>5. Placed = {0}
    BY <1>2, OldSale, OldIsNew DEF Placed, AllSales
<1>6. PurchaseKey(0) = <<"id", 0>>
    BY OldSale, KeyIs
<1>7. SalesKeyed
    BY <1>5, <1>6 DEF SalesKeyed
<1> QED
    BY <1>1, <1>4, <1>7 DEF SalesInvariant

LEMMA DatedChanges ==
    ASSUME SalesInvariant, NEW o \in Sales, NEW s \in SaleRecords,
           sale' = [sale EXCEPT ![o] = s], UNCHANGED <<tick, visit>>,
           s.created \in 0..tick,
           s.status = "DELIVERED" => s.deliveredAt \in 0..tick
    PROVE  SalesDated'
<1>1. o \in AllSales /\ o # 0 /\ Sales \subseteq AllSales
    BY OldIsNew DEF AllSales
<1>2. sale'[0] = sale[0]
    BY <1>1, OldIsNew DEF SalesInvariant, SalesTyped
<1>3. ASSUME NEW q \in Sales
      PROVE  sale'[q] = IF q = o THEN s ELSE sale[q]
    BY <1>1 DEF SalesInvariant, SalesTyped
<1> QED
    BY <1>2, <1>3 DEF SalesInvariant, SalesDated

(* A step that touches neither wish nor keys.                              *)
LEMMA KeysStay ==
    ASSUME SalesInvariant,
           \A q \in AllSales :
              /\ sale'[q].of = sale[q].of /\ sale'[q].pay = sale[q].pay
              /\ sale'[q].group = sale[q].group
              /\ sale'[q].status = "NONE" <=> sale[q].status = "NONE"
    PROVE  SalesKeyed'
<1>1. Placed' = Placed
    BY DEF Placed
<1>2. \A q \in Placed : PurchaseKey(q)' = PurchaseKey(q)
    BY KeyIs, KeyIsThen DEF Placed
<1>3. \A q \in Placed : sale'[q].of = sale[q].of
    BY DEF Placed
<1> QED
    BY <1>1, <1>2, <1>3 DEF SalesInvariant, SalesKeyed

(* A new order with the key of a checkout of its wish.                     *)
LEMMA KeysOfNew ==
    ASSUME SalesInvariant, NEW o \in Sales, sale[o].status = "NONE",
           NEW s \in SaleRecords, sale' = [sale EXCEPT ![o] = s],
           s.status # "NONE",
           LET k == PurchaseKey(o)'[2]
           IN  k = o \/ (k \in Placed /\ sale[k].of = s.of)
    PROVE  SalesKeyed'
<1>1. /\ o \in AllSales /\ o \notin Placed
      /\ sale \in [AllSales -> SaleRecords]
    BY DEF AllSales, Placed, SalesInvariant, SalesTyped
<1>2. sale'[o] = s /\ \A q \in AllSales : q # o => sale'[q] = sale[q]
    BY <1>1
<1>3. Placed' = Placed \cup {o}
    BY <1>1, <1>2 DEF Placed
<1>4. ASSUME NEW q \in Placed
      PROVE  PurchaseKey(q)' = PurchaseKey(q) /\ sale'[q] = sale[q]
    <2>1. sale'[q] = sale[q]
        BY <1>1, <1>2 DEF Placed
    <2> QED
        BY <2>1, KeyIs, KeyIsThen
<1>5. ASSUME NEW q \in Placed
      PROVE  /\ PurchaseKey(q)'[2] \in Placed'
             /\ sale'[PurchaseKey(q)'[2]].of = sale'[q].of
    <2> DEFINE k == PurchaseKey(q)[2]
    <2>1. k \in Placed /\ sale[k].of = sale[q].of
        BY DEF SalesInvariant, SalesKeyed
    <2> QED
        BY <1>3, <1>4, <2>1
<1>6. /\ PurchaseKey(o)'[2] \in Placed'
      /\ sale'[PurchaseKey(o)'[2]].of = sale'[o].of
    BY <1>2, <1>3, <1>4
<1> QED
    BY <1>3, <1>5, <1>6 DEF SalesKeyed

LEMMA OrderIs ==
    ASSUME NEW w, NEW g, NEW r
    PROVE  LET n == AsPlaced(OrderOf(w, g, r))
           IN  n.of = w /\ n.group = g /\ n.pay = r
BY DEF AsPlaced, Made, OrderOf, NotSold

LEMMA PlacedKeepsKeys ==
    ASSUME SalesInvariant, NEW o \in Sales, PlaceSale(o),
           NEW s, sale' = [sale EXCEPT ![o] = AsPlaced(s)],
           \/ \E w \in Wishes, k \in CheckoutKeys(o) :
                 s = OrderOf(w, k[1], k[2])
           \/ \E q \in Beginning : s = sale[q],
           AsPlaced(s) \in SaleRecords, AsPlaced(s).status = "PENDING",
           sale[o].status = "NONE"
    PROVE  SalesKeyed'
<1> DEFINE n == AsPlaced(s)
<1>1. sale'[o] = n
    BY DEF AllSales, SalesInvariant, SalesTyped
<1>2. CASE \E w \in Wishes, k \in CheckoutKeys(o) : s = OrderOf(w, k[1], k[2])
    <2>1. PICK w \in Wishes, k \in CheckoutKeys(o) : s = OrderOf(w, k[1], k[2])
        BY <1>2
    <2>2. n.group = k[1] /\ n.pay = k[2]
        BY <2>1, OrderIs
    <2>3. /\ k[1] \in {NoKey, <<"group", o>>}
          /\ k[2] # NoKey => k[2] = <<"request", o>>
        BY CheckoutKeysAre
    <2> DEFINE key == PurchaseKey(o)'
    <2>4. key = IF n.pay # NoKey THEN n.pay
                ELSE IF n.group # NoKey THEN n.group ELSE <<"id", o>>
        BY <1>1, KeyIsThen
    <2> HIDE DEF key, n
    <2>5. key \in {<<"request", o>>, <<"group", o>>, <<"id", o>>}
        BY <2>2, <2>3, <2>4
    <2>6. key[2] = o
        BY <2>5
    <2>7. PurchaseKey(o)'[2] = o
        BY <2>6 DEF key
    <2> QED
        BY <2>7, KeysOfNew DEF n
<1>3. CASE \E q \in Beginning : s = sale[q]
    <2>1. PICK q \in Beginning : s = sale[q]
        BY <1>3
    <2>2. /\ q \in AllSales /\ sale[q].status = "PENDING" /\ q \in Placed
          /\ sale[q].group = <<"group", q>>
        BY DEF Beginning, AllSales, Placed
    <2>3. sale[q].group # NoKey
        BY <2>2 DEF NoKey
    <2>4. s \in SaleRecords
        BY <2>1, <2>2 DEF SalesInvariant, SalesTyped
    <2>5. n.group = s.group /\ n.pay = s.pay /\ n.of = s.of
        BY <2>4 DEF AsPlaced, Made, SaleRecords
    <2>6. PurchaseKey(o)' = PurchaseKey(q)
        <3> HIDE DEF n
        <3> QED
            BY <1>1, <2>1, <2>3, <2>5, KeyIs, KeyIsThen
    <2> DEFINE k == PurchaseKey(q)[2]
    <2>7. k \in Placed /\ sale[k].of = sale[q].of
        BY <2>2 DEF SalesInvariant, SalesKeyed
    <2> HIDE DEF n, k
    <2>8. k \in Placed /\ sale[k].of = n.of
        BY <2>1, <2>5, <2>7
    <2> QED
        BY <2>6, <2>8, KeysOfNew DEF n, k
<1> QED
    BY <1>2, <1>3

LEMMA PlacedKeeps ==
    ASSUME SalesInvariant, NEW o \in Sales, PlaceSale(o) PROVE SalesInvariant'
<1>1. PICK s : /\ sale' = [sale EXCEPT ![o] = AsPlaced(s)]
               /\ UNCHANGED <<tick, visit>> /\ sale[o].status = "NONE"
               /\ \/ \E w \in Wishes, k \in CheckoutKeys(o) :
                        s = OrderOf(w, k[1], k[2])
                  \/ \E q \in Beginning : s = sale[q]
    BY PlacedIs
<1>2. SalesTyped'
    BY PlacedTyped DEF SalesInvariant
<1> DEFINE n == AsPlaced(s)
<1>3. o \in AllSales /\ sale'[o] = n /\ tick \in Nat
    BY <1>1 DEF AllSales, SalesInvariant, SalesTyped, ReportTypeOK
<1>4. n \in SaleRecords
    BY <1>2, <1>3 DEF SalesTyped
<1>5. n.created = tick /\ n.status = "PENDING"
    <2>1. s \in SaleRecords
        <3>1. ASSUME NEW w \in Wishes, NEW k \in CheckoutKeys(o),
                     s = OrderOf(w, k[1], k[2])
              PROVE  s \in SaleRecords
            <4>1. k[1] \in SaleKeys /\ k[2] \in SaleKeys
                BY CheckoutKeysAre
            <4> QED
                BY <3>1, <4>1, OrderTyped
        <3>2. ASSUME NEW q \in Beginning, s = sale[q] PROVE s \in SaleRecords
            BY <3>2 DEF Beginning, AllSales, SalesInvariant, SalesTyped
        <3> QED
            BY <1>1, <3>1, <3>2
    <2>2. "PENDING" \in SaleStates /\ tick \in Int
        BY <1>3 DEF SaleStates
    <2> QED
        BY <2>1, <2>2, MadeTyped DEF AsPlaced
<1>6. SalesKeyed'
    BY <1>1, <1>4, <1>5, PlacedKeepsKeys
<1>7. /\ n.created \in 0..tick
      /\ n.status = "DELIVERED" => n.deliveredAt \in 0..tick
      /\ sale' = [sale EXCEPT ![o] = n]
    BY <1>1, <1>3, <1>5
<1> HIDE DEF n
<1>8. SalesDated'
    BY <1>1, <1>4, <1>7, DatedChanges
<1> QED
    BY <1>2, <1>6, <1>8 DEF SalesInvariant

LEMMA DeliveredKeeps ==
    ASSUME SalesInvariant, NEW o \in Sales, DeliverSale(o) \/ RefundSale(o)
    PROVE  SalesInvariant'
<1> DEFINE s == sale[o]
           given == [s EXCEPT !.status = "DELIVERED", !.deliveredAt = tick]
           back == [s EXCEPT !.status = "REFUNDED"]
<1>1. o \in AllSales /\ s \in SaleRecords /\ s.status = "PENDING"
    BY DEF SalesInvariant, SalesTyped, AllSales, DeliverSale, RefundSale
<1>2. tick \in Nat /\ s.created \in 0..tick
    BY <1>1 DEF SalesInvariant, SalesTyped, ReportTypeOK, SalesDated
<1>3. \/ sale' = [sale EXCEPT ![o] = given]
      \/ sale' = [sale EXCEPT ![o] = back]
    BY DEF DeliverSale, RefundSale
<1>4. UNCHANGED <<tick, visit>>
    BY DEF DeliverSale, RefundSale
<1>5. SalesTyped'
    BY DeliveredTyped DEF SalesInvariant
<1> HIDE DEF s
<1>6. /\ given \in SaleRecords /\ given.status = "DELIVERED"
      /\ given.created = s.created /\ given.deliveredAt = tick
      /\ given.of = s.of /\ given.pay = s.pay /\ given.group = s.group
    <2>1. given.status = "DELIVERED" /\ given.deliveredAt = tick
        BY <1>1 DEF SaleRecords
    <2>2. /\ given.created = s.created
          /\ given.of = s.of /\ given.pay = s.pay /\ given.group = s.group
        BY <1>1 DEF SaleRecords
    <2>3. tick \in Int
        BY <1>2
    <2>4. given \in SaleRecords
        BY <1>1, <2>3 DEF SaleRecords, SaleStates
    <2> QED
        BY <2>1, <2>2, <2>4
<1>7. /\ back \in SaleRecords /\ back.status = "REFUNDED"
      /\ back.created = s.created
      /\ back.of = s.of /\ back.pay = s.pay /\ back.group = s.group
    BY <1>1 DEF SaleRecords, SaleStates
<1> HIDE DEF given, back
<1>8. PICK n \in SaleRecords :
         /\ sale' = [sale EXCEPT ![o] = n]
         /\ n.created = s.created /\ n.status # "NONE"
         /\ n.status = "DELIVERED" => n.deliveredAt = tick
         /\ n.of = s.of /\ n.pay = s.pay /\ n.group = s.group
    BY <1>3, <1>6, <1>7
<1>9. SalesDated'
    <2>1. /\ n.created \in 0..tick
          /\ n.status = "DELIVERED" => n.deliveredAt \in 0..tick
        BY <1>2, <1>8
    <2> QED
        BY <1>4, <1>8, <2>1, DatedChanges
<1>10. SalesKeyed'
    <2>1. ASSUME NEW q \in AllSales
          PROVE  /\ sale'[q].of = sale[q].of /\ sale'[q].pay = sale[q].pay
                 /\ sale'[q].group = sale[q].group
                 /\ sale'[q].status = "NONE" <=> sale[q].status = "NONE"
        <3>1. sale'[q] = IF q = o THEN n ELSE sale[q]
            BY <1>8 DEF SalesInvariant, SalesTyped
        <3> QED
            BY <1>1, <1>8, <3>1 DEF s
    <2> QED
        BY <2>1, KeysStay
<1> QED
    BY <1>5, <1>9, <1>10 DEF SalesInvariant

(* The invariant of the orders is kept.                                    *)
LEMMA SalesKeep ==
    SalesInvariant /\ [ReportNext]_reportVars => SalesInvariant'
<1> SUFFICES ASSUME SalesInvariant, [ReportNext]_reportVars
             PROVE  SalesInvariant'
    OBVIOUS
<1>1. SalesTyped'
    BY SalesKeepInvariant DEF SalesInvariant
<1>2. tick \in Nat /\ DayLength \in Nat /\ UtcOffset \in Nat
    BY ReportConstants DEF SalesInvariant, SalesTyped, ReportTypeOK
<1>3. ASSUME sale' = sale PROVE SalesKeyed'
    BY <1>3, KeysStay
<1>4. CASE TickPasses
    <2>1. tick' = tick + 1 /\ sale' = sale
        BY <1>4 DEF TickPasses
    <2>2. SalesDated'
        BY <1>2, <2>1 DEF SalesInvariant, SalesDated
    <2> QED
        BY <1>1, <1>3, <2>1, <2>2 DEF SalesInvariant
<1>5. ASSUME NEW o \in Sales, PlaceSale(o) \/ DeliverSale(o) \/ RefundSale(o)
      PROVE  SalesInvariant'
    BY <1>5, PlacedKeeps, DeliveredKeeps
<1>6. CASE UNCHANGED <<tick, sale>>
    <2>1. SalesDated'
        BY <1>6 DEF SalesInvariant, SalesDated
    <2> QED
        BY <1>1, <1>3, <1>6, <2>1 DEF SalesInvariant
<1>7. (\E v \in Visits : RecordEvent(v)) \/ UNCHANGED reportVars
         => UNCHANGED <<tick, sale>>
    BY DEF RecordEvent, reportVars
<1> QED
    BY <1>4, <1>5, <1>6, <1>7 DEF ReportNext

-----------------------------------------------------------------------------
(* The reports: what their rows add up to.                                 *)

LEMMA SumIs == ASSUME NEW f, NEW D PROVE SumOf(f, D) = SumMap(f, D)
BY Zenon DEF SumOf, SumMap

Both == [o \in AllSales |-> Paid[o] + Off[o]]
Purchases(orders) == {<<Who(o), PurchaseKey(o)>> : o \in orders}

(* Orders are finitely many and have amounts.                              *)
LEMMA OrdersAre ==
    ASSUME NEW O \in SUBSET AllSales
    PROVE  /\ IsFiniteSet(O)
           /\ \A o \in O : Paid[o] \in Int /\ Off[o] \in Int /\ Both[o] \in Int
           /\ \A o \in O : Both[o] = Paid[o] + Off[o]
<1>1. IsFiniteSet(AllSales)
    BY ReportConstants, FS_Singleton, FS_Union DEF AllSales
<1>2. IsFiniteSet(O)
    BY <1>1, FS_Subset
<1>3. \A o \in AllSales : Paid[o] \in Nat /\ Off[o] \in Nat
    BY ReportConstants DEF AllSales
<1>4. ASSUME NEW o \in O
      PROVE  /\ Both[o] = Paid[o] + Off[o]
             /\ Paid[o] \in Int /\ Off[o] \in Int /\ Both[o] \in Int
    <2>1. Both[o] = Paid[o] + Off[o]
        BY DEF Both
    <2>2. Paid[o] \in Nat /\ Off[o] \in Nat
        BY <1>3
    <2> QED
        BY <2>1, <2>2
<1> QED
    BY <1>2, <1>4

(* What the amounts of some orders are.                                    *)
LEMMA AmountsAre ==
    ASSUME NEW O \in SUBSET AllSales
    PROVE  LET a == Amounts(O)
           IN  /\ a["net"] = SumMap(Paid, O) /\ a["net"] \in Int
               /\ a["discount"] = SumMap(Off, O) /\ a["discount"] \in Int
               /\ a["gross"] = SumMap(Both, O) /\ a["gross"] \in Int
               /\ a["gross"] = a["net"] + a["discount"]
               /\ a["orderCount"] = Cardinality(O)
               /\ a["purchaseCount"] = Cardinality(Purchases(O))
<1> DEFINE h == [o \in O |-> Paid[o] + Off[o]]
           a == Amounts(O)
<1>1. /\ IsFiniteSet(O)
      /\ \A o \in O : Paid[o] \in Int /\ Off[o] \in Int /\ Both[o] \in Int
      /\ \A o \in O : Both[o] = Paid[o] + Off[o]
    BY OrdersAre
<1>2. \A o \in O : h[o] = Both[o]
    BY <1>1
<1>3. a = [net |-> SumOf(Paid, O), discount |-> SumOf(Off, O),
           gross |-> SumOf(h, O), orderCount |-> Cardinality(O),
           purchaseCount |-> PurchasesOf(O)]
    BY Zenon DEF Amounts
<1> HIDE DEF h, a
<1>4. SumOf(h, O) = SumMap(Both, O)
    BY <1>1, <1>2, SumIs, SumSame
<1>5. SumMap(Both, O) = SumMap(Paid, O) + SumMap(Off, O)
    BY <1>1, SumOfPlus
<1>6. SumMap(Paid, O) \in Int /\ SumMap(Off, O) \in Int
      /\ SumMap(Both, O) \in Int
    BY <1>1, SumIsInt
<1>7. /\ a["net"] = SumMap(Paid, O) /\ a["discount"] = SumMap(Off, O)
      /\ a["gross"] = SumMap(Both, O) /\ a["orderCount"] = Cardinality(O)
      /\ a["purchaseCount"] = PurchasesOf(O)
    BY <1>3, <1>4, SumIs
<1>8. PurchasesOf(O) = Cardinality(Purchases(O))
    BY Zenon DEF PurchasesOf, Purchases
<1> QED
    BY <1>5, <1>6, <1>7, <1>8 DEF a

(* A report has a row for each part of its orders.                         *)
PartsOf(P, I, O) ==
    /\ \A i \in I : P[i] \in SUBSET O
    /\ \A i, j \in I : i # j => P[i] \cap P[j] = {}
    /\ \A o \in O : \E i \in I : o \in P[i]

LEMMA ColumnIs ==
    ASSUME NEW I, NEW rows, DOMAIN rows = I, NEW f
    PROVE  /\ Sums(rows, f) = SumMap([k \in I |-> rows[k][f]], I)
           /\ \A k \in I : [j \in I |-> rows[j][f]][k] = rows[k][f]
BY SumIs DEF Sums

(* Nothing of it is less than zero.                                        *)
LEMMA AmountsAreNat ==
    ASSUME NEW O \in SUBSET AllSales
    PROVE  /\ IsFiniteSet(Purchases(O))
           /\ \A f \in {"net", "gross", "orderCount", "purchaseCount"} :
                 Amounts(O)[f] \in Nat
<1>1. IsFiniteSet(O)
    BY OrdersAre
<1>2. IsFiniteSet(Purchases(O))
    <2> DEFINE f == [o \in O |-> <<Who(o), PurchaseKey(o)>>]
    <2>1. \A y \in Purchases(O) : \E o \in O : f[o] = y
        BY DEF Purchases
    <2>2. f \in Surjection(O, Purchases(O))
        BY <2>1 DEF Purchases, Surjection
    <2> QED
        BY <1>1, <2>2, FS_Surjection
<1>3. ASSUME NEW o \in O PROVE Paid[o] \in Nat /\ Both[o] \in Nat
    <2>1. Paid[o] \in Nat /\ Off[o] \in Nat
        BY ReportConstants DEF AllSales
    <2>2. Both[o] = Paid[o] + Off[o]
        BY OrdersAre
    <2> QED
        BY <2>1, <2>2
<1>4. SumMap(Paid, O) \in Nat /\ SumMap(Both, O) \in Nat
    BY <1>1, <1>3, SumIsNat
<1>5. Cardinality(O) \in Nat /\ Cardinality(Purchases(O)) \in Nat
    BY <1>1, <1>2, FS_CardinalityType
<1> QED
    BY <1>2, <1>4, <1>5, AmountsAre

(* A report's list of rows: before which rows $sort puts a row, and which  *)
(* rows the limit leaves.                                                  *)
ListOf(rows, by, D) ==
    /\ IsFiniteSet(D) /\ D \in SUBSET Nat /\ DOMAIN rows = D
    /\ \A k \in D : rows[k][by[1]] \in Nat /\ rows[k][by[2]] \in Nat

LEMMA RowsAreSorted ==
    ASSUME NEW D, NEW rows, NEW by, ListOf(rows, by, D)
    PROVE  Ranks([k \in D |-> AheadOf(rows, by, k)], D)
<1> DEFINE A == [k \in D |-> AheadOf(rows, by, k)]
           a(k) == rows[k][by[1]]
           b(k) == rows[k][by[2]]
<1>1. \A k \in D : k \in Nat /\ a(k) \in Nat /\ b(k) \in Nat
    BY DEF ListOf
<1>2. ASSUME NEW k \in D
      PROVE  /\ A[k] \in SUBSET D
             /\ \A j \in D : j \in A[k] <=> \/ a(j) > a(k)
                                            \/ a(j) = a(k) /\ b(j) > b(k)
                                            \/ /\ a(j) = a(k) /\ b(j) = b(k)
                                               /\ j < k
    BY DEF AheadOf, ListOf
<1> HIDE DEF A, a, b
<1>3. ASSUME NEW k \in D PROVE A[k] \in SUBSET D /\ k \notin A[k]
    BY <1>1, <1>2
<1>4. ASSUME NEW k \in D, NEW j \in A[k], NEW i \in A[j] PROVE i \in A[k]
    <2>1. j \in D
        BY <1>2, <1>4
    <2>2. i \in D
        BY <1>2, <1>4, <2>1
    <2> QED
        BY <1>1, <1>2, <1>4, <2>1, <2>2
<1>5. ASSUME NEW j \in D, NEW k \in D PROVE j = k \/ j \in A[k] \/ k \in A[j]
    BY <1>1, <1>2
<1> QED
    BY <1>3, <1>4, <1>5 DEF Ranks, A

LEMMA LeadersAre ==
    ASSUME NEW D, NEW rows, NEW by, ListOf(rows, by, D)
    PROVE  LET L == DOMAIN Top(rows, by)
           IN  /\ L \in SUBSET D
               /\ \A k \in L : Top(rows, by)[k] = rows[k]
               /\ Cardinality(L) = Min({TopLimit, Cardinality(D)})
               /\ Cardinality(D) <= TopLimit => L = D
               /\ \A u \in D \ L, w \in L : rows[u][by[1]] <= rows[w][by[1]]
<1> DEFINE L == DOMAIN Top(rows, by)
           A == [k \in D |-> AheadOf(rows, by, k)]
           n == Cardinality(D)
<1>1. /\ IsFiniteSet(D) /\ DOMAIN rows = D /\ D \in SUBSET Nat
      /\ \A k \in D : rows[k][by[1]] \in Nat /\ rows[k][by[2]] \in Nat
    BY DEF ListOf
<1>2. TopLimit \in Nat /\ n \in Nat
    BY <1>1, ReportConstants, FS_CardinalityType
<1>3. /\ L = {k \in D : Cardinality(A[k]) < TopLimit}
      /\ \A k \in L : Top(rows, by)[k] = rows[k]
    BY <1>1 DEF Top, Leaders
<1>4. Ranks(A, D)
    BY RowsAreSorted
<1>5. ASSUME NEW u \in D \ L, NEW w \in L
      PROVE  rows[u][by[1]] <= rows[w][by[1]]
    <2>1. u \in D /\ w \in D /\ u # w /\ Cardinality(A[w]) < TopLimit
          /\ ~ (Cardinality(A[u]) < TopLimit)
        BY <1>3
    <2>2. u \notin A[w]
        <3> SUFFICES ASSUME u \in A[w] PROVE FALSE
            OBVIOUS
        <3> HIDE DEF A, L
        <3>1. /\ Cardinality(A[u]) < Cardinality(A[w])
              /\ Cardinality(A[u]) \in Nat /\ Cardinality(A[w]) \in Nat
            BY <1>1, <1>4, <2>1, RankGrows
        <3> QED
            BY <1>2, <2>1, <3>1
    <2>3. w \in A[u]
        BY <1>4, <2>1, <2>2 DEF Ranks
    <2>4. \/ rows[w][by[1]] > rows[u][by[1]]
          \/ rows[w][by[1]] = rows[u][by[1]]
        BY <2>1, <2>3 DEF AheadOf
    <2> QED
        BY <1>1, <2>1, <2>4
<1> HIDE DEF A
<1>6. Cardinality(L) = IF TopLimit <= n THEN TopLimit ELSE n
    BY <1>1, <1>2, <1>3, <1>4, FirstOnes
<1> HIDE DEF L, n
<1>7. Min({TopLimit, n}) = IF TopLimit <= n THEN TopLimit ELSE n
    <2>1. {TopLimit, n} \in SUBSET Int /\ {TopLimit, n} # {}
        BY <1>2
    <2>2. IsFiniteSet({TopLimit, n})
        <3>1. {TopLimit, n} = {TopLimit} \cup {n}
            OBVIOUS
        <3>2. IsFiniteSet({TopLimit}) /\ IsFiniteSet({n})
            BY FS_Singleton
        <3>3. IsFiniteSet({TopLimit} \cup {n})
            BY <3>2, FS_Union
        <3> QED
            BY <3>1, <3>3
    <2>3. /\ Min({TopLimit, n}) \in {TopLimit, n}
          /\ \A x \in {TopLimit, n} : Min({TopLimit, n}) <= x
        BY <2>1, <2>2, LeastIn
    <2> QED
        BY <1>2, <2>3
<1>8. n <= TopLimit => L = D
    <2> SUFFICES ASSUME n <= TopLimit PROVE L = D
        OBVIOUS
    <2>1. L \in SUBSET D /\ Cardinality(L) = n
        BY <1>2, <1>3, <1>6
    <2> QED
        BY <1>1, <2>1, FS_Subset DEF n
<1> QED
    BY <1>3, <1>5, <1>6, <1>7, <1>8 DEF L, n

(* A column of the rows that are shown.                                    *)
LEMMA ListHolds ==
    ASSUME NEW D, NEW rows, NEW by, ListOf(rows, by, D),
           NEW f, \A k \in D : rows[k][f] \in Nat
    PROVE  ListAgrees(Top(rows, by), Cardinality(D), f, Sums(rows, f))
<1> DEFINE top == Top(rows, by)
           L == DOMAIN top
           c == [k \in D |-> rows[k][f]]
           e == [k \in L |-> top[k][f]]
<1>1. /\ L \in SUBSET D /\ \A k \in L : top[k] = rows[k]
      /\ Cardinality(L) = Min({TopLimit, Cardinality(D)})
      /\ Cardinality(D) <= TopLimit => L = D
    BY LeadersAre
<1>2. IsFiniteSet(D) /\ DOMAIN rows = D
    BY DEF ListOf
<1>3. /\ \A k \in D : c[k] \in Nat
      /\ \A k \in L : e[k] = c[k] /\ c[k] \in Int
    BY <1>1
<1> HIDE DEF top, L
<1>4. Sums(rows, f) = SumMap(c, D) /\ Sums(top, f) = SumMap(e, L)
    BY <1>2, ColumnIs DEF L
<1> HIDE DEF c, e
<1>5. SumMap(e, L) = SumMap(c, L)
    <2>1. IsFiniteSet(L)
        BY <1>1, <1>2, FS_Subset
    <2> QED
        BY <1>3, <2>1, SumSame
<1>6. SumMap(c, L) <= SumMap(c, D)
    BY <1>1, <1>2, <1>3, SumOfSome
<1> QED
    BY <1>1, <1>4, <1>5, <1>6 DEF ListAgrees, L, top

(* The columns of a report add up to what the orders amount to.            *)
LEMMA RowsAddUp ==
    ASSUME NEW O \in SUBSET AllSales, NEW I, IsFiniteSet(I),
           NEW P, PartsOf(P, I, O),
           NEW rows, DOMAIN rows = I, \A i \in I : rows[i] = Amounts(P[i])
    PROVE  /\ Sums(rows, "net") = Amounts(O)["net"]
           /\ Sums(rows, "gross") = Amounts(O)["gross"]
           /\ Sums(rows, "orderCount") = Amounts(O)["orderCount"]
<1> DEFINE n == [k \in I |-> rows[k]["net"]]
           g == [k \in I |-> rows[k]["gross"]]
           c == [k \in I |-> rows[k]["orderCount"]]
<1>1. ASSUME NEW i \in I
      PROVE  /\ P[i] \in SUBSET O
             /\ n[i] = SumMap(Paid, P[i]) /\ g[i] = SumMap(Both, P[i])
             /\ c[i] = Cardinality(P[i])
    <2>1. P[i] \in SUBSET AllSales /\ P[i] \in SUBSET O
        BY DEF PartsOf
    <2> QED
        BY <2>1, AmountsAre
<1>2. /\ Sums(rows, "net") = SumMap(n, I)
      /\ Sums(rows, "gross") = SumMap(g, I)
      /\ Sums(rows, "orderCount") = SumMap(c, I)
    BY ColumnIs
<1> HIDE DEF n, g, c
<1>3. /\ IsFiniteSet(O)
      /\ \A o \in O : Paid[o] \in Int /\ Off[o] \in Int /\ Both[o] \in Int
    BY OrdersAre
<1>4. /\ \A i, j \in I : i # j => P[i] \cap P[j] = {}
      /\ \A o \in O : \E i \in I : o \in P[i]
    BY DEF PartsOf
<1>5. SumMap(n, I) = SumMap(Paid, O)
    BY <1>1, <1>3, <1>4, SumByParts
<1>6. SumMap(g, I) = SumMap(Both, O)
    BY <1>1, <1>3, <1>4, SumByParts
<1>7. SumMap(c, I) = Cardinality(O)
    BY <1>1, <1>3, <1>4, CountByParts
<1> QED
    BY <1>2, <1>5, <1>6, <1>7, AmountsAre

(* The purchases of the parts.                                             *)
LEMMA PurchasesAddUp ==
    ASSUME NEW O \in SUBSET AllSales, NEW I, IsFiniteSet(I),
           NEW P, PartsOf(P, I, O),
           NEW rows, DOMAIN rows = I, \A i \in I : rows[i] = Amounts(P[i])
    PROVE  /\ Amounts(O)["purchaseCount"] <= Sums(rows, "purchaseCount")
           /\ (\A i, j \in I :
                  i # j => Purchases(P[i]) \cap Purchases(P[j]) = {})
              => Sums(rows, "purchaseCount") = Amounts(O)["purchaseCount"]
<1> DEFINE c == [k \in I |-> rows[k]["purchaseCount"]]
           K == Purchases(O)
           Q == [i \in I |-> Purchases(P[i])]
<1>1. IsFiniteSet(K)
    BY AmountsAreNat
<1>2. ASSUME NEW i \in I
      PROVE  Q[i] \in SUBSET K /\ c[i] = Cardinality(Q[i])
    <2>1. P[i] \in SUBSET O
        BY DEF PartsOf
    <2>2. rows[i]["purchaseCount"] = Cardinality(Purchases(P[i]))
        BY <2>1, AmountsAre
    <2> QED
        BY <2>1, <2>2 DEF Purchases
<1>3. ASSUME NEW y \in K PROVE \E i \in I : y \in Q[i]
    <2>1. PICK o \in O : y = <<Who(o), PurchaseKey(o)>>
        BY DEF Purchases
    <2>2. PICK i \in I : o \in P[i]
        BY DEF PartsOf
    <2> QED
        BY <2>1, <2>2 DEF Purchases
<1>4. /\ Sums(rows, "purchaseCount") = SumMap(c, I)
      /\ Amounts(O)["purchaseCount"] = Cardinality(K)
    BY ColumnIs, AmountsAre
<1>5. ASSUME \A i, j \in I : i # j => Purchases(P[i]) \cap Purchases(P[j]) = {}
      PROVE  \A i, j \in I : i # j => Q[i] \cap Q[j] = {}
    BY <1>5
<1> HIDE DEF c, K, Q
<1>6. Cardinality(K) <= SumMap(c, I)
    BY <1>1, <1>2, <1>3, CountOfCover
<1>7. (\A i, j \in I : i # j => Q[i] \cap Q[j] = {})
         => SumMap(c, I) = Cardinality(K)
    BY <1>1, <1>2, <1>3, CountByParts
<1> QED
    BY <1>4, <1>5, <1>6, <1>7

(* What was delivered has a date, which is past.                           *)
LEMMA DatesAre ==
    ASSUME SalesInvariant, NEW o \in AllDelivered
    PROVE  /\ o \in AllSales /\ SaleDate(o) \in Nat /\ SaleDate(o) <= tick
           /\ tick \in Nat /\ tick <= LastTick
<1>1. o \in AllSales /\ sale[o].status = "DELIVERED"
    BY DEF AllDelivered
<1>2. tick \in Nat /\ tick <= LastTick
    BY ReportConstants DEF SalesInvariant, SalesTyped, ReportTypeOK
<1>3. \/ o = 0 /\ SaleDate(o) = 0
      \/ o \in Sales /\ sale[o].deliveredAt \in 0..tick
         /\ SaleDate(o) = sale[o].deliveredAt
    BY <1>1, <1>2 DEF AllSales, SalesInvariant, SalesDated, SaleDate, Unseen
<1> QED
    BY <1>1, <1>2, <1>3

(* The orders of a range of days.                                          *)
LEMMA DeliveredIs ==
    ASSUME SalesInvariant, NEW from \in Int, NEW to \in Int
    PROVE  /\ DeliveredIn(DateRange(from, to)) \in SUBSET AllSales
           /\ \A o \in AllDelivered :
                 /\ DayOf(SaleDate(o)) \in Int
                 /\ o \in DeliveredIn(DateRange(from, to))
                       <=> /\ from <= DayOf(SaleDate(o))
                           /\ DayOf(SaleDate(o)) <= to
           /\ DeliveredIn(DateRange(from, to)) \subseteq AllDelivered
<1> DEFINE range == DateRange(from, to)
<1>1. ASSUME NEW o \in AllDelivered
      PROVE  /\ DayOf(SaleDate(o)) \in Int /\ o \in AllSales
             /\ Within(range, SaleDate(o)) <=> /\ from <= DayOf(SaleDate(o))
                                               /\ DayOf(SaleDate(o)) <= to
    <2>1. o \in AllSales /\ SaleDate(o) \in Int
        BY DatesAre
    <2> QED
        BY <2>1, WithinDays, DayIs
<1> HIDE DEF range
<1>2. DeliveredIn(range) = {o \in AllDelivered : Within(range, SaleDate(o))}
    BY DEF DeliveredIn
<1> QED
    BY <1>1, <1>2 DEF range

(* The rows by day; a checkout that midnight divides counts twice.         *)
LEMMA DaysAddUp ==
    ASSUME SalesInvariant, NEW from \in Nat, NEW to \in Nat
    PROVE  LET O == DeliveredIn(DateRange(from, to))
               days == Timeline(from, to)
           IN  /\ Sums(days, "net") = Amounts(O)["net"]
               /\ Sums(days, "gross") = Amounts(O)["gross"]
               /\ Sums(days, "orderCount") = Amounts(O)["orderCount"]
               /\ Amounts(O)["purchaseCount"] <= Sums(days, "purchaseCount")
<1> DEFINE O == DeliveredIn(DateRange(from, to))
           I == from..to
           P == [d \in I |-> {o \in O : DayOf(SaleDate(o)) = d}]
           days == Timeline(from, to)
<1>1. /\ O \in SUBSET AllSales
      /\ \A o \in O : DayOf(SaleDate(o)) \in I
    BY DeliveredIs
<1>2. IsFiniteSet(I)
    BY FS_Interval
<1>3. DOMAIN days = I /\ \A d \in I : days[d] = Amounts(P[d])
    BY DEF Timeline
<1>4. PartsOf(P, I, O)
    <2> HIDE DEF I, O
    <2> QED
        BY <1>1 DEF PartsOf
<1> HIDE DEF O, I, P, days
<1>5. /\ Sums(days, "net") = Amounts(O)["net"]
      /\ Sums(days, "gross") = Amounts(O)["gross"]
      /\ Sums(days, "orderCount") = Amounts(O)["orderCount"]
    BY <1>1, <1>2, <1>3, <1>4, RowsAddUp
<1>6. Amounts(O)["purchaseCount"] <= Sums(days, "purchaseCount")
    BY <1>1, <1>2, <1>3, <1>4, PurchasesAddUp
<1> QED
    BY <1>5, <1>6 DEF O, days

(* An image of a finite set.                                               *)
LEMMA ImageIsFinite ==
    ASSUME NEW O, IsFiniteSet(O), NEW f, DOMAIN f = O,
           NEW Y, \A o \in O : f[o] \in Y, \A y \in Y : \E o \in O : f[o] = y
    PROVE  IsFiniteSet(Y)
<1>1. PICK g : g = [o \in O |-> f[o]]
    OBVIOUS
<1>2. g \in Surjection(O, Y)
    BY <1>1 DEF Surjection
<1> QED
    BY <1>2, FS_Surjection

(* Customers and products are numbered.                                    *)
LEMMA WhoAndWhat ==
    ASSUME SalesInvariant, NEW o \in AllSales
    PROVE  Who(o) \in Nat /\ What(o) \in Nat
<1>1. sale[o].of \in Wishes \cup {OldWish}
    BY DEF SalesInvariant, SalesTyped, SaleRecords
<1>2. sale[o].of \in Nat \X Nat
    BY <1>1, ReportConstants
<1> QED
    BY <1>2 DEF Who, What

(* The customers, of whom the best are shown.                              *)
LEMMA CustomersAddUp ==
    ASSUME SalesInvariant, NEW from \in Nat, NEW to \in Nat
    PROVE  LET range == DateRange(from, to)
               O == DeliveredIn(range)
               I == BuyersOf(O)
               people == CustomerTotals(range)
           IN  /\ IsFiniteSet(I) /\ I \in SUBSET Nat /\ DOMAIN people = I
               /\ \A u \in I : people[u] = Amounts(By(u, O))
               /\ \A u \in I :
                     \A f \in {"net", "gross", "orderCount", "purchaseCount"} :
                        people[u][f] \in Nat
               /\ Sums(people, "net") = Amounts(O)["net"]
               /\ Sums(people, "gross") = Amounts(O)["gross"]
               /\ Sums(people, "orderCount") = Amounts(O)["orderCount"]
               /\ Sums(people, "purchaseCount") = Amounts(O)["purchaseCount"]
<1> DEFINE range == DateRange(from, to)
           O == DeliveredIn(range)
           I == BuyersOf(O)
           P == [u \in I |-> By(u, O)]
           people == CustomerTotals(range)
           f == [o \in O |-> Who(o)]
<1>1. O \in SUBSET AllSales
    BY DeliveredIs
<1>2. IsFiniteSet(I)
    <2>1. \A o \in O : f[o] \in I
        BY DEF BuyersOf
    <2>2. \A u \in I : \E o \in O : f[o] = u
        BY DEF BuyersOf
    <2>3. DOMAIN f = O
        OBVIOUS
    <2> HIDE DEF O, I, f
    <2>4. IsFiniteSet(O)
        BY <1>1, OrdersAre
    <2> QED
        BY <2>1, <2>2, <2>3, <2>4, ImageIsFinite
<1>3. DOMAIN people = I /\ \A u \in I : people[u] = Amounts(P[u])
    BY DEF CustomerTotals
<1>4. PartsOf(P, I, O)
    BY DEF PartsOf, By, BuyersOf
<1>5. ASSUME NEW u \in I, NEW w \in I, u # w
      PROVE  Purchases(P[u]) \cap Purchases(P[w]) = {}
    <2>1. \A y \in Purchases(P[u]) : y[1] = u
        BY DEF Purchases, By
    <2>2. \A y \in Purchases(P[w]) : y[1] = w
        BY DEF Purchases, By
    <2> QED
        BY <1>5, <2>1, <2>2
<1>6. I \in SUBSET Nat
    BY <1>1, WhoAndWhat DEF BuyersOf
<1>7. \A u \in I : P[u] \in SUBSET AllSales /\ P[u] = By(u, O)
    BY <1>1 DEF By
<1> HIDE DEF O, I, P, people
<1>8. ASSUME NEW u \in I,
              NEW k \in {"net", "gross", "orderCount", "purchaseCount"}
       PROVE  people[u][k] \in Nat
    BY <1>3, <1>7, AmountsAreNat
<1>9. /\ Sums(people, "net") = Amounts(O)["net"]
      /\ Sums(people, "gross") = Amounts(O)["gross"]
      /\ Sums(people, "orderCount") = Amounts(O)["orderCount"]
    BY <1>1, <1>2, <1>3, <1>4, RowsAddUp
<1>10. Sums(people, "purchaseCount") = Amounts(O)["purchaseCount"]
    BY <1>1, <1>2, <1>3, <1>4, <1>5, PurchasesAddUp
<1> QED
    BY <1>2, <1>3, <1>9, <1>10, <1>6, <1>7, <1>8 DEF O, I, people

(* The products, of which the best are shown.                              *)
LEMMA ProductsAddUp ==
    ASSUME SalesInvariant, NEW from \in Nat, NEW to \in Nat
    PROVE  LET range == DateRange(from, to)
               O == DeliveredIn(range)
               I == Bought(O)
               goods == ProductTotals(range)
           IN  /\ IsFiniteSet(I) /\ I \in SUBSET Nat /\ DOMAIN goods = I
               /\ \A p \in I : goods[p]["revenue"] \in Nat
                               /\ goods[p]["quantity"] \in Nat
               /\ Sums(goods, "revenue") = Amounts(O)["net"]
               /\ Sums(goods, "quantity") = Amounts(O)["orderCount"]
<1> DEFINE range == DateRange(from, to)
           O == DeliveredIn(range)
           I == Bought(O)
           P == [p \in I |-> Of(p, O)]
           goods == ProductTotals(range)
           rows == [p \in I |-> Amounts(P[p])]
           f == [o \in O |-> What(o)]
<1>1. O \in SUBSET AllSales
    BY DeliveredIs
<1>2. IsFiniteSet(I)
    <2>1. \A o \in O : f[o] \in I
        BY DEF Bought
    <2>2. \A p \in I : \E o \in O : f[o] = p
        BY DEF Bought
    <2>3. DOMAIN f = O
        OBVIOUS
    <2> HIDE DEF O, I, f
    <2>4. IsFiniteSet(O)
        BY <1>1, OrdersAre
    <2> QED
        BY <2>1, <2>2, <2>3, <2>4, ImageIsFinite
<1>3. I \in SUBSET Nat
    BY <1>1, WhoAndWhat DEF Bought
<1>4. DOMAIN goods = I /\ \A p \in I : goods[p] = ProductColumns(P[p])
    BY DEF ProductTotals
<1>5. DOMAIN rows = I /\ \A p \in I : rows[p] = Amounts(P[p])
    OBVIOUS
<1>6. PartsOf(P, I, O)
    BY DEF PartsOf, Of, Bought
<1> HIDE DEF O, I, P, goods, rows
<1>7. ASSUME NEW p \in I
      PROVE  /\ goods[p]["revenue"] = rows[p]["net"]
             /\ goods[p]["quantity"] = rows[p]["orderCount"]
             /\ goods[p]["revenue"] \in Nat /\ goods[p]["quantity"] \in Nat
    <2>1. P[p] \in SUBSET AllSales
        BY <1>1, <1>6 DEF PartsOf
    <2>2. /\ goods[p]["revenue"] = SumMap(Paid, P[p])
          /\ goods[p]["quantity"] = Cardinality(P[p])
        BY <1>4, SumIs DEF ProductColumns
    <2>3. /\ rows[p]["net"] = SumMap(Paid, P[p])
          /\ rows[p]["orderCount"] = Cardinality(P[p])
        BY <1>5, <2>1, AmountsAre
    <2>4. rows[p]["net"] \in Nat /\ rows[p]["orderCount"] \in Nat
        BY <1>5, <2>1, AmountsAreNat
    <2> QED
        BY <2>2, <2>3, <2>4
<1>8. /\ Sums(rows, "net") = Amounts(O)["net"]
      /\ Sums(rows, "orderCount") = Amounts(O)["orderCount"]
    BY <1>1, <1>2, <1>5, <1>6, RowsAddUp
<1>9. /\ Sums(goods, "revenue") = Sums(rows, "net")
      /\ Sums(goods, "quantity") = Sums(rows, "orderCount")
    <2> DEFINE r == [p \in I |-> goods[p]["revenue"]]
               n == [p \in I |-> rows[p]["net"]]
               q == [p \in I |-> goods[p]["quantity"]]
               c == [p \in I |-> rows[p]["orderCount"]]
    <2>1. /\ Sums(goods, "revenue") = SumMap(r, I)
          /\ Sums(goods, "quantity") = SumMap(q, I)
          /\ Sums(rows, "net") = SumMap(n, I)
          /\ Sums(rows, "orderCount") = SumMap(c, I)
        BY <1>4, <1>5, ColumnIs
    <2>2. \A p \in I : /\ n[p] \in Int /\ r[p] = n[p]
                       /\ c[p] \in Int /\ q[p] = c[p]
        BY <1>7
    <2> HIDE DEF r, n, q, c
    <2>3. SumMap(r, I) = SumMap(n, I) /\ SumMap(q, I) = SumMap(c, I)
        BY <1>2, <2>2, SumSame
    <2> QED
        BY <2>1, <2>3
<1> QED
    BY <1>2, <1>3, <1>4, <1>7, <1>8, <1>9 DEF O, I, goods

(* A range cut in two.                                                     *)
LEMMA RangeSplits ==
    ASSUME SalesInvariant, NEW from \in Nat, NEW to \in Nat,
           NEW mid \in from..(to - 1)
    PROVE  Amounts(DeliveredIn(DateRange(from, to)))["net"]
              = Amounts(DeliveredIn(DateRange(from, mid)))["net"]
                + Amounts(DeliveredIn(DateRange(mid + 1, to)))["net"]
<1> DEFINE O == DeliveredIn(DateRange(from, to))
           A == DeliveredIn(DateRange(from, mid))
           B == DeliveredIn(DateRange(mid + 1, to))
           day(o) == DayOf(SaleDate(o))
<1>1. mid \in Int /\ mid + 1 \in Int /\ from <= mid /\ mid < to
    OBVIOUS
<1>2. /\ O \in SUBSET AllSales /\ O \subseteq AllDelivered
      /\ \A o \in AllDelivered :
            day(o) \in Int /\ (o \in O <=> from <= day(o) /\ day(o) <= to)
    BY DeliveredIs
<1>3. /\ A \in SUBSET AllSales /\ A \subseteq AllDelivered
      /\ \A o \in AllDelivered : o \in A <=> from <= day(o) /\ day(o) <= mid
    BY <1>1, DeliveredIs
<1>4. /\ B \in SUBSET AllSales /\ B \subseteq AllDelivered
      /\ \A o \in AllDelivered : o \in B <=> mid + 1 <= day(o) /\ day(o) <= to
    BY <1>1, DeliveredIs
<1> HIDE DEF O, A, B, day
<1>5. O = A \cup B /\ A \cap B = {}
    BY <1>1, <1>2, <1>3, <1>4
<1>6. /\ IsFiniteSet(O) /\ \A o \in O : Paid[o] \in Int
    BY <1>2, OrdersAre
<1>7. SumMap(Paid, O) = SumMap(Paid, A) + SumMap(Paid, B)
    BY <1>5, <1>6, SumOfUnion
<1> QED
    BY <1>2, <1>3, <1>4, <1>7, AmountsAre DEF O, A, B

(* The lists of the best customers and products.                           *)
LEMMA PeopleHold ==
    ASSUME SalesInvariant, NEW from \in Nat, NEW to \in Nat
    PROVE  LET range == DateRange(from, to)
               O == DeliveredIn(range)
               people == CustomerRows(range)
           IN  /\ \A f \in {"net", "gross", "orderCount", "purchaseCount"} :
                     ListAgrees(people, Cardinality(BuyersOf(O)), f,
                                Amounts(O)[f])
               /\ \A u \in BuyersOf(O) \ DOMAIN people, w \in DOMAIN people :
                     Amounts(By(u, O))["net"] <= people[w]["net"]
<1> DEFINE range == DateRange(from, to)
           O == DeliveredIn(range)
           I == BuyersOf(O)
           all == CustomerTotals(range)
           people == CustomerRows(range)
           by == <<"net", "purchaseCount">>
           columns == {"net", "gross", "orderCount", "purchaseCount"}
<1>1. /\ IsFiniteSet(I) /\ I \in SUBSET Nat /\ DOMAIN all = I
      /\ \A u \in I : all[u] = Amounts(By(u, O))
      /\ \A u \in I : \A f \in columns : all[u][f] \in Nat
      /\ \A f \in columns : Sums(all, f) = Amounts(O)[f]
    BY CustomersAddUp
<1>2. people = Top(all, by)
    BY DEF CustomerRows
<1>3. by[1] = "net" /\ by[2] = "purchaseCount"
    OBVIOUS
<1> HIDE DEF O, I, all, people, by
<1>4. ListOf(all, by, I)
    BY <1>1, <1>3 DEF ListOf
<1>5. ASSUME NEW f \in columns
      PROVE  ListAgrees(people, Cardinality(I), f, Amounts(O)[f])
    <2>1. \A u \in I : all[u][f] \in Nat
        BY <1>1
    <2>2. ListAgrees(Top(all, by), Cardinality(I), f, Sums(all, f))
        BY <1>4, <2>1, ListHolds
    <2> QED
        BY <1>1, <1>2, <2>2
<1>6. ASSUME NEW u \in I \ DOMAIN people, NEW w \in DOMAIN people
      PROVE  Amounts(By(u, O))["net"] <= people[w]["net"]
    <2> DEFINE L == DOMAIN Top(all, by)
    <2>1. /\ \A x \in I \ L, y \in L : all[x][by[1]] <= all[y][by[1]]
          /\ \A y \in L : Top(all, by)[y] = all[y]
        BY <1>4, LeadersAre
    <2>2. u \in I \ L /\ w \in L
        BY <1>2, <1>6
    <2>3. all[u]["net"] <= all[w]["net"] /\ people[w] = all[w]
        BY <1>2, <1>3, <2>1, <2>2
    <2> QED
        BY <1>1, <2>3
<1> QED
    BY <1>5, <1>6 DEF O, I, people

LEMMA GoodsHold ==
    ASSUME SalesInvariant, NEW from \in Nat, NEW to \in Nat
    PROVE  LET range == DateRange(from, to)
               O == DeliveredIn(range)
               goods == ProductRows(range)
               kinds == Cardinality(Bought(O))
           IN  /\ ListAgrees(goods, kinds, "revenue", Amounts(O)["net"])
               /\ ListAgrees(goods, kinds, "quantity",
                             Amounts(O)["orderCount"])
<1> DEFINE range == DateRange(from, to)
           O == DeliveredIn(range)
           I == Bought(O)
           all == ProductTotals(range)
           goods == ProductRows(range)
           by == <<"revenue", "quantity">>
<1>1. /\ IsFiniteSet(I) /\ I \in SUBSET Nat /\ DOMAIN all = I
      /\ \A p \in I : all[p]["revenue"] \in Nat /\ all[p]["quantity"] \in Nat
      /\ Sums(all, "revenue") = Amounts(O)["net"]
      /\ Sums(all, "quantity") = Amounts(O)["orderCount"]
    BY ProductsAddUp
<1>2. goods = Top(all, by)
    BY DEF ProductRows
<1>3. by[1] = "revenue" /\ by[2] = "quantity"
    OBVIOUS
<1> HIDE DEF O, I, all, goods, by
<1>4. ListOf(all, by, I)
    BY <1>1, <1>3 DEF ListOf
<1>5. ListAgrees(Top(all, by), Cardinality(I), "revenue",
                 Sums(all, "revenue"))
    BY <1>1, <1>4, ListHolds
<1>6. ListAgrees(Top(all, by), Cardinality(I), "quantity",
                 Sums(all, "quantity"))
    BY <1>1, <1>4, ListHolds
<1> QED
    BY <1>1, <1>2, <1>5, <1>6 DEF O, I, goods

LEMMA RangeHolds ==
    ASSUME SalesInvariant, NEW from \in Nat, NEW to \in Nat
    PROVE  RangeAgrees(from, to)
<1> DEFINE range == DateRange(from, to)
           O == DeliveredIn(range)
           summary == Summary(range)
           whole == summary.amounts
           days == Timeline(from, to)
           people == CustomerRows(range)
           goods == ProductRows(range)
           kinds == Cardinality(Bought(O))
<1>1. summary.amounts = Amounts(O) /\ summary.buyers = Cardinality(BuyersOf(O))
    BY DEF Summary
<1>2. O \in SUBSET AllSales
    BY DeliveredIs
<1>3. /\ Sums(days, "net") = Amounts(O)["net"]
      /\ Sums(days, "gross") = Amounts(O)["gross"]
      /\ Sums(days, "orderCount") = Amounts(O)["orderCount"]
      /\ Amounts(O)["purchaseCount"] <= Sums(days, "purchaseCount")
    BY DaysAddUp
<1>4. /\ \A f \in {"net", "gross", "orderCount", "purchaseCount"} :
            ListAgrees(people, summary.buyers, f, whole[f])
      /\ \A u \in BuyersOf(O) \ DOMAIN people, w \in DOMAIN people :
            Amounts(By(u, O))["net"] <= people[w]["net"]
    BY <1>1, PeopleHold
<1>5. /\ ListAgrees(goods, kinds, "revenue", whole["net"])
      /\ ListAgrees(goods, kinds, "quantity", whole["orderCount"])
    BY <1>1, GoodsHold
<1>6. Amounts(O)["gross"] = Amounts(O)["net"] + Amounts(O)["discount"]
    BY <1>2, AmountsAre
<1>7. ASSUME NEW mid \in from..(to - 1)
      PROVE  whole["net"] = Amounts(DeliveredIn(DateRange(from, mid)))["net"]
                + Amounts(DeliveredIn(DateRange(mid + 1, to)))["net"]
    BY <1>1, RangeSplits
<1>8. \A f \in {"net", "gross", "orderCount"} : Sums(days, f) = whole[f]
    BY <1>1, <1>3
<1>9. /\ whole["gross"] = whole["net"] + whole["discount"]
      /\ Sums(days, "purchaseCount") >= whole["purchaseCount"]
    BY <1>1, <1>3, <1>6
<1> HIDE DEF whole, days, people, goods, summary, kinds, O
<1> QED
    BY <1>4, <1>5, <1>7, <1>8, <1>9
       DEF RangeAgrees, whole, days, people, goods, summary, kinds, O

-----------------------------------------------------------------------------
(* The reports: who looked and bought.                                     *)

LEMMA VisitsAre ==
    ASSUME SalesInvariant, NEW range
    PROVE  /\ IsFiniteSet(VisitsIn(range)) /\ VisitsIn(range) \subseteq Visits
           /\ \A v \in VisitsIn(range) : visit[v] \in Int
                                         /\ visit[v] < range.end
<1>1. VisitsIn(range) \in SUBSET Visits
    BY DEF VisitsIn
<1>2. IsFiniteSet(VisitsIn(range))
    BY <1>1, ReportConstants, FS_Subset
<1>3. ASSUME NEW v \in VisitsIn(range)
      PROVE  visit[v] \in Int /\ visit[v] < range.end
    <2>1. visit[v] \in Unseen..tick
        BY <1>1 DEF SalesInvariant, SalesTyped, ReportTypeOK
    <2>2. tick \in Int /\ Unseen \in Int
        BY DEF SalesInvariant, SalesTyped, ReportTypeOK, Unseen
    <2>3. Within(range, visit[v])
        BY DEF VisitsIn
    <2> QED
        BY <2>1, <2>2, <2>3 DEF Within
<1> QED
    BY <1>1, <1>2, <1>3

(* The first visit, if there is one.                                       *)
LEMMA FirstVisitIs ==
    ASSUME SalesInvariant, NEW range, range.end \in Int, NEW u, NEW type
    PROVE  LET first == FirstVisit(range, u, type)
               mine == {w \in VisitsIn(range) : w.by = u /\ w.type = type}
           IN  /\ first \in Int
               /\ \A v \in mine : first <= visit[v]
               /\ first < range.end <=> mine # {}
               /\ first < range.end => \E v \in mine : first = visit[v]
<1> DEFINE mine == {w \in VisitsIn(range) : w.by = u /\ w.type = type}
           times == {visit[v] : v \in mine}
           D == {range.end} \cup times
           f == [v \in mine |-> visit[v]]
<1>1. /\ IsFiniteSet(mine)
      /\ \A v \in mine : visit[v] \in Int /\ visit[v] < range.end
    <2>1. mine \in SUBSET VisitsIn(range)
        OBVIOUS
    <2> HIDE DEF mine
    <2> QED
        BY <2>1, VisitsAre, FS_Subset
<1>2. /\ DOMAIN f = mine /\ \A v \in mine : f[v] \in times
      /\ \A t \in times : \E v \in mine : f[v] = t
    OBVIOUS
<1>3. FirstVisit(range, u, type) = Min(D)
    BY DEF FirstVisit
<1>4. D \in SUBSET Int /\ D # {}
    <2> HIDE DEF mine
    <2> QED
        BY <1>1
<1>5. IsFiniteSet(times)
    <2> HIDE DEF mine, times, f
    <2> QED
        BY <1>1, <1>2, ImageIsFinite
<1>6. IsFiniteSet(D)
    <2> HIDE DEF times
    <2> QED
        BY <1>5, FS_Singleton, FS_Union
<1>7. Min(D) \in D /\ \A x \in D : Min(D) <= x
    <2> HIDE DEF D
    <2> QED
        BY <1>4, <1>6, LeastIn
<1>8. \A x \in D : x = range.end \/ \E v \in mine : x = visit[v]
    OBVIOUS
<1>9. \A v \in mine : visit[v] \in D
    OBVIOUS
<1> DEFINE m == Min(D)
<1>10. /\ m \in D /\ m \in Int /\ \A v \in mine : m <= visit[v]
       /\ m = range.end \/ \E v \in mine : m = visit[v]
    <2>1. m \in D
        BY <1>7
    <2> HIDE DEF D
    <2> QED
        BY <1>4, <1>7, <1>8, <1>9, <2>1
<1>11. m < range.end <=> mine # {}
    <2> HIDE DEF m, mine
    <2> QED
        BY <1>1, <1>10
<1>12. m < range.end => \E v \in mine : m = visit[v]
    <2> HIDE DEF m, mine
    <2> QED
        BY <1>10
<1> HIDE DEF m
<1>13. FirstVisit(range, u, type) = m
    BY <1>3 DEF m
<1> QED
    BY <1>10, <1>11, <1>12, <1>13

LEMMA LastSaleIs ==
    ASSUME SalesInvariant, NEW S \in SUBSET AllDelivered, S # {}
    PROVE  LET last == Max({SaleDate(o) : o \in S})
           IN  /\ last \in Int /\ \A o \in S : SaleDate(o) <= last
               /\ \E o \in S : last = SaleDate(o)
<1> DEFINE D == {SaleDate(o) : o \in S}
           f == [o \in S |-> SaleDate(o)]
<1>1. \A o \in S : o \in AllSales /\ SaleDate(o) \in Int
    BY DatesAre
<1>2. S \in SUBSET AllSales
    BY <1>1
<1>3. IsFiniteSet(S)
    BY <1>2, OrdersAre
<1>4. /\ DOMAIN f = S /\ \A o \in S : f[o] \in D
      /\ \A t \in D : \E o \in S : f[o] = t
    OBVIOUS
<1>5. D \in SUBSET Int /\ D # {} /\ (\A o \in S : SaleDate(o) \in D)
      /\ \A x \in D : \E o \in S : x = SaleDate(o)
    BY <1>1
<1> HIDE DEF D, f
<1>6. IsFiniteSet(D)
    BY <1>3, <1>4, ImageIsFinite
<1>7. Max(D) \in D /\ \A x \in D : x <= Max(D)
    BY <1>5, <1>6, GreatestIn
<1>8. /\ Max(D) \in Int /\ \A o \in S : SaleDate(o) <= Max(D)
      /\ \E o \in S : Max(D) = SaleDate(o)
    BY <1>5, <1>7
<1> QED
    BY <1>8 DEF D

(* A buyer who looked before is one who bought after a visit.              *)
LEMMA ConvertedIs ==
    ASSUME SalesInvariant, NEW range, range.end \in Int, NEW u
    PROVE  Converted(range, u, "PRODUCT_VIEW") <=>
              \E v \in VisitsIn(range), o \in DeliveredIn(range) :
                 /\ v.by = u /\ v.type = "PRODUCT_VIEW" /\ Who(o) = u
                 /\ visit[v] <= SaleDate(o)
<1> DEFINE first == FirstVisit(range, u, "PRODUCT_VIEW")
           views == {w \in VisitsIn(range) :
                        w.by = u /\ w.type = "PRODUCT_VIEW"}
           mine == By(u, DeliveredIn(range))
           last == Max({SaleDate(o) : o \in mine})
<1>1. Converted(range, u, "PRODUCT_VIEW")
         <=> first < range.end /\ mine # {} /\ last >= first
    BY DEF Converted
<1>2. /\ first \in Int /\ \A v \in views : first <= visit[v]
      /\ first < range.end <=> views # {}
      /\ first < range.end => \E v \in views : first = visit[v]
    BY FirstVisitIs
<1>3. \A v \in views : visit[v] \in Int
    BY VisitsAre
<1>4. mine \in SUBSET AllDelivered
    BY DEF By, DeliveredIn
<1>5. \A o \in mine : SaleDate(o) \in Int
    BY <1>4, DatesAre
<1>6. mine # {} => /\ last \in Int /\ \A o \in mine : SaleDate(o) <= last
                   /\ \E o \in mine : last = SaleDate(o)
    <2> HIDE DEF mine
    <2> QED
        BY <1>4, LastSaleIs
<1>7. (\E v \in VisitsIn(range), o \in DeliveredIn(range) :
          /\ v.by = u /\ v.type = "PRODUCT_VIEW" /\ Who(o) = u
          /\ visit[v] <= SaleDate(o))
      <=> \E v \in views, o \in mine : visit[v] <= SaleDate(o)
    BY DEF By
<1> HIDE DEF first, views, mine, last
<1>8. (first < range.end /\ mine # {} /\ last >= first)
         <=> \E v \in views, o \in mine : visit[v] <= SaleDate(o)
    <2>1. ASSUME first < range.end, mine # {}, last >= first
          PROVE  \E v \in views, o \in mine : visit[v] <= SaleDate(o)
        <3>1. PICK v \in views : first = visit[v]
            BY <1>2, <2>1
        <3>2. PICK o \in mine : last = SaleDate(o)
            BY <1>6, <2>1
        <3> QED
            BY <1>2, <1>6, <2>1, <3>1, <3>2
    <2>2. ASSUME NEW v \in views, NEW o \in mine, visit[v] <= SaleDate(o)
          PROVE  first < range.end /\ mine # {} /\ last >= first
        <3>1. first < range.end /\ first <= visit[v] /\ mine # {}
            BY <1>2
        <3>2. SaleDate(o) <= last /\ last \in Int
            BY <1>6, <3>1
        <3>3. SaleDate(o) \in Int /\ visit[v] \in Int /\ first \in Int
            BY <1>2, <1>3, <1>5
        <3> QED
            BY <2>2, <3>1, <3>2, <3>3
    <2> QED
        BY <2>1, <2>2
<1> QED
    BY <1>1, <1>7, <1>8

LEMMA BehaviorHolds ==
    ASSUME SalesInvariant, NEW range, range.end \in Int
    PROVE  BehaviorAgrees(range)
<1> DEFINE V == Visitors(range)
           B == BuyersOf(DeliveredIn(range))
           b == Behavior(range)
           f == [v \in VisitsIn(range) |-> v.by]
           g == [o \in DeliveredIn(range) |-> Who(o)]
<1>1. IsFiniteSet(V)
    <2>1. /\ DOMAIN f = VisitsIn(range)
          /\ \A v \in VisitsIn(range) : f[v] \in V
          /\ \A u \in V : \E v \in VisitsIn(range) : f[v] = u
        BY DEF Visitors
    <2> HIDE DEF f, V
    <2> QED
        BY <2>1, VisitsAre, ImageIsFinite
<1>2. IsFiniteSet(B)
    <2>1. /\ DOMAIN g = DeliveredIn(range)
          /\ \A o \in DeliveredIn(range) : g[o] \in B
          /\ \A u \in B : \E o \in DeliveredIn(range) : g[o] = u
        BY DEF BuyersOf
    <2>2. DeliveredIn(range) \in SUBSET AllSales
        BY DEF DeliveredIn, AllDelivered
    <2> HIDE DEF g, B
    <2> QED
        BY <2>1, <2>2, OrdersAre, ImageIsFinite
<1>3. Cardinality(V \cup B)
         = Cardinality(V) + Cardinality(B) - Cardinality(V \cap B)
    <2> HIDE DEF V, B
    <2> QED
        BY <1>1, <1>2, FS_Union
<1>4. /\ b.active = Cardinality(V) + Cardinality(B) - Cardinality(V \cap B)
      /\ b.viewers =
            {u \in V : FirstVisit(range, u, "PRODUCT_VIEW") < range.end}
      /\ b.viewerBuyers = {u \in V : Converted(range, u, "PRODUCT_VIEW")}
    BY DEF Behavior
<1>5. ASSUME NEW u, Converted(range, u, "PRODUCT_VIEW")
      PROVE  FirstVisit(range, u, "PRODUCT_VIEW") < range.end
    BY <1>5 DEF Converted
<1>6. b.viewerBuyers =
         {u \in b.viewers :
             \E v \in VisitsIn(range), o \in DeliveredIn(range) :
                /\ v.by = u /\ v.type = "PRODUCT_VIEW" /\ Who(o) = u
                /\ visit[v] <= SaleDate(o)}
    <2> HIDE DEF b, V, B
    <2>1. \A u : u \in b.viewerBuyers
                    <=> u \in b.viewers /\ Converted(range, u, "PRODUCT_VIEW")
        BY <1>4, <1>5
    <2>2. \A u \in b.viewerBuyers : u \in b.viewers
        BY <2>1
    <2> QED
        BY <2>1, <2>2, ConvertedIs
<1> HIDE DEF V, B, b
<1>7. b.active = Cardinality(V \cup B)
    BY <1>3, <1>4
<1> QED
    BY <1>6, <1>7 DEF BehaviorAgrees, V, B, b

-----------------------------------------------------------------------------
(* The reports: purchases on consecutive days.                             *)

(* The orders of one checkout of a product.                                *)
OrdersOf(g) == {o \in Placed : RepeatGroup(o) = g}

LEMMA KeyIsKey == ASSUME NEW o PROVE PurchaseKey(o) # NoKey
<1>1. <<"id", o>> # NoKey
    BY DEF NoKey
<1> QED
    BY <1>1, KeyIs

(* Looked up by the keys are the orders of the group.                      *)
LEMMA LookupIs ==
    ASSUME NEW range, NEW o
    PROVE  Lookup(range, RepeatGroup(o)) = OrdersOf(RepeatGroup(o))
<1> DEFINE k == PurchaseKey(o)
           a == Who(o)
           b == What(o)
<1>1. RepeatGroup(o) = <<a, b, k>>
    BY DEF RepeatGroup
<1>2. k # NoKey
    BY KeyIsKey
<1> HIDE DEF a, b, k
<1>3. ASSUME NEW q \in Placed
      PROVE  RepeatGroup(q) = <<a, b, k>>
                <=> Who(q) = a /\ What(q) = b /\ PurchaseKey(q) = k
    BY DEF RepeatGroup
<1>4. ASSUME NEW q \in Placed
      PROVE  PurchaseKey(q) = k
                <=> \/ sale[q].pay = k
                    \/ sale[q].pay = NoKey /\ sale[q].group = k
                    \/ /\ sale[q].pay = NoKey /\ sale[q].group = NoKey
                       /\ k = <<"id", q>>
    BY <1>2, KeyIs
<1> DEFINE g == <<a, b, k>>
<1>5. g[1] = a /\ g[2] = b /\ g[3] = k
    OBVIOUS
<1>6. \A q \in Placed : RepeatGroup(q) = g <=> q \in Lookup(range, g)
    BY <1>3, <1>4, <1>5 DEF Lookup
<1> HIDE DEF g
<1>7. Lookup(range, g) \subseteq Placed
    BY DEF Lookup
<1>8. OrdersOf(g) = {q \in Placed : RepeatGroup(q) = g}
    BY DEF OrdersOf
<1>9. Lookup(range, g) = OrdersOf(g)
    BY <1>6, <1>7, <1>8
<1> QED
    BY <1>1, <1>9 DEF g

LEMMA PlacedAre ==
    ASSUME SalesInvariant, NEW o \in Placed
    PROVE  /\ o \in AllSales /\ sale[o].created \in Nat
           /\ sale[o].created <= tick /\ tick \in Nat /\ tick <= LastTick
<1>1. o \in AllSales /\ sale[o].status # "NONE"
    BY DEF Placed
<1>2. tick \in Nat /\ tick <= LastTick
    BY ReportConstants DEF SalesInvariant, SalesTyped, ReportTypeOK
<1>3. sale[o].created = 0 \/ sale[o].created \in 0..tick
    BY <1>1 DEF AllSales, SalesInvariant, SalesDated
<1> QED
    BY <1>1, <1>2, <1>3

(* A checkout begins with its first order.                                 *)
LEMMA BeginsWith ==
    ASSUME SalesInvariant, NEW S \in SUBSET Placed, S # {}
    PROVE  /\ \E o \in S : Totals(S).purchasedAt = sale[o].created
           /\ \A o \in S : Totals(S).purchasedAt <= sale[o].created
           /\ Totals(S).purchasedAt \in Nat
           /\ Totals(S).purchasedAt <= LastTick
<1> DEFINE times == {sale[o].created : o \in S}
           D == {LastTick + 1} \cup times
           f == [o \in S |-> sale[o].created]
           m == Min(D)
<1>1. ASSUME NEW o \in S
      PROVE  /\ o \in AllSales /\ sale[o].created \in Nat
             /\ sale[o].created <= LastTick
    <2> DEFINE c == sale[o].created
    <2>1. /\ o \in AllSales /\ c \in Nat /\ c <= tick
          /\ tick \in Nat /\ tick <= LastTick
        BY PlacedAre
    <2>2. LastTick \in Nat
        BY ReportConstants
    <2> HIDE DEF c
    <2>3. c <= LastTick
        BY <2>1, <2>2
    <2> QED
        BY <2>1, <2>3 DEF c
<1>2. S \in SUBSET AllSales
    BY <1>1
<1>3. IsFiniteSet(S)
    BY <1>2, OrdersAre
<1>4. /\ DOMAIN f = S /\ \A o \in S : f[o] \in times
      /\ \A t \in times : \E o \in S : f[o] = t
    OBVIOUS
<1>5. /\ \A t \in times : \E o \in S : t = sale[o].created
      /\ \A o \in S : sale[o].created \in times
    OBVIOUS
<1>6. Totals(S).purchasedAt = m
    BY DEF Totals
<1> HIDE DEF times, f
<1>7. IsFiniteSet(times)
    BY <1>3, <1>4, ImageIsFinite
<1>8. LastTick \in Nat
    BY ReportConstants
<1>9. times \subseteq Int
    BY <1>1, <1>5
<1>10. IsFiniteSet(D) /\ D \in SUBSET Int /\ D # {}
    <2>1. IsFiniteSet({LastTick + 1})
        BY FS_Singleton
    <2>2. IsFiniteSet(D)
        BY <1>7, <2>1, FS_Union
    <2> QED
        BY <1>8, <1>9, <2>2
<1>11. m \in D /\ \A x \in D : m <= x
    <2> HIDE DEF D
    <2> QED
        BY <1>10, LeastIn DEF m
<1> HIDE DEF m
<1>12. m \in Int /\ \A o \in S : m <= sale[o].created
    BY <1>5, <1>10, <1>11
<1>13. \E o \in S : m = sale[o].created
    BY <1>1, <1>5, <1>8, <1>11
<1> QED
    BY <1>1, <1>6, <1>12, <1>13

LEMMA GroupedIs ==
    /\ DOMAIN Grouped = {RepeatGroup(o) : o \in Placed}
    /\ \A g \in DOMAIN Grouped : Grouped[g] = Totals(OrdersOf(g))
BY Zenon DEF Grouped, OrdersOf

LEMMA IndexedIs ==
    ASSUME NEW range
    PROVE  /\ DOMAIN Indexed(range) = {RepeatGroup(o) : o \in
                    {q \in Placed : Within(range, sale[q].created)}}
           /\ \A g \in DOMAIN Indexed(range) :
                 Indexed(range)[g] = Totals(OrdersOf(g))
<1> DEFINE E == {RepeatGroup(o) :
                    o \in {q \in Placed : Within(range, sale[q].created)}}
<1>1. Indexed(range) = [g \in E |-> Totals(Lookup(range, g))]
    BY Zenon DEF Indexed
<1>2. ASSUME NEW g \in E PROVE Lookup(range, g) = OrdersOf(g)
    <2>1. PICK o : g = RepeatGroup(o)
        OBVIOUS
    <2> QED
        BY <2>1, LookupIs
<1> HIDE DEF E
<1>3. DOMAIN Indexed(range) = E
    BY <1>1
<1>4. \A g \in E : Indexed(range)[g] = Totals(OrdersOf(g))
    BY <1>1, <1>2
<1> QED
    BY <1>3, <1>4 DEF E

(* Looked up one by one or grouped at once: the checkouts are the same.    *)
LEMMA SameCounted ==
    ASSUME SalesInvariant, NEW range
    PROVE  /\ Counted(Indexed(range), range) = Counted(Grouped, range)
           /\ \A g \in Counted(Indexed(range), range) :
                 Indexed(range)[g] = Grouped[g]
<1> DEFINE few == Indexed(range)
           many == Grouped
<1>1. /\ DOMAIN few \subseteq DOMAIN many
      /\ \A g \in DOMAIN few : few[g] = many[g]
    <2>1. /\ DOMAIN many = {RepeatGroup(o) : o \in Placed}
          /\ \A g \in DOMAIN many : many[g] = Totals(OrdersOf(g))
        BY GroupedIs
    <2>2. /\ DOMAIN few = {RepeatGroup(o) : o \in
                    {q \in Placed : Within(range, sale[q].created)}}
          /\ \A g \in DOMAIN few : few[g] = Totals(OrdersOf(g))
        BY IndexedIs
    <2> HIDE DEF few, many
    <2>3. DOMAIN few \subseteq DOMAIN many
        BY <2>1, <2>2
    <2> QED
        BY <2>1, <2>2, <2>3
<1>2. ASSUME NEW g \in DOMAIN many, Within(range, many[g].purchasedAt)
      PROVE  g \in DOMAIN few
    <2>1. PICK o \in Placed : g = RepeatGroup(o)
        BY GroupedIs
    <2>2. o \in OrdersOf(g) /\ OrdersOf(g) \in SUBSET Placed
        BY <2>1 DEF OrdersOf
    <2>3. PICK q \in OrdersOf(g) : many[g].purchasedAt = sale[q].created
        BY <2>2, GroupedIs, BeginsWith
    <2>4. q \in Placed /\ RepeatGroup(q) = g
        BY DEF OrdersOf
    <2>5. q \in {r \in Placed : Within(range, sale[r].created)}
        BY <1>2, <2>3, <2>4
    <2> QED
        BY <2>4, <2>5, IndexedIs
<1> HIDE DEF few, many
<1>3. Counted(few, range) = Counted(many, range)
    BY <1>1, <1>2 DEF Counted
<1>4. Counted(few, range) \subseteq DOMAIN few
    BY DEF Counted
<1> QED
    BY <1>1, <1>3, <1>4 DEF few, many

(* The days that are searched for a streak are those of the behaviour.     *)
LEMMA DaysInTime ==
    ASSUME SalesInvariant, NEW range, NEW u, NEW p
    PROVE  PurchaseDays(Indexed(range), range, u, p) \in SUBSET (0..LastTick)
<1> DEFINE few == Indexed(range)
<1>1. ASSUME NEW g \in Counted(few, range)
      PROVE  DayOf(few[g].purchasedAt) \in 0..LastTick
    <2>1. g \in DOMAIN few
        <3> HIDE DEF few
        <3> QED
            BY DEF Counted
    <2>2. PICK o \in Placed : g = RepeatGroup(o)
        <3>1. DOMAIN few = {RepeatGroup(o) : o \in
                    {q \in Placed : Within(range, sale[q].created)}}
            BY IndexedIs
        <3> HIDE DEF few
        <3> QED
            BY <2>1, <3>1
    <2>3. o \in OrdersOf(g) /\ OrdersOf(g) \in SUBSET Placed
        BY <2>2 DEF OrdersOf
    <2>4. few[g] = Totals(OrdersOf(g))
        BY <2>1, IndexedIs
    <2> DEFINE t == few[g].purchasedAt
    <2>5. t \in Nat /\ t <= LastTick
        BY <2>3, <2>4, BeginsWith
    <2>6. LastTick \in Nat
        BY ReportConstants
    <2> HIDE DEF t
    <2>7. DayOf(t) \in Nat /\ DayOf(t) <= t
        BY <2>5, DayOfTick
    <2>8. DayOf(t) \in 0..LastTick
        BY <2>5, <2>6, <2>7
    <2> QED
        BY <2>8 DEF t
<1> HIDE DEF few
<1>2. PurchaseDays(few, range, u, p) =
         {DayOf(few[g].purchasedAt) :
             g \in {h \in Counted(few, range) : h[1] = u /\ h[2] = p}}
    BY DEF PurchaseDays
<1> QED
    BY <1>1, <1>2 DEF few

LEMMA RepeatHolds ==
    ASSUME SalesInvariant, NEW range
    PROVE  RepeatAgrees(range)
<1>1. ASSUME NEW u, NEW p, PurchaseDays(Indexed(range), range, u, p) # {}
      PROVE  LET days == PurchaseDays(Indexed(range), range, u, p)
             IN  /\ Streak(days).longest = LongestRun(days).longest
                 /\ Streak(days).from = LongestRun(days).from
    BY <1>1, DaysInTime, StreakIsLongest
<1> QED
    BY <1>1, SameCounted DEF RepeatAgrees

-----------------------------------------------------------------------------
(* The reports agree.                                                      *)

LEMMA AllDays ==
    ASSUME SalesInvariant
    PROVE  /\ DayOf(LastTick) \in Nat /\ DayOf(tick) \in Nat
           /\ 1 <= DayOf(tick) /\ DayOf(tick) <= DayOf(LastTick)
           /\ DayOf(0) < 1
           /\ \A t \in Nat : t <= LastTick =>
                 Within(DateRange(0, DayOf(LastTick)), t)
<1>1. /\ LastTick \in Nat /\ tick \in Nat /\ tick <= LastTick
      /\ DayLength \in Nat /\ UtcOffset \in Nat /\ UtcOffset < DayLength
      /\ DayLength - UtcOffset <= tick
    BY ReportConstants DEF SalesInvariant, SalesDated, SalesTyped, ReportTypeOK
<1>2. DayOf(LastTick) \in Nat /\ DayOf(tick) \in Nat /\ DayOf(0) \in Nat
    BY <1>1, DayOfTick
<1>3. 1 * DayLength - UtcOffset <= tick <=> 1 <= DayOf(tick)
    BY <1>1, DayIs
<1>4. 1 * DayLength - UtcOffset <= 0 <=> 1 <= DayOf(0)
    BY DayIs
<1>5. 1 * DayLength = DayLength
    BY <1>1
<1>6. 1 <= DayOf(tick) /\ DayOf(0) < 1
    BY <1>1, <1>2, <1>3, <1>4, <1>5
<1>7. DayOf(tick) <= DayOf(LastTick)
    BY <1>1, DaysFollowTime
<1>8. ASSUME NEW t \in Nat, t <= LastTick
      PROVE  Within(DateRange(0, DayOf(LastTick)), t)
    <2>1. DayOf(t) \in Nat
        BY DayOfTick
    <2>2. DayOf(t) <= DayOf(LastTick)
        BY <1>1, <1>8, DaysFollowTime
    <2>3. 0 \in Int /\ DayOf(LastTick) \in Int /\ t \in Int
        BY <1>2
    <2>4. 0 <= DayOf(t)
        BY <2>1
    <2> QED
        BY <2>2, <2>3, <2>4, WithinDays
<1> QED
    BY <1>2, <1>6, <1>7, <1>8

(* The range of all days holds whatever was delivered.                     *)
LEMMA AllIsAll ==
    ASSUME SalesInvariant
    PROVE  DeliveredIn(DateRange(0, DayOf(LastTick))) = AllDelivered
<1>1. ASSUME NEW o \in AllDelivered
      PROVE  Within(DateRange(0, DayOf(LastTick)), SaleDate(o))
    <2> DEFINE t == SaleDate(o)
    <2>1. t \in Nat /\ t <= tick /\ tick \in Nat /\ tick <= LastTick
        BY DatesAre
    <2>2. LastTick \in Nat
        BY ReportConstants
    <2> HIDE DEF t
    <2>3. t <= LastTick
        BY <2>1, <2>2
    <2> QED
        BY <2>1, <2>3, AllDays DEF t
<1> QED
    BY <1>1 DEF DeliveredIn

(* What was delivered since the day began was delivered today.             *)
LEMMA TodayIs ==
    ASSUME SalesInvariant
    PROVE  {o \in AllDelivered : sale[o].deliveredAt >= StartOfDay}
              = DeliveredIn(DateRange(DayOf(tick), DayOf(tick)))
<1> DEFINE today == DayOf(tick)
           range == DateRange(today, today)
<1>1. /\ today \in Nat /\ 1 <= today /\ DayOf(0) < 1 /\ DayOf(0) \in Int
      /\ tick \in Nat
    <2>1. DayOf(0) \in Nat
        BY DayOfTick
    <2>2. tick \in Nat
        BY DEF SalesInvariant, SalesTyped, ReportTypeOK
    <2> QED
        BY <2>1, <2>2, AllDays
<1>2. StartOfDay = today * DayLength - UtcOffset
    BY DEF StartOfDay
<1> DEFINE start == today * DayLength - UtcOffset
<1>3. start \in Int /\ (start <= -1 <=> today <= DayOf(-1))
      /\ (start <= 0 <=> today <= DayOf(0))
    <2>1. today \in Int /\ DayLength \in Int /\ UtcOffset \in Int
        BY <1>1, ReportConstants
    <2>2. start \in Int
        BY <2>1
    <2>3. (start <= -1 <=> today <= DayOf(-1))
          /\ (start <= 0 <=> today <= DayOf(0))
        BY <2>1, DayIs
    <2> QED
        BY <2>2, <2>3
<1>4. ASSUME NEW o \in AllDelivered
      PROVE  sale[o].deliveredAt >= StartOfDay <=> o \in DeliveredIn(range)
    <2> DEFINE t == SaleDate(o)
    <2>1. /\ o \in AllSales /\ t \in Nat /\ t <= tick
          /\ sale[o].status = "DELIVERED"
        BY DatesAre DEF AllDelivered
    <2>2. o \in DeliveredIn(range) <=> today <= DayOf(t) /\ DayOf(t) <= today
        BY <1>1, DeliveredIs
    <2>3. DayOf(t) <= today /\ DayOf(t) \in Int
        BY <1>1, <2>1, DaysFollowTime, DayIs
    <2>4. start <= t <=> today <= DayOf(t)
        BY <1>1, <2>1, DayIs
    <2>5. CASE o = 0
        <3>1. sale[o].deliveredAt = -1 /\ t = 0
            BY <2>5 DEF SalesInvariant, SalesDated, SaleDate, Unseen
        <3> HIDE DEF t, start, today, range
        <3>2. ~ (-1 >= start)
            BY <1>1, <1>3
        <3>3. ~ (today <= DayOf(t))
            BY <1>1, <3>1
        <3> QED
            BY <1>2, <2>2, <3>1, <3>2, <3>3 DEF start
    <2>6. CASE o \in Sales
        <3>1. sale[o].deliveredAt = t
            BY <2>1, <2>6 DEF SalesInvariant, SalesDated, SaleDate, Unseen
        <3> HIDE DEF t, start, today, range
        <3>2. t >= start <=> start <= t
            BY <1>3, <2>1
        <3> QED
            BY <1>2, <2>2, <2>3, <2>4, <3>1, <3>2 DEF start
    <2> QED
        BY <2>1, <2>5, <2>6 DEF AllSales
<1>5. DeliveredIn(range) \subseteq AllDelivered
    BY DEF DeliveredIn
<1> HIDE DEF range, today
<1>6. {o \in AllDelivered : sale[o].deliveredAt >= StartOfDay}
         = DeliveredIn(range)
    BY <1>4, <1>5
<1> QED
    BY <1>6 DEF range, today

(* Every checkout that was delivered counts as a purchase, and each once.  *)
LEMMA CountedIs ==
    ASSUME SalesInvariant
    PROVE  Counted(Grouped, DateRange(0, DayOf(LastTick)))
              = {RepeatGroup(o) : o \in AllDelivered}
<1> DEFINE all == DateRange(0, DayOf(LastTick))
           many == Grouped
<1>1. AllDelivered \subseteq Placed
    BY DEF AllDelivered, Placed
<1>2. /\ DOMAIN many = {RepeatGroup(o) : o \in Placed}
      /\ \A g \in DOMAIN many : many[g] = Totals(OrdersOf(g))
    BY GroupedIs
<1>3. ASSUME NEW g \in DOMAIN many
      PROVE  /\ many[g].delivered > 0 <=> \E o \in AllDelivered :
                                              RepeatGroup(o) = g
             /\ Within(all, many[g].purchasedAt)
    <2> DEFINE S == OrdersOf(g)
               done == S \cap AllDelivered
    <2>1. many[g] = Totals(S)
        BY <1>2
    <2>2. S \in SUBSET Placed /\ S # {}
        BY <1>2 DEF OrdersOf
    <2>3. Totals(S).delivered = Cardinality(done)
        BY DEF Totals
    <2>4. IsFiniteSet(done)
        <3>1. done \in SUBSET AllSales
            BY DEF AllDelivered
        <3> QED
            BY <3>1, OrdersAre
    <2>5. Cardinality(done) > 0 <=> done # {}
        <3> HIDE DEF done
        <3>1. Cardinality(done) \in Nat
            BY <2>4, FS_CardinalityType
        <3>2. Cardinality(done) = 0 <=> done = {}
            BY <2>4, FS_EmptySet
        <3> QED
            BY <3>1, <3>2
    <2>6. done # {} <=> \E o \in AllDelivered : RepeatGroup(o) = g
        BY <1>1 DEF OrdersOf
    <2>7. Totals(S).purchasedAt \in Nat /\ Totals(S).purchasedAt <= LastTick
        BY <2>2, BeginsWith
    <2>8. Within(all, Totals(S).purchasedAt)
        BY <2>7, AllDays
    <2> QED
        BY <2>1, <2>3, <2>5, <2>6, <2>8
<1> HIDE DEF many, all
<1>4. \A g : g \in Counted(many, all)
                <=> g \in DOMAIN many /\ \E o \in AllDelivered :
                                            RepeatGroup(o) = g
    BY <1>3 DEF Counted
<1>5. Counted(many, all) = {RepeatGroup(o) : o \in AllDelivered}
    BY <1>1, <1>2, <1>4
<1> QED
    BY <1>5 DEF many, all

(* The two reports count the same purchases: a key has one wish.           *)
LEMMA PurchasesAreCounted ==
    ASSUME SalesInvariant
    PROVE  Cardinality(Counted(Grouped, DateRange(0, DayOf(LastTick))))
              = Cardinality(Purchases(AllDelivered))
<1> DEFINE G == {RepeatGroup(o) : o \in AllDelivered}
           K == Purchases(AllDelivered)
           short(g) == <<g[1], g[3]>>
           f == [g \in G |-> short(g)]
<1>1. ASSUME NEW o \in AllDelivered, NEW q \in AllDelivered,
             Who(o) = Who(q), PurchaseKey(o) = PurchaseKey(q)
      PROVE  RepeatGroup(o) = RepeatGroup(q)
    <2>1. o \in Placed /\ q \in Placed
        BY DEF AllDelivered, Placed
    <2>2. sale[o].of = sale[q].of
        BY <1>1, <2>1 DEF SalesInvariant, SalesKeyed
    <2> QED
        BY <1>1, <2>2 DEF RepeatGroup, What
<1>2. ASSUME NEW o
      PROVE  short(RepeatGroup(o)) = <<Who(o), PurchaseKey(o)>>
    BY DEF RepeatGroup
<1>3. IsFiniteSet(G)
    <2> DEFINE r == [o \in AllDelivered |-> RepeatGroup(o)]
    <2>1. AllDelivered \in SUBSET AllSales
        BY DEF AllDelivered
    <2>2. /\ DOMAIN r = AllDelivered /\ \A o \in AllDelivered : r[o] \in G
          /\ \A g \in G : \E o \in AllDelivered : r[o] = g
        OBVIOUS
    <2> HIDE DEF G, r
    <2>3. IsFiniteSet(AllDelivered)
        BY <2>1, OrdersAre
    <2> QED
        BY <2>2, <2>3, ImageIsFinite
<1> HIDE DEF short
<1>4. \A g \in G : f[g] \in K
    BY <1>2 DEF Purchases
<1>5. \A y \in K : \E g \in G : f[g] = y
    BY <1>2 DEF Purchases
<1>6. ASSUME NEW g \in G, NEW h \in G, f[g] = f[h] PROVE g = h
    <2>1. PICK o \in AllDelivered : g = RepeatGroup(o)
        OBVIOUS
    <2>2. PICK q \in AllDelivered : h = RepeatGroup(q)
        OBVIOUS
    <2>3. <<Who(o), PurchaseKey(o)>> = <<Who(q), PurchaseKey(q)>>
        BY <1>2, <1>6, <2>1, <2>2
    <2>4. Who(o) = Who(q) /\ PurchaseKey(o) = PurchaseKey(q)
        BY <2>3
    <2> QED
        BY <1>1, <2>1, <2>2, <2>4
<1>7. f \in [G -> K]
    <2> HIDE DEF G, K
    <2> QED
        BY <1>4
<1> HIDE DEF G, K, f
<1>8. f \in Surjection(G, K) /\ f \in Injection(G, K)
    BY <1>5, <1>6, <1>7 DEF Surjection, Injection, IsInjective
<1>9. Cardinality(G) = Cardinality(K)
    BY <1>3, <1>8, FS_Surjection
<1> QED
    BY <1>9, CountedIs DEF G, K

LEMMA EveryRangeHolds == SalesInvariant => EveryRangeAgrees
<1> SUFFICES ASSUME SalesInvariant PROVE EveryRangeAgrees
    OBVIOUS
<1> DEFINE last == DayOf(LastTick)
           all == DateRange(0, last)
           total == Summary(all).amounts
<1>1. ASSUME NEW from \in 0..last, NEW to \in 0..last, from <= to
      PROVE  /\ RangeAgrees(from, to)
             /\ BehaviorAgrees(DateRange(from, to))
             /\ RepeatAgrees(DateRange(from, to))
    <2>1. from \in Nat /\ to \in Nat
        BY AllDays
    <2>2. DateRange(from, to).end \in Int
        <3>1. DateRange(from, to).end = (to + 1) * DayLength - UtcOffset
            BY DEF DateRange
        <3>2. DayLength \in Int /\ UtcOffset \in Int
            BY ReportConstants
        <3> QED
            BY <2>1, <3>1, <3>2
    <2> QED
        BY <2>1, <2>2, RangeHolds, BehaviorHolds, RepeatHolds
<1>2. total = Amounts(AllDelivered)
    BY AllIsAll DEF Summary
<1>3. AllDelivered \in SUBSET AllSales
    BY DEF AllDelivered
<1>4. /\ total["net"] = SumMap(Paid, AllDelivered)
      /\ total["orderCount"] = Cardinality(AllDelivered)
      /\ total["purchaseCount"] = Cardinality(Purchases(AllDelivered))
    BY <1>2, <1>3, AmountsAre
<1> DEFINE now == {o \in AllDelivered : sale[o].deliveredAt >= StartOfDay}
           today == DeliveredIn(DateRange(DayOf(tick), DayOf(tick)))
<1>5. /\ Dashboard.revenue = SumMap(Paid, AllDelivered)
      /\ Dashboard.today = SumMap(Paid, now)
      /\ Dashboard.completed = Cardinality(AllDelivered)
    BY SumIs DEF Dashboard
<1>6. Amounts(today)["net"] = SumMap(Paid, today)
    <2>1. today \in SUBSET AllSales
        BY DEF DeliveredIn, AllDelivered
    <2> HIDE DEF today
    <2> QED
        BY <2>1, AmountsAre
<1>7. now = today
    BY TodayIs
<1>8. Cardinality(Counted(Grouped, all)) = total["purchaseCount"]
    BY <1>4, PurchasesAreCounted
<1>9. /\ Dashboard.revenue = total["net"]
      /\ Dashboard.today = Amounts(today)["net"]
      /\ Dashboard.completed = total["orderCount"]
    BY <1>4, <1>5, <1>6, <1>7
<1> HIDE DEF last, all, total, today
<1> QED
    BY <1>1, <1>8, <1>9 DEF EveryRangeAgrees, last, all, total, today
=============================================================================
