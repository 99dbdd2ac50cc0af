------------------------------ MODULE AdminPage ------------------------------
(***************************************************************************)
(* The page of an administrator, in one tab of a browser, and the session  *)
(* behind it.  Its requests carry an access token of minutes; one that is  *)
(* refused refreshes the session once for all of them and is sent again.   *)
(* The refresh token is a cookie: whatever answer comes last sets it.      *)
(***************************************************************************)
EXTENDS Session

CONSTANTS
    Calls,      \* requests of the page that run at the same time
    MaxLoads    \* bound: times the page is loaded again

VARIABLES
    cookie,     \* the refresh token that the browser holds, 0 for none
    tokens,     \* the pair whose access token the page holds, 0 for none
    outdated,   \* the pairs whose access token has expired
    call,       \* call[k]: how far a request is, and the pair it was sent by
    inFlight,   \* refreshInFlight: the refreshes the page waits for
    answer,     \* answer[c]: the pair on its way back, 0 for a refusal
    leaving,    \* the cookie that a logout on its way carries
    loads,      \* times the page was loaded again
    mounting,   \* it was, and has not looked for its session yet
    disturbed,  \* an answer was lost, the page was left while requests ran,
                \* or loaded again while it refreshed or left
    cutOff      \* a token was presented twice and the session ended by it

pageVars == <<cookie, tokens, outdated, call, inFlight, answer, leaving,
              loads, mounting, disturbed, cutOff>>

NoAnswer == -1
NotCalling == [step |-> "idle", by |-> 0, on |-> {}]

PageTypeOK ==
    /\ cookie \in 0..MaxTokens /\ tokens \in 0..MaxTokens
    /\ outdated \subseteq Tokens /\ inFlight \subseteq Callers
    /\ \A k \in Calls : call[k].step \in {"idle", "sent", "waits", "again"}
    /\ answer \in [Callers -> NoAnswer..MaxTokens]

PageInit ==
    /\ cookie = 0 /\ tokens = 0 /\ outdated = {} /\ leaving = {}
    /\ call = [k \in Calls |-> NotCalling]
    /\ inFlight = {} /\ answer = [c \in Callers |-> NoAnswer]
    /\ loads = 0 /\ mounting = FALSE /\ disturbed = FALSE /\ cutOff = FALSE

(* login() and persistTokens().                                            *)
EnterPage ==
    /\ Login /\ ~mounting
    /\ cookie' = 1 /\ tokens' = 1
    /\ UNCHANGED <<outdated, call, inFlight, answer, leaving, loads,
                   mounting, disturbed, cutOff>>

SendCall(k) ==
    /\ call[k] = NotCalling /\ tokens # 0 /\ ~mounting
    /\ call' = [call EXCEPT ![k] = [NotCalling EXCEPT !.step = "sent",
                                                      !.by = tokens]]
    /\ UNCHANGED <<sessionVars, cookie, tokens, outdated, inFlight, answer,
                   leaving, loads, mounting, disturbed, cutOff>>

(* Not 401, or 401 a second time: the caller gets the answer as it is.     *)
CallReturns(k) ==
    /\ \/ call[k].step = "again"
       \/ call[k].step = "sent" /\ call[k].by \notin outdated
    /\ call' = [call EXCEPT ![k] = NotCalling]
    /\ UNCHANGED <<sessionVars, cookie, tokens, outdated, inFlight, answer,
                   leaving, loads, mounting, disturbed, cutOff>>

AccessExpires ==
    /\ tokens # 0 /\ outdated' = outdated \cup {tokens}
    /\ outdated' # outdated
    /\ UNCHANGED <<sessionVars, cookie, tokens, call, inFlight, answer,
                   leaving, loads, mounting, disturbed, cutOff>>

(* Mutated: every request that is refused refreshes by itself.             *)
MayShareNone == FALSE
MayShare == inFlight # {}

Unusable == cookie \in {0} \cup {i \in Tokens :
                                   \/ token[i] = "EXPIRED"
                                   \/ token[i] = "LIVE" /\ ~admitted}
Refused(c) == answer' = [answer EXCEPT ![c] = 0]

Free == {c \in Callers \ inFlight :
            answer[c] = NoAnswer /\ caller[c] = Waiting}

(* The refresh is sent and the cookie looked up; nothing of the page comes *)
(* between.                                                                *)
StartRefresh(c) ==
    /\ Free # {} /\ c = CHOOSE d \in Free : TRUE
    /\ inFlight' = inFlight \cup {c}
    /\ \/ /\ Unusable
          /\ Refused(c)
          /\ UNCHANGED <<sessionVars, cutOff>>
       \/ /\ ~Unusable /\ Present(c, cookie)
          /\ cutOff' = (cutOff \/ token' # token)
          /\ IF caller' = caller THEN Refused(c) ELSE UNCHANGED answer

(* authorized(), when the answer is 401: one refresh for all requests.     *)
CallRefused(k) ==
    /\ call[k].step = "sent" /\ call[k].by \in outdated
    /\ \/ /\ MayShare
          /\ call' = [call EXCEPT ![k].step = "waits", ![k].on = inFlight]
          /\ UNCHANGED <<sessionVars, inFlight, answer, cutOff>>
       \/ /\ ~MayShare
          /\ \E c \in Callers :
                /\ StartRefresh(c)
                /\ call' = [call EXCEPT ![k].step = "waits", ![k].on = {c}]
    /\ UNCHANGED <<cookie, tokens, outdated, leaving, loads, mounting,
                   disturbed>>

(* refresh() on the server, with the end of the request.                   *)
ClaimRefresh(c) ==
    /\ Claim(c)
    /\ IF StillUnused(caller[c].of)
       THEN UNCHANGED <<answer, cutOff>>
       ELSE Refused(c) /\ cutOff' = (cutOff \/ token' # token)
    /\ UNCHANGED <<cookie, tokens, outdated, call, inFlight, leaving, loads,
                   mounting, disturbed>>

IssuePair(c) ==
    /\ Issue(c)
    /\ \E i \in Tokens : Fresh(i) /\ answer' = [answer EXCEPT ![c] = i]
    /\ UNCHANGED <<cookie, tokens, outdated, call, inFlight, leaving, loads,
                   mounting, disturbed, cutOff>>

WaitingFor(c) == {k \in Calls : call[k].step = "waits" /\ c \in call[k].on}
Over(c) == /\ inFlight' = inFlight \ {c}
           /\ answer' = [answer EXCEPT ![c] = NoAnswer]

(* The new pair is kept, also by a page that was left while it refreshed.  *)
RefreshReturns(c) ==
    /\ answer[c] > 0 /\ c \in inFlight
    /\ cookie' = answer[c] /\ tokens' = answer[c]
    /\ call' = [k \in Calls |-> IF k \notin WaitingFor(c) THEN call[k]
                                ELSE [step |-> "again", by |-> answer[c],
                                      on |-> {}]]
    /\ Over(c)
    /\ UNCHANGED <<sessionVars, outdated, leaving, loads, mounting,
                   disturbed, cutOff>>

(* logout(): the page forgets its session at once.                         *)
Busy(but) == \E k \in Calls \ but : call[k] # NotCalling
Leaves == tokens' = 0 /\ leaving' = leaving \cup ({cookie} \ {0})

(* The server refuses, or its answer does not come: whoever waits leaves.  *)
RefreshFails(c) ==
    /\ c \in inFlight
    /\ \/ answer[c] # NoAnswer /\ UNCHANGED sessionVars
       \/ RequestDies(c)
    /\ disturbed' = (disturbed \/ answer[c] # 0 \/ Busy(WaitingFor(c)))
    /\ Over(c)
    /\ IF WaitingFor(c) = {} THEN UNCHANGED <<tokens, leaving>> ELSE Leaves
    /\ call' = [k \in Calls |-> IF k \in WaitingFor(c) THEN NotCalling
                                ELSE call[k]]
    /\ UNCHANGED <<cookie, outdated, loads, mounting, cutOff>>

LeavePage ==
    /\ tokens # 0 /\ ~mounting /\ Leaves
    /\ disturbed' = (disturbed \/ inFlight # {} \/ Busy({}))
    /\ UNCHANGED <<sessionVars, cookie, outdated, call, inFlight, answer,
                   loads, mounting, cutOff>>

(* The logout reaches the server, and its answer clears the cookie.        *)
LogoutArrives(i) ==
    /\ i \in leaving /\ leaving' = leaving \ {i}
    /\ IF token[i] = "LIVE" THEN Logout(i) ELSE UNCHANGED sessionVars
    /\ cookie' = 0
    /\ UNCHANGED <<tokens, outdated, call, inFlight, answer, loads,
                   mounting, disturbed, cutOff>>

(* The tab is loaded again: its storage has the access token, and nothing  *)
(* that was under way is waited for.                                       *)
Reload ==
    /\ loads < MaxLoads /\ loads' = loads + 1
    /\ disturbed' = (disturbed \/ inFlight # {} \/ leaving # {})
    /\ inFlight' = {} /\ call' = [k \in Calls |-> NotCalling]
    /\ mounting' = TRUE
    /\ UNCHANGED <<sessionVars, cookie, tokens, outdated, answer, leaving,
                   cutOff>>

(* Without an access token the page tries the cookie.                      *)
Restore ==
    /\ mounting /\ mounting' = FALSE
    /\ IF tokens # 0 THEN UNCHANGED <<sessionVars, inFlight, answer, cutOff>>
       ELSE \E c \in Callers : StartRefresh(c)
    /\ UNCHANGED <<cookie, tokens, outdated, call, leaving, loads, disturbed>>

(* The answer to a page that is gone; the browser may still take its       *)
(* cookie.                                                                 *)
AnswerToNobody(c) ==
    /\ answer[c] # NoAnswer /\ c \notin inFlight
    /\ cookie' \in {cookie} \cup ({answer[c]} \ {0})
    /\ answer' = [answer EXCEPT ![c] = NoAnswer]
    /\ UNCHANGED <<sessionVars, tokens, outdated, call, inFlight, leaving,
                   loads, mounting, disturbed, cutOff>>

(* A suspended administrator is refused as after an expiry.                *)
SessionEnds ==
    /\ \E i \in Tokens : Expire(i)
    /\ UNCHANGED pageVars

PageNext ==
    \/ EnterPage \/ LeavePage \/ AccessExpires \/ Reload \/ Restore
    \/ \E k \in Calls : SendCall(k) \/ CallReturns(k) \/ CallRefused(k)
    \/ \E c \in Callers : \/ ClaimRefresh(c) \/ IssuePair(c)
                          \/ RefreshReturns(c) \/ RefreshFails(c)
                          \/ AnswerToNobody(c)
    \/ \E i \in Tokens : LogoutArrives(i)
    \/ SessionEnds
-----------------------------------------------------------------------------
(* A page never ends its own session: its requests may be refused all at   *)
(* once, and the refresh token is still presented once (page.tsx:149-172,  *)
(* auth.service.ts:37).  Only where an answer was lost, or the page was    *)
(* left or loaded again while it refreshed, can a token come twice.  And   *)
(* else, while no refresh runs, a page that is in holds the newest pair.   *)
PageKeepsItsSession ==
    ~disturbed =>
        /\ ~cutOff
        /\ tokens # 0 /\ inFlight = {} /\ leaving = {}
           => /\ cookie = tokens
              /\ \A i \in Tokens : i > tokens => token[i] = "NONE"
=============================================================================
