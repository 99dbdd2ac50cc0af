------------------------------- MODULE Session -------------------------------
(***************************************************************************)
(* One family of refresh tokens (refresh_tokens): the session that a login *)
(* of an administrator begins.  A token is used up by a refresh, which     *)
(* issues the next one; a token that is presented again ends the session.  *)
(* A request is not atomic: it looks the token up, claims it and stores    *)
(* the next one in three accesses to the database.                         *)
(***************************************************************************)
EXTENDS Integers, FiniteSets

CONSTANTS
    Callers,    \* requests that run at the same time
    MaxTokens   \* bound: tokens of the family

VARIABLES
    token,      \* token[i]: NONE, LIVE, REVOKED or EXPIRED
    parent,     \* parent[i]: the token that was given for i, 0 for the login
    caller,     \* caller[c]: the token that request c is about, and how far
    admitted    \* admin.status is ACTIVE

sessionVars == <<token, parent, caller, admitted>>

ASSUME SessionConstants == MaxTokens \in Nat \ {0}

Tokens == 1..MaxTokens
Waiting == [of |-> 0, step |-> "idle"]

SessionTypeOK ==
    /\ token \in [Tokens -> {"NONE", "LIVE", "REVOKED", "EXPIRED"}]
    /\ parent \in [Tokens -> 0..MaxTokens]
    /\ caller \in [Callers -> [of: 0..MaxTokens,
                               step: {"idle", "read", "claimed"}]]
    /\ admitted \in BOOLEAN
    /\ \A i \in Tokens : token[i] # "NONE" => parent[i] < i

SessionInit ==
    /\ token = [i \in Tokens |-> "NONE"]
    /\ parent = [i \in Tokens |-> 0]
    /\ caller = [c \in Callers |-> Waiting]
    /\ admitted = TRUE

Live == {i \in Tokens : token[i] = "LIVE"}
Fresh(i) == token[i] = "NONE" /\ \A j \in Tokens : j < i => token[j] # "NONE"
Moves(c, i, step) == caller' = [caller EXCEPT ![c] = [of |-> i, step |-> step]]

(* updateMany() on the family, wherever it is called.                      *)
Revoked == [i \in Tokens |-> IF token[i] = "LIVE" THEN "REVOKED" ELSE token[i]]

(* login(): a family of its own.                                           *)
Login ==
    /\ admitted /\ \A i \in Tokens : token[i] = "NONE"
    /\ token' = [token EXCEPT ![1] = "LIVE"]
    /\ UNCHANGED <<parent, caller, admitted>>

(* refresh(), up to the look at the administrator.                         *)
Present(c, i) ==
    /\ caller[c] = Waiting
    /\ \/ token[i] = "LIVE" /\ admitted /\ Moves(c, i, "read")
          /\ UNCHANGED token
       \/ token[i] = "REVOKED" /\ token' = Revoked /\ UNCHANGED caller
    /\ UNCHANGED <<parent, admitted>>

(* Mutated: the claim relies on what was read.                             *)
StillUnusedAsRead(i) == TRUE

StillUnused(i) == token[i] = "LIVE"

(* The claim; who loses it revokes the family.                             *)
Claim(c) ==
    /\ caller[c].step = "read"
    /\ \/ /\ StillUnused(caller[c].of)
          /\ token' = [token EXCEPT ![caller[c].of] = "REVOKED"]
          /\ Moves(c, caller[c].of, "claimed")
       \/ /\ ~StillUnused(caller[c].of)
          /\ token' = Revoked
          /\ caller' = [caller EXCEPT ![c] = Waiting]
    /\ UNCHANGED <<parent, admitted>>

(* issuePair().                                                            *)
Issue(c) ==
    /\ caller[c].step = "claimed"
    /\ \E i \in Tokens :
          /\ Fresh(i)
          /\ token' = [token EXCEPT ![i] = "LIVE"]
          /\ parent' = [parent EXCEPT ![i] = caller[c].of]
    /\ caller' = [caller EXCEPT ![c] = Waiting]
    /\ UNCHANGED admitted

(* The request dies; when it had claimed, the session is gone with it.     *)
RequestDies(c) ==
    /\ caller[c] # Waiting
    /\ caller' = [caller EXCEPT ![c] = Waiting]
    /\ UNCHANGED <<token, parent, admitted>>

Logout(i) ==
    /\ token[i] = "LIVE"
    /\ token' = [token EXCEPT ![i] = "REVOKED"]
    /\ UNCHANGED <<parent, caller, admitted>>

Expire(i) ==
    /\ token[i] = "LIVE"
    /\ token' = [token EXCEPT ![i] = "EXPIRED"]
    /\ UNCHANGED <<parent, caller, admitted>>

SuspendAdmin ==
    /\ admitted /\ admitted' = FALSE
    /\ UNCHANGED <<token, parent, caller>>

SessionNext ==
    \/ Login \/ SuspendAdmin
    \/ \E i \in Tokens : Logout(i) \/ Expire(i)
    \/ \E c \in Callers : \/ \E i \in Tokens : Present(c, i)
                          \/ Claim(c) \/ Issue(c) \/ RequestDies(c)

SessionSpec == SessionInit /\ [][SessionNext]_sessionVars

(* A session is one line of tokens (auth.service.ts:43-51): however many   *)
(* requests present the same token at once, at most one of them holds the  *)
(* right to continue, and no two tokens replace the same one.  (A pair     *)
(* that is being issued while the family is revoked comes through, and is  *)
(* then that one.)                                                         *)
SessionIsLinear ==
    /\ Cardinality(Live)
         + Cardinality({c \in Callers : caller[c].step = "claimed"}) <= 1
    /\ \A i, j \in Tokens :
          i # j /\ token[i] # "NONE" /\ token[j] # "NONE"
          => parent[i] # parent[j]
=============================================================================
