------------------------------- MODULE BotToken -------------------------------
(***************************************************************************)
(* The token of the Telegram bot (setting telegram.bot_token) and the      *)
(* webhooks that Telegram keeps for the bots, in the serverless runtime.   *)
(* A change of the token deletes the old hook, writes the setting and sets *)
(* the new hook; Telegram is no part of a transaction, and what was done   *)
(* is undone step by step when a step fails.  A call to Telegram that is   *)
(* given up after ten seconds is not taken back: it may have taken effect, *)
(* or take effect at any time later.  A write may take effect and be       *)
(* reported as failed, and the process may die between two steps.          *)
(*                                                                         *)
(* A change makes at most four calls of ten seconds and its lease lasts 75 *)
(* seconds: no change that goes on outlives its lease.                     *)
(***************************************************************************)
EXTENDS Integers, FiniteSets

CONSTANTS
    Bots,          \* bots of the shop, by their tokens
    Changes,       \* changes of the token, each once
    Settings,      \* changes of the operational settings, each once
    Nobody,        \* no change, no bot
    MaxFailures    \* bound: calls and writes that fail, processes that die

VARIABLES
    tokenInUse,    \* the stored token
    writer,        \* the change that stored it (its encrypted value)
    hooked,        \* the bots that have a webhook at the shop's address
    belated,       \* calls that were given up and may still take effect
    tokenLease,    \* the change that holds the lease
    change,        \* change[u]: how far, its token, what it read
    setting,       \* setting[s]: how far, and the token it read
    failures,      \* failures so far
    harm           \* ghost: what went wrong since a change last succeeded

tokenVars == <<tokenInUse, writer, hooked, belated, tokenLease, change,
               setting, failures, harm>>

ASSUME TokenConstants ==
    MaxFailures \in Nat /\ Nobody \notin Bots \cup Changes

NoChange == [step |-> "idle", to |-> Nobody, from |-> Nobody,
             fromWriter |-> Nobody]

TokenInit ==
    /\ tokenInUse \in Bots /\ writer = Nobody /\ hooked = {tokenInUse}
    /\ belated = {} /\ tokenLease = Nobody /\ failures = 0 /\ harm = "none"
    /\ change = [u \in Changes |-> NoChange]
    /\ setting = [s \in Settings |-> [step |-> "idle", of |-> Nobody]]

Proceeds(u, step) == change' = [change EXCEPT ![u].step = step]

-----------------------------------------------------------------------------
(* Failures.                                                               *)

AllIsWell == UNCHANGED <<failures, harm>>

Fails(then) == /\ failures < MaxFailures /\ failures' = failures + 1
               /\ harm' = then

(* One failure is what a change can make good; a second one is more.       *)
OneMore == IF harm = "none" THEN "one" ELSE "more"

(* The hooks after a call of setWebhook or deleteWebhook.                  *)
HooksAfter(call) == IF call[1] = "set" THEN hooked \cup {call[2]}
                                       ELSE hooked \ {call[2]}

Succeeds(call) == hooked' = HooksAfter(call) /\ UNCHANGED belated /\ AllIsWell

(* withTimeout(): the call is refused, or given up and not taken back.     *)
GivesUp(call) == /\ Fails(OneMore) /\ UNCHANGED hooked
                 /\ belated' \in {belated, belated \cup {call}}

(* A call that was given up takes effect after all.                        *)
Lands(call) ==
    /\ call \in belated /\ belated' = belated \ {call}
    /\ hooked' = HooksAfter(call)
    /\ harm' = IF call = <<"delete", tokenInUse>> THEN "more" ELSE harm
    /\ UNCHANGED <<tokenInUse, writer, tokenLease, change, setting, failures>>

-----------------------------------------------------------------------------
(* A change of the token.                                                  *)

(* withTokenUpdateLock(); then the new token is verified and the old read. *)
BeginChange(u) ==
    /\ change[u].step = "idle" /\ tokenLease = Nobody
    /\ tokenLease' = u
    /\ \E b \in Bots :
          change' = [change EXCEPT ![u] = [step |-> "read", to |-> b,
                        from |-> tokenInUse, fromWriter |-> writer]]
    /\ UNCHANGED <<tokenInUse, writer, hooked, belated, setting>> /\ AllIsWell

OldHookGoes(u) == change[u].to # change[u].from

(* The call to Telegram that a change makes at its step.                   *)
Outgoing(u) ==
    CASE change[u].step = "read" /\ OldHookGoes(u)
            -> {<<"delete", change[u].from>>}
      [] change[u].step = "written" -> {<<"set", change[u].to>>}
      [] change[u].step = "rehook" /\ OldHookGoes(u)
            -> {<<"set", change[u].from>>}
      [] OTHER -> {}

(* "It must be disabled before the database starts treating updates as     *)
(* belonging to the new token": the change ends when this fails, although  *)
(* the hook may be gone, or go later (outside the try).                    *)
DeleteOldHook(u) ==
    /\ change[u].step = "read"
    /\ \/ /\ ~OldHookGoes(u) /\ Proceeds(u, "unhooked")
          /\ UNCHANGED <<hooked, belated>> /\ AllIsWell
       \/ \E c \in Outgoing(u) : Succeeds(c) /\ Proceeds(u, "unhooked")
       \/ \E c \in Outgoing(u) : GivesUp(c) /\ Proceeds(u, "end")
    /\ UNCHANGED <<tokenInUse, writer, tokenLease, setting>>

Store(u) == tokenInUse' = change[u].to /\ writer' = u

(* The setting is written; or the database fails and it is not; or it is,  *)
(* and the answer is lost: wroteNewSetting stays false.                    *)
WriteToken(u) ==
    /\ change[u].step = "unhooked"
    /\ \/ Store(u) /\ Proceeds(u, "written") /\ AllIsWell
       \/ /\ UNCHANGED <<tokenInUse, writer>> /\ Proceeds(u, "rehook")
          /\ Fails(OneMore)
       \/ Store(u) /\ Proceeds(u, "rehook") /\ Fails("more")
    /\ UNCHANGED <<hooked, belated, tokenLease, setting>>

(* The change has succeeded; or its compensation begins.                   *)
SetNewHook(u) ==
    /\ change[u].step = "written"
    /\ \E c \in Outgoing(u) :
          \/ /\ hooked' = HooksAfter(c) /\ harm' = "none"
             /\ Proceeds(u, "end") /\ UNCHANGED <<belated, failures>>
          \/ GivesUp(c) /\ Proceeds(u, "restore")
    /\ UNCHANGED <<tokenInUse, writer, tokenLease, setting>>

PutBack(u) ==
    IF writer = u
    THEN tokenInUse' = change[u].from /\ writer' = change[u].fromWriter
    ELSE UNCHANGED <<tokenInUse, writer>>

(* restorePreviousTokenSetting(): only its own value is taken back; when   *)
(* the database fails nothing more is done (.catch(() => false)).          *)
RestoreToken(u) ==
    /\ change[u].step = "restore"
    /\ \/ /\ PutBack(u) /\ AllIsWell
          /\ Proceeds(u, IF writer = u THEN "rehook" ELSE "undone")
       \/ /\ PutBack(u) \/ UNCHANGED <<tokenInUse, writer>>
          /\ Fails("more") /\ Proceeds(u, "undone")
    /\ UNCHANGED <<hooked, belated, tokenLease, setting>>

(* Mutated: the setting is restored, the hook is forgotten.                *)
HooksRestoredNone(u) == {}

HooksRestored(u) == Outgoing(u)

(* The previous hook is set again; nobody looks whether that succeeds.     *)
RestoreHook(u) ==
    /\ change[u].step = "rehook" /\ Proceeds(u, "undone")
    /\ \/ HooksRestored(u) = {} /\ UNCHANGED <<hooked, belated>> /\ AllIsWell
       \/ \E c \in HooksRestored(u) : Succeeds(c) \/ GivesUp(c)
    /\ UNCHANGED <<tokenInUse, writer, tokenLease, setting>>

(* The lease is given back, if the database does not fail.                 *)
EndChange(u) ==
    /\ change[u].step \in {"end", "undone"} /\ Proceeds(u, "over")
    /\ tokenLease' \in {Nobody, tokenLease}
    /\ UNCHANGED <<tokenInUse, writer, hooked, belated, setting>> /\ AllIsWell

(* The process dies, with its call to Telegram perhaps on the way.         *)
ChangeDies(u) ==
    /\ change[u].step \notin {"idle", "over"} /\ Proceeds(u, "over")
    /\ Fails(IF change[u].step \in {"unhooked", "written", "restore", "rehook"}
             THEN "more" ELSE harm)
    /\ belated' \in {belated, belated \cup Outgoing(u)}
    /\ UNCHANGED <<tokenInUse, writer, hooked, tokenLease, setting>>

(* expiresAt passes.                                                       *)
TokenLeaseExpires(u) ==
    /\ tokenLease = u /\ change[u].step = "over" /\ tokenLease' = Nobody
    /\ UNCHANGED <<tokenInUse, writer, hooked, belated, change, setting>>
    /\ AllIsWell

-----------------------------------------------------------------------------
(* updateRuntimeConfig() stores its own setting and sets the hook of the   *)
(* token it finds, without the lease.                                      *)
ReadForHook(s) ==
    /\ setting[s].step = "idle"
    /\ setting' = [setting EXCEPT ![s] = [step |-> "read", of |-> tokenInUse]]
    /\ UNCHANGED <<tokenInUse, writer, hooked, belated, tokenLease, change>>
    /\ AllIsWell

(* Its call may fail as well; its own setting is then taken back.          *)
HookForSetting(s) ==
    /\ setting[s].step = "read"
    /\ setting' = [setting EXCEPT ![s].step = "over"]
    /\ \/ Succeeds(<<"set", setting[s].of>>)
       \/ /\ belated' \in {belated, belated \cup {<<"set", setting[s].of>>}}
          /\ UNCHANGED hooked /\ AllIsWell
    /\ UNCHANGED <<tokenInUse, writer, tokenLease, change>>

TokenNext ==
    \/ \E u \in Changes :
          \/ BeginChange(u) \/ DeleteOldHook(u) \/ WriteToken(u)
          \/ SetNewHook(u) \/ RestoreToken(u) \/ RestoreHook(u) \/ EndChange(u)
          \/ ChangeDies(u) \/ TokenLeaseExpires(u)
    \/ \E s \in Settings : ReadForHook(s) \/ HookForSetting(s)
    \/ \E c \in belated : Lands(c)

TokenSpec == TokenInit /\ [][TokenNext]_tokenVars

-----------------------------------------------------------------------------
TokenSteps == {"idle", "read", "unhooked", "written", "restore", "rehook",
               "end", "undone", "over"}

(* Every variable has its type, and whoever is at work holds the lease     *)
(* (bot-config.service.ts:502-521).                                        *)
TokenTypeOK ==
    /\ change \in [Changes -> [step: TokenSteps, to: Bots \cup {Nobody},
                               from: Bots \cup {Nobody},
                               fromWriter: Changes \cup {Nobody}]]
    /\ tokenLease \in Changes \cup {Nobody}
    /\ tokenInUse \in Bots /\ writer \in Changes \cup {Nobody}
    /\ hooked \subseteq Bots /\ belated \subseteq {"set", "delete"} \X Bots
    /\ setting \in [Settings -> [step: {"idle", "read", "over"},
                                 of: Bots \cup {Nobody}]]
    /\ failures \in Nat /\ harm \in {"none", "one", "more"}
    /\ \A u \in Changes :
          change[u].step \notin {"idle", "over"} => tokenLease = u

Settled == \A u \in Changes : change[u].step \in {"idle", "over"}

(* A change undoes what it did when a step fails                           *)
(* (bot-config.service.ts:434-442): whatever sequence of changes, of       *)
(* refused calls and of calls that took effect too late led there, the bot *)
(* that the shop believes in has its webhook whenever no change is under   *)
(* way, unless since the last change that succeeded                        *)
(*   - a second call or write failed,                                      *)
(*   - a write took effect and was reported as failed,                     *)
(*   - a process died between deleting the old hook and the end, or        *)
(*   - a deletion that had been given up hit the bot in use.               *)
(* Each of the four can leave the bot without its hook until the next      *)
(* change of the token.                                                    *)
CurrentBotHasHook == Settled /\ harm # "more" => tokenInUse \in hooked
=============================================================================
