------------------------------ MODULE MCNotices ------------------------------
(***************************************************************************)
(* The two things that must go on by themselves: the loop that keeps the   *)
(* bot running, and the notices to all customers.  Neither reads what the  *)
(* other writes, so part picks the one that moves in a behaviour.          *)
(***************************************************************************)
EXTENDS BotRuntime, Broadcast

VARIABLE part

noticesVars == <<part, runtimeVars, broadcastVars>>

(* A part that does not move begins in one state.  QStash gets pages that  *)
(* are not the last, BullMQ one job with all customers.                    *)
NoticesInit ==
    /\ part \in {"runtime", "broadcast"}
    /\ RuntimeInit /\ BroadcastInit
    /\ serverless => limit < Cardinality(Customers)
    /\ part = "broadcast" => configured = CHOOSE c \in Configs : TRUE
    /\ part = "runtime" => kind = CHOOSE k \in Kinds : TRUE
    /\ part = "runtime" => ~serverless

RuntimeMoves ==
    part = "runtime" /\ RuntimeNext /\ UNCHANGED <<part, broadcastVars>>

BroadcastMoves ==
    part = "broadcast" /\ BroadcastNext /\ UNCHANGED <<part, runtimeVars>>

NoticesNext == RuntimeMoves \/ BroadcastMoves

NoticesSpec ==
    /\ NoticesInit /\ [][NoticesNext]_noticesVars
    /\ \/ part = "runtime" /\ RuntimeFairness
       \/ part = "broadcast" /\ BroadcastFairness

(* CatchesUp, where the bot moves: with the database and Telegram left in  *)
(* peace, the bot that polls is the configured one                         *)
(* (bot-runtime.manager.ts:59-87).                                         *)
BotCatchesUp == part = "runtime" => CatchesUp

(* NoticeEnds, where the notices move: however tasks are repeated, pages   *)
(* are retried and workers die, a notice comes to its end, but for a page  *)
(* that failed more often than its queue tries it (attempts: 5 and         *)
(* maxStalledCount: 1, or retries: 5), for a product that was withdrawn    *)
(* and for a customer suspended while his record is open                   *)
(* (broadcast-queue-retry.ts:7-46, admin-broadcast.processor.ts:69-74,     *)
(* main.ts:46-50).                                                         *)
NoticeComesToItsEnd == part = "broadcast" => NoticeEnds
=============================================================================
