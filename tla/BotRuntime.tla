------------------------------ MODULE BotRuntime ------------------------------
(***************************************************************************)
(* The bot of the server runtime (BotRuntimeManager): every few seconds    *)
(* the process compares the configuration in the database with the bot     *)
(* that it runs, and replaces the bot.  A bot is launched without waiting  *)
(* for it, polls after a while, and may fail later; Telegram allows one    *)
(* poller.  How Telegraf launches and stops is modelled from its use here. *)
(***************************************************************************)
EXTENDS Integers, FiniteSets

CONSTANTS
    Launches,      \* bots this process creates, one after the other
    Configs,       \* configurations: token, address and name of the shop
    NoConfig,
    MaxReconfigs,  \* bound: changes of the configuration
    MaxOutages     \* bound: failures of the database or of Telegram

VARIABLES
    configured,    \* the configuration in the database
    current,       \* the bot that messages are sent with, 0 for none
    fingerprint,   \* the configuration it was made of
    bot,           \* bot[n]: new, starting, polling, stopped or failed
    madeOf,        \* madeOf[n]: its configuration
    refreshing,    \* refresh() is under way: its step, what it read, its bot
    running,       \* the timer is set
    reconfigs, outages

runtimeVars == <<configured, current, fingerprint, bot, madeOf, refreshing,
                 running, reconfigs, outages>>

ASSUME RuntimeConstants ==
    /\ Launches \subseteq Nat \ {0} /\ NoConfig \notin Configs
    /\ {MaxReconfigs, MaxOutages} \subseteq Nat

NoRefresh == [step |-> "none", read |-> NoConfig, next |-> 0]

RuntimeInit ==
    /\ configured \in Configs
    /\ current = 0 /\ fingerprint = NoConfig
    /\ bot = [n \in Launches |-> "new"]
    /\ madeOf = [n \in Launches |-> NoConfig]
    /\ refreshing = NoRefresh /\ running = TRUE
    /\ reconfigs = 0 /\ outages = 0

Phase(n) == IF n = 0 THEN "none" ELSE bot[n]

Counters == UNCHANGED <<configured, reconfigs, outages>>
Outage == outages < MaxOutages /\ outages' = outages + 1
BotsStay == UNCHANGED <<current, fingerprint, bot, madeOf, running>>

Reconfigure ==
    /\ reconfigs < MaxReconfigs /\ reconfigs' = reconfigs + 1
    /\ configured' \in Configs \ {configured}
    /\ UNCHANGED <<refreshing, outages>> /\ BotsStay

MayRefresh == refreshing.step = "none"

(* refresh(): nothing to do while the configuration is the one it runs.    *)
Refresh ==
    /\ running /\ MayRefresh
    /\ ~(current # 0 /\ fingerprint = configured)
    /\ \E n \in Launches :
          /\ bot[n] = "new" /\ \A m \in Launches : m < n => bot[m] # "new"
          /\ refreshing' = [step |-> "switch", read |-> configured, next |-> n]
    /\ BotsStay /\ Counters

(* The token is refused (getMe()), or the database cannot be read.         *)
RefreshFails ==
    /\ refreshing # NoRefresh /\ Outage
    /\ refreshing' = NoRefresh
    /\ UNCHANGED <<configured, reconfigs>> /\ BotsStay

(* Mutated: the new bot is launched next to the one that runs.             *)
StoppedNone == bot

(* Telegraf stops a bot that polls, ...                                    *)
Stopped == [bot EXCEPT ![current] = "stopped"]

(* The old bot is stopped and the new one launched.                        *)
SwitchBot ==
    /\ refreshing.step = "switch"
    /\ Phase(current) \in {"none", "polling", "stopped", "failed"}
    /\ bot' = LET others == IF current = 0 THEN bot ELSE Stopped
              IN [others EXCEPT ![refreshing.next] = "starting"]
    /\ madeOf' = [madeOf EXCEPT ![refreshing.next] = refreshing.read]
    /\ current' = refreshing.next /\ fingerprint' = refreshing.read
    /\ refreshing' = NoRefresh
    /\ UNCHANGED running /\ Counters

(* ... and refuses to stop one that does not poll yet: the refresh ends.   *)
SwitchRefused ==
    /\ refreshing.step = "switch"
    /\ Phase(current) = "starting"
    /\ refreshing' = NoRefresh
    /\ BotsStay /\ Counters

BeginsToPoll(n) ==
    /\ bot[n] = "starting" /\ bot' = [bot EXCEPT ![n] = "polling"]
    /\ UNCHANGED <<current, fingerprint, madeOf, refreshing, running>>
    /\ Counters

(* Mutated: a bot that failed is still taken for the one that runs.        *)
ForgottenNever(n) == FALSE

(* Only the current bot is forgotten when it fails.                        *)
Forgotten(n) == current = n

(* The launch promise is rejected, at the start or much later.             *)
LaunchFails(n) ==
    /\ bot[n] \in {"starting", "polling"} /\ Outage
    /\ bot' = [bot EXCEPT ![n] = "failed"]
    /\ IF Forgotten(n) THEN current' = 0 /\ fingerprint' = NoConfig
                       ELSE UNCHANGED <<current, fingerprint>>
    /\ UNCHANGED <<configured, madeOf, refreshing, running, reconfigs>>

(* stop(), on a signal; a refresh that is under way goes on.               *)
Shutdown ==
    /\ running /\ running' = FALSE
    /\ bot' = IF Phase(current) = "polling" THEN Stopped ELSE bot
    /\ UNCHANGED <<current, fingerprint, madeOf, refreshing>> /\ Counters

RuntimeNext ==
    \/ Reconfigure \/ Refresh \/ RefreshFails \/ SwitchBot \/ SwitchRefused
    \/ Shutdown
    \/ \E n \in Launches : BeginsToPoll(n) \/ LaunchFails(n)

(* The timer goes on, the calls of a refresh end, a launched bot polls.    *)
RuntimeFairness ==
    /\ WF_runtimeVars(Refresh) /\ WF_runtimeVars(SwitchBot \/ SwitchRefused)
    /\ \A n \in Launches : WF_runtimeVars(BeginsToPoll(n))

RuntimeSpec == RuntimeInit /\ [][RuntimeNext]_runtimeVars /\ RuntimeFairness

(* While the process runs, no two of its bots ask Telegram for updates,    *)
(* however slow a launch and however often the configuration changes, and  *)
(* messages are never sent with a bot that was stopped                     *)
(* (bot-runtime.manager.ts:66-82).                                         *)
OnePoller ==
    running =>
        /\ Cardinality({n \in Launches :
                          bot[n] \in {"starting", "polling"}}) <= 1
        /\ Phase(current) \in {"none", "starting", "polling"}

(* The bot catches up with the configuration, when that and the world      *)
(* leave it in peace ("do not await it or the config refresh loop will     *)
(* stop after the first launch").                                          *)
CatchesUp ==
    []<>(\/ Phase(current) = "polling" /\ fingerprint = configured
         \/ ~running
         \/ \A n \in Launches : bot[n] # "new")
=============================================================================
