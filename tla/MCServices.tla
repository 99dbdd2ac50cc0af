------------------------------ MODULE MCServices ------------------------------
(***************************************************************************)
(* The services around the sale that never write what another one decides  *)
(* by: the talk of the bot, the catalogue, the support desk and its list,  *)
(* the bank accounts, the bot's token, the administrators' sessions and    *)
(* the screens of their pages, the rate of notices, the migrations, the    *)
(* reports over orders, the chat about payment codes, the lines of stock   *)
(* and the report over the history of the bank.                            *)
(* Each keeps documents of its own, so no step of one enables or hinders a *)
(* step of another: part picks the one that moves in a behaviour.          *)
(***************************************************************************)
EXTENDS ShopBot, Catalog, Support, ReportCache, BankConfig, BotToken,
        RateGate, Migration, AdminPage, AdminLists, MessageCenter,
        Insights, QrChat, Pattern, Reconciliation, TLC

(* Patterns with separators and labels of signs that values may hold, and  *)
(* four that no product can have.                                          *)
MailThenPass == <<"mail", "-", "-", "pass">>
SomeForms == {MailThenPass, <<"x", "mail", "-", "pass">>,
              <<"pass", "x", "mail", "x">>, <<"mail", " ", "-", "pass">>,
              <<"mail", "pass">>, <<"x", "-">>, <<"mail", "-", "mail">>,
              <<"pass">>}

VARIABLE part

Parts == {"bot", "catalog", "support", "list", "banks", "token", "session",
          "gate", "migration", "page", "screens", "center", "reports",
          "chat", "pattern", "accounts"}

serviceVars == <<part, botVars, catalogVars, supportVars, cacheVars, bankVars,
                tokenVars, sessionVars, gateVars, migrationVars, pageVars,
                listVars, centerVars, reportVars, chatVars, patternVars,
                reconVars>>

(* A part that does not move begins in one state.                          *)
ServicesInit ==
    /\ part \in Parts
    /\ BotInit /\ CatalogInit /\ SupportInit /\ CacheInit
    /\ BankInit /\ TokenInit /\ SessionInit /\ GateInit
    /\ MigrationInit /\ PageInit /\ ListInit /\ CenterInit
    /\ ReportInit /\ ChatInit /\ PatternInit /\ ReconInit
    /\ part # "banks" => inUse = NoBank
    /\ part # "token" => tokenInUse = CHOOSE b \in Bots : TRUE
    /\ part # "screens" => open = "orders" /\ length = 1
    /\ part # "center" => customer = 0
    /\ part # "pattern" => pattern = MailThenPass /\ concealed = {}

BotMoves ==
    /\ part = "bot" /\ BotNext
    /\ UNCHANGED <<part, catalogVars, supportVars, cacheVars, bankVars,
                   tokenVars, sessionVars, gateVars, migrationVars, pageVars,
                   listVars, centerVars, reportVars, chatVars, patternVars,
                   reconVars>>

CatalogMoves ==
    /\ part = "catalog" /\ CatalogNext
    /\ UNCHANGED <<part, botVars, supportVars, cacheVars, bankVars,
                   tokenVars, sessionVars, gateVars, migrationVars, pageVars,
                   listVars, centerVars, reportVars, chatVars, patternVars,
                   reconVars>>

SupportMoves ==
    /\ part = "support" /\ SupportNext
    /\ UNCHANGED <<part, botVars, catalogVars, cacheVars, bankVars,
                   tokenVars, sessionVars, gateVars, migrationVars, pageVars,
                   listVars, centerVars, reportVars, chatVars, patternVars,
                   reconVars>>

ListMoves ==
    /\ part = "list" /\ CacheNext
    /\ UNCHANGED <<part, botVars, catalogVars, supportVars, bankVars,
                   tokenVars, sessionVars, gateVars, migrationVars, pageVars,
                   listVars, centerVars, reportVars, chatVars, patternVars,
                   reconVars>>

BanksMove ==
    /\ part = "banks" /\ BankNext
    /\ UNCHANGED <<part, botVars, catalogVars, supportVars, cacheVars,
                   tokenVars, sessionVars, gateVars, migrationVars, pageVars,
                   listVars, centerVars, reportVars, chatVars, patternVars,
                   reconVars>>

TokenMoves ==
    /\ part = "token" /\ TokenNext
    /\ UNCHANGED <<part, botVars, catalogVars, supportVars, cacheVars,
                   bankVars, sessionVars, gateVars, migrationVars, pageVars,
                   listVars, centerVars, reportVars, chatVars, patternVars,
                   reconVars>>

SessionMoves ==
    /\ part = "session" /\ SessionNext
    /\ UNCHANGED <<part, botVars, catalogVars, supportVars, cacheVars,
                   bankVars, tokenVars, gateVars, migrationVars, pageVars,
                   listVars, centerVars, reportVars, chatVars, patternVars,
                   reconVars>>

GateMoves ==
    /\ part = "gate" /\ GateNext
    /\ UNCHANGED <<part, botVars, catalogVars, supportVars, cacheVars,
                   bankVars, tokenVars, sessionVars, migrationVars, pageVars,
                   listVars, centerVars, reportVars, chatVars, patternVars,
                   reconVars>>

MigrationMoves ==
    /\ part = "migration" /\ MigrationNext
    /\ UNCHANGED <<part, botVars, catalogVars, supportVars, cacheVars,
                   bankVars, tokenVars, sessionVars, gateVars, pageVars,
                   listVars, centerVars, reportVars, chatVars, patternVars,
                   reconVars>>

PageMoves ==
    /\ part = "page" /\ PageNext
    /\ UNCHANGED <<part, botVars, catalogVars, supportVars, cacheVars,
                   bankVars, tokenVars, gateVars, migrationVars, listVars,
                   centerVars, reportVars, chatVars, patternVars,
                   reconVars>>

ScreensMove ==
    /\ part = "screens" /\ ListNext
    /\ UNCHANGED <<part, botVars, catalogVars, supportVars, cacheVars,
                   bankVars, tokenVars, sessionVars, gateVars, migrationVars,
                   pageVars, centerVars, reportVars, chatVars, patternVars,
                   reconVars>>

CenterMoves ==
    /\ part = "center" /\ CenterNext
    /\ UNCHANGED <<part, botVars, catalogVars, supportVars, cacheVars,
                   bankVars, tokenVars, sessionVars, gateVars, migrationVars,
                   pageVars, listVars, reportVars, chatVars, patternVars,
                   reconVars>>

ReportsMove ==
    /\ part = "reports" /\ ReportNext
    /\ UNCHANGED <<part, botVars, catalogVars, supportVars, cacheVars,
                   bankVars, tokenVars, sessionVars, gateVars, migrationVars,
                   pageVars, listVars, centerVars, chatVars, patternVars,
                   reconVars>>

ChatMoves ==
    /\ part = "chat" /\ ChatNext
    /\ UNCHANGED <<part, botVars, catalogVars, supportVars, cacheVars,
                   bankVars, tokenVars, sessionVars, gateVars, migrationVars,
                   pageVars, listVars, centerVars, reportVars, patternVars,
                   reconVars>>

PatternMoves ==
    /\ part = "pattern" /\ PatternNext
    /\ UNCHANGED <<part, botVars, catalogVars, supportVars, cacheVars,
                   bankVars, tokenVars, sessionVars, gateVars, migrationVars,
                   pageVars, listVars, centerVars, reportVars, chatVars,
                   reconVars>>

AccountsMove ==
    /\ part = "accounts" /\ ReconNext
    /\ UNCHANGED <<part, botVars, catalogVars, supportVars, cacheVars,
                   bankVars, tokenVars, sessionVars, gateVars, migrationVars,
                   pageVars, listVars, centerVars, reportVars, chatVars,
                   patternVars>>

ServicesNext == \/ BotMoves \/ CatalogMoves \/ SupportMoves \/ ListMoves
                \/ BanksMove \/ TokenMoves \/ SessionMoves \/ GateMoves
                \/ MigrationMoves \/ PageMoves \/ ScreensMove \/ CenterMoves
                \/ ReportsMove \/ ChatMoves \/ PatternMoves
                \/ AccountsMove

ServicesSpec == ServicesInit /\ [][ServicesNext]_serviceVars

(* Every document of these services is one that their schemas describe.    *)
(* What does not move stays as it began.  The gate and the accounts have   *)
(* no type here; GateTypeOK and ReconTyped of ServiceProofs are theirs.    *)
ServicesTypeOK ==
    CASE part = "bot" -> BotTypeOK
      [] part = "catalog" -> CatalogTypeOK
      [] part = "support" -> SupportTypeOK
      [] part = "banks" -> BankTypeOK
      [] part = "session" -> SessionTypeOK
      [] part = "migration" -> MigrationTypeOK
      [] part = "page" -> PageTypeOK
      [] part = "screens" -> ListTypeOK
      [] part = "center" -> CenterTypeOK
      [] part = "reports" -> ReportTypeOK
      [] part = "chat" -> ChatTypeOK
      [] part = "list" -> CacheTypeOK
      [] part = "token" -> TokenTypeOK
      [] part = "pattern" -> PatternTypeOK
      [] part \in {"gate", "accounts"} -> TRUE

(* The bot can be taken at its word, and by it once: of updates that come  *)
(* twice or at the same time one makes the order or takes the answer, and  *)
(* what it told about a payment code is so and stays so                    *)
(* (shop.bot.ts:432-585, 587-709).                                         *)
TalkIsHonest ==
    /\ part = "bot" => SaidOnceDoneOnce
    /\ part = "chat" => ToldIsTrue

(* What was pasted is what is in stock and what is sent: the report of an  *)
(* import claims no more than was written, whatever other imports, sales   *)
(* and edits did meanwhile, and a line keeps its values through the        *)
(* pattern that splits it and the one that writes it                       *)
(* (inventory-import.service.ts:78-151, shared/index.ts:144-244).          *)
StockIsAsPasted ==
    /\ part = "catalog" => ImportIsHonest
    /\ part = "pattern" => SentAsPasted

(* What an administrator's screen shows is what was asked for last, in its *)
(* own session and of the customer it names, in whatever order the answers *)
(* of the API come; and nobody's screen misses the message that he was     *)
(* told is sent, whatever the cache in the API kept (page.tsx:138-172,     *)
(* operations-dashboard.tsx:138-215, message-center.tsx:43-176,            *)
(* messaging.service.ts:191).                                              *)
ScreensAreTrue ==
    /\ part = "page" => PageKeepsItsSession
    /\ part = "screens" => ListsShowWhatIsAsked
    /\ part = "center" => ThreadIsOfCustomer
    /\ part = "list" => ListShowsOwnWrites

(* However an administrator cuts the time, the reports tell one story: the *)
(* days of a range add up to its total, and its best customers and         *)
(* products to all of it, unless the limit of rows leaves some out, nobody *)
(* who bought more than those shown among them; ranges that follow each    *)
(* other leave nothing out and count nothing twice, both ways to compute   *)
(* repeated purchases agree, and the dashboard's revenue and that of today *)
(* are the insights' (insights.service.ts:15-31, 198-254,                  *)
(* product-repeat-purchases.service.ts:48-104, analytics.service.ts:123).  *)
ReportsAgree == part = "reports" => EveryRangeAgrees

(* A product of at most two fields, with or without the optional one.      *)
ShortAndLong == {<<1>>, <<1, 1>>}

(* A group may be written to more seldom than a customer.                  *)
SlowGroup == [c \in Chats |-> IF c = "group" THEN Longest ELSE Window]

(* Two customers, each with a product; the price of an order is its own.   *)
AnnAndBob == {<<1, 1>>, <<2, 2>>}
AnnsProduct == <<1, 1>>
OwnPrice == [o \in AllSales |-> o + 1]
FirstCheaper == [o \in AllSales |-> IF o = 1 THEN 1 ELSE 0]
OneView == {[by |-> 1, type |-> "PRODUCT_VIEW"]}

AboutTheFirst == [m \in Answers |-> 1]

(* Transfers that name nothing, one request, or two.                       *)
NoneOneTwo == {{}, {1}, {1, 2}}
=============================================================================
