\* One customer of the bot with two updates at a time, two quotes and two
\* questions; one product, two lists of its keys, two imports; one order with
\* two complaints and one answer; two readers and two messages of the list; two
\* bank accounts and two bots with two changes; one session of four tokens;
\* two senders to three chats, two sends in two ticks; two orders on the days
\* after an old one; a payment code with two updates at a time; lines of up to
\* four signs; two transfers to two accounts for two requests.
CONSTANTS
    Handlers = {g, h}
    Questions = {"PURCHASE_QUANTITY", "ORDER_LOOKUP"}
    Codes = {yes}
    NoCode = no
    MaxCarts = 2
    MaxAsked = 2
    Required = {"mail", "user"}
    Optional = {"pass"}
    Rows <- ShortAndLong
    Importers = {i, j}
    MaxItems = 2
    MaxSaves = 2
    Reports = {1, 2}
    Messages = {m}
    Answers = {m}
    About <- AboutTheFirst
    Desks = {1, 2}
    Nothing = no
    MaxStops = 1
    Readers = {1, 2}
    Writers = {1, 2}
    Loads = {1, 2, 3}
    Banks = {1, 2}
    NoBank = 0
    Edits = {11, 12, 13}
    MayOverrun = FALSE
    Bots = {1, 2}
    Changes = {11, 12}
    Settings = {1}
    Nobody = 0
    MaxFailures = 2
    Callers = {1, 2, 3}
    MaxTokens = 3
    Senders = {1, 2}
    Chats = {"ann", "bob", "group"}
    Interval <- SlowGroup
    Window = 2
    Longest = 3
    PerWindow = 2
    Cooldowns = {1}
    MaxTime = 6
    Jobs = {1, 2}
    MaxMishaps = 1
    MaxWrites = 1
    Calls = {1, 2}
    MaxLoads = 1
    Asks = {1, 2}
    MaxChanges = 4
    Never = 0
    Customers = {1, 2}
    MaxActs = 3
    Sales = {1, 2}
    Wishes <- AnnAndBob
    OldWish <- AnnsProduct
    Paid <- OwnPrice
    Off <- FirstCheaper
    Visits <- OneView
    DayLength = 2
    UtcOffset = 1
    TopLimit = 1
    LastTick = 3
    QrCodes = {1}
    Talkers = {1, 2}
    MaxShown = 2
    MaxPresses = 3
    Signs = {"x", "-", " "}
    Space = " "
    Dash = "-"
    FormKeys = {"mail", "pass"}
    Needed = {"mail"}
    Forms <- SomeForms
    MaxLine = 4
    Accounts = {1, 2}
    Legacy = 1
    Unsaid = 0
    Numbers = {1, 2}
    Demands = {1, 2}
    Due = 2
    Arriving = {1, 2}
    Mentions <- NoneOneTwo
    MaySwap = FALSE
    MaxLines = 2
SPECIFICATION ServicesSpec
CHECK_DEADLOCK FALSE
INVARIANTS
    ServicesTypeOK
    TalkIsHonest
    StockIsAsPasted
    OneActiveReport
    MessageOnce
    BankEditsAreKept
    
    SessionIsLinear
    NeverTooFast
    RecordedIsReady
    ScreensAreTrue
    ReportsAgree
    ReportIsHonest
PROPERTIES
    StockMatchesFields
    SoldIsProtected
