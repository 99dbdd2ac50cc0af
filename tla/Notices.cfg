\* Six bots in a row, with two configurations, two changes of them and two
\* failures of the database, of Telegram or of a launch; and one notice, an
\* announcement or a purchase alert, to two customers, with two workers and as
\* many mishaps as it takes to drop a page: pages of one on QStash, one job on
\* BullMQ.
CONSTANTS
    Launches = {1, 2, 3, 4, 5, 6}
    Configs = {a, b}
    NoConfig = none
    MaxReconfigs = 2
    MaxOutages = 2
    Customers = {1, 2}
    PageSizes = {1, 2}
    Workers = {v, w}
    Kinds = {"announcement", "purchase"}
    MaxRetries = 1
    MaxStalls = 1
    MaxErrors = 1
    MaxMishaps = 2
SPECIFICATION NoticesSpec
CHECK_DEADLOCK FALSE
INVARIANTS
    OnePoller
    NoticeAtMostOnce
    FinishedReachedAll
PROPERTIES
    BotCatchesUp
    NoticeComesToItsEnd
