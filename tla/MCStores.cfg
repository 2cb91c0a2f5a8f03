\* Requests and cycles over two stores, restores, one mailbox, records and readiness.
SPECIFICATION StoresSpec
CONSTANTS
    Call = {1, 2, 3}
    Key = {key1}
    Body = {1, 2}
    NoReceipt = NoReceipt
    ReceiptTtl = 2
    RetryHorizon = 1
    Flight = 1
    MaxAge = 3
    Cycle = {cron, admin}
    MonthOf <- MCMonthOf
    MaxRows = 2
    MaxSeq = 5
    Op = {1, 2}
    Content = {1, 2}
    Drain = {alarm}
    NoOp = NoOp
    NoRevision = NoRevision
    MaxRevision = 2
    MaxLineageFence = 2
    Task = {t1}
    Client = {k1, k2}
    NoArchive = NoArchive
    MaxRestored = 3
    r1 = r1
    Run = {r1, r2}
    NoRun = NoRun
    MaxDelivery = 2
    MaxEpoch = 3
    MaxRewakes = 1
    Author = {1, 2}
    Field = {1, 2}
    Datum = {0, 1}
    NoRecord = NoRecord
    NoValue = NoValue
    MaxVersion = 3
    MaxClaims = 1
    Unit = {1, 2, 3}
    Kind = {"missing", "vacant", "working", "done", "open"}
CHECK_DEADLOCK FALSE
INVARIANTS
    WritesCommitOnce
    AnswersMatchRequests
    NoEventIsLost
    WatermarkSplitsHistory
    AvailableRevisionsHaveContent
    RetiredStaysRetired
    RevisionsAreRecoverable
    TheMailboxHasOneConsumer
    WakesAreNotRepeated
    OldGrantsStayDead
    TablesAgree
    WalksAgree
PROPERTIES
    ResumedImportsAreWhole
    ReportsQuietNothingNewer
    NoUpdateIsLost
