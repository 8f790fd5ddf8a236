CONSTANTS
    n1 = n1
    j1 = j1
    j2 = j2
    c1 = c1
    r1 = r1
    Notifications <- OneNotification
    Channels <- MailAndPush
    SmtpConfigured = TRUE
    Jobs <- TwoJobs
    Crons <- OneCron
    Readers <- OneReader
    Workers = 2
    Attempts = 2
    MaxFaults = 2
SPECIFICATION FairNSpec
INVARIANT SentWasDelivered
INVARIANT DeliveredOnce
INVARIANT OutcomeRecorded
PROPERTY ScheduledIsSettled
CHECK_DEADLOCK FALSE
