SPECIFICATION FairSpec
CONSTANTS
    Errors = {"closed", "timeout", "auth", "status", "connect", "conn"}
    Commits = {TRUE, FALSE}
    Downs = TRUE
    PollInterval = 300
    MaxAuth = 2
INVARIANTS ToldOrPolls AsksWho RetriesForever
PROPERTIES OnlyCommitBlocks
CHECK_DEADLOCK FALSE
