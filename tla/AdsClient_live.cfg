SPECIFICATION FairSpec
CONSTANTS
    Errors = {"status"}
    Commits = {}
    Downs = FALSE
    PollInterval = 300
    MaxAuth = 1
PROPERTIES CommandFetched
CHECK_DEADLOCK FALSE
