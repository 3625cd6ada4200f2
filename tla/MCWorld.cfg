SPECIFICATION WorldSpec
CONSTANTS
    MinPort = 2
    PortLimit = 4
    Special <- SomeSpecial
    Jobs <- Commands
    Procs = {0, 1, 2, 3}
    Programs <- SomePrograms
    Ties <- SomeTies
    Runs <- SomeRuns
INVARIANT RanksAgree
INVARIANT RanksCovered
INVARIANT ArgsDelivered
INVARIANT GroupsAgree
INVARIANT SplitRight
INVARIANT NoMixup
PROPERTY JoinsAgree
PROPERTY SplitsEnd
CHECK_DEADLOCK FALSE
