SPECIFICATION FairClientSpec
CONSTANTS
    Callers = {timer, closer}
    MaxConnections = 2
INVARIANT NoConnectionLeaks
INVARIANT ConnectedIsWatched
INVARIANT NoReaderLeftBehind
PROPERTY ReplacedOnlyWhenSpurned
PROPERTY EndedIsGivenUp
