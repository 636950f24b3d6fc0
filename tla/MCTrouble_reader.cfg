SPECIFICATION TroubleSpec
CONSTANTS
    oom = oom
    Kinds <- MCOneKind
    Other = other
    Window = 1
    MaxClock = 2
    MaxLog = 2
    Mishaps = {"vacuum", "configure", "lose", "die"}
    StaleAfter = 1
INVARIANTS
    CountsAreTrue
    PlainRowsAreCurrent
    QuietIsQuiet
    NothingTwice
    NothingPassedOver
    ReplyIsTrue
