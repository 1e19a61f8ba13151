SPECIFICATION Spec
CONSTANTS
    LowerCase <- SmallLetters
    Self = 5
    Listings <- ShortListings
    Queries <- SomeQueries
    Pids <- SomePids
    Endpoints <- SomeEndpoints
    MaxChanges = 2
INVARIANTS
    TypeOK
    SelectionIsSound
    HandlesClosed
    FormatTrue
CHECK_DEADLOCK FALSE
