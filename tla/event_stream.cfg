SPECIFICATION MCSpec
CONSTANTS
    None = None
    Subject = {0, 1, 2}
    Fields <- MCFields
    GetKey = "id"
    DisplayNames = {"name"}
    Text <- MCText
    Scan <- MCScan
    Record <- MCRecord
    Lists <- MCLists
    Requests <- MCRequests
    MaxEvents = 4
    Nil = Nil
    References <- MCReferences
    Unreadable = {"devices"}
    KeyHidden = {"labels"}
    Tenants <- MCTenants
    Queries <- MCQueries
    MaxChanges = 1
    Hosts <- MCHosts
INVARIANTS
    ConsumerIsTold
    AnswerOrError
    OnlyReviewedLeaves
    SavedCanBeRead
    RefsAreTrue
    OneReading
    SettingsAreChosen
    StatusIsTrue
PROPERTIES
    NothingInVain
