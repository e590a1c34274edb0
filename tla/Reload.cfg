SPECIFICATION SettingsFairSpec
CONSTANTS
    Requests = {q1}
    Posts = {p1}
    NoPost = NoPost
    MaxEdition = 3
    MaxSignals = 2
    unset = unset
    ours = ours
    theirs = theirs
    standard = standard
    Names <- MCNames
    Addresses = {"address"}
    PutBack = {"delay", "timeout"}
    Values <- MCValues
    Empty = unset
    Default <- MCDefault
    Files <- MCFiles
    Broken = Broken
    CommandLines <- MCCommandLines
INVARIANT TypeOK
INVARIANT WaitersAreOwed
INVARIANT ServedByCurrent
INVARIANT OnlyCurrentIsLive
INVARIANT AnswerIsHonest
INVARIANT SignalNotLost
INVARIANT SettingsInForce
PROPERTY AppliedInOrder
PROPERTY PostAnswered
PROPERTY RequestServed
PROPERTY SignalRead
PROPERTY ClientsLiveAndDie
