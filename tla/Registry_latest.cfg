SPECIFICATION FeedSpec
CONSTANTS
    Releases = {1, 2}
    FeedSlots = {s1}
    Followers = {c1}
    PageSize = 1
    MaxEvents = 4
INVARIANT
    NewestVisibleListed
CHECK_DEADLOCK FALSE
