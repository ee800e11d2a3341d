CONSTANTS
    PageSize = 2
    MaxPosts = 4
    MaxSecond = 5
SPECIFICATION PagesSpec
INVARIANTS
    LoadsEarlierMessages
CHECK_DEADLOCK FALSE
