CONSTANTS
    DayLength = 24
    Weekdays = 3
    ServerOffset = 1
    RestaurantOffset = 1
    Offsets <- MCOffsets
    Rows <- SpokenRows
    BlockedDates <- Holiday
    Default <- MCDefault
    Texts <- Plain
    Moments <- TwoDays
    Slow = FALSE
    Wanders = FALSE
SPECIFICATION SpokenSpec
PROPERTIES ChosenWasOffered RequestedAsSaid
