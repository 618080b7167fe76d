SPECIFICATION Spec
CONSTANTS
    MaxKey = 5
    Limit = 2
    Capacity = 3
    Budget = 4
    Delays = 1
    Long = {3}
    Album <- MCAlbum
    Captioned = {5}
    Refusals = {"cursor_lost", "gone"}
    Cuts = {}
 
PROPERTIES NewestShown
CHECK_DEADLOCK FALSE
