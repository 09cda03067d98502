SPECIFICATION Spec
CONSTANTS
    Evses = {1, 2}
    TypeOf <- MCTypeOf
    Requests <- MCRequests
    Tokens = {"t", "u"}
    None = None
    Visited = {1}
    MaxPlaced = 2
    MaxMoves = 2
    MaxRestarts = 2
    MaxAll = 5
CHECK_DEADLOCK FALSE
INVARIANTS TimersMatch EndedStaysEnded ReservedAgrees ReservationsFit PossibleIsAlwaysRoom
