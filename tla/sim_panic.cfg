SPECIFICATION Spec
CONSTANTS
    Clients = {c1, c2}
    MaxId = 2
    MaxPrice = 3
    Types = {}
    Sides = {}
    OcoStops = {"StopLossLimit"}
INVARIANT ComputeNeverFails
CHECK_DEADLOCK FALSE
