SPECIFICATION Spec
CONSTANTS
    Clients = {c1, c2, c3}
    MaxId = 4
    MaxPrice = 3
    Types = {"StopLossLimit"}
    Sides = {"Sell"}
    OcoStops = {"StopLossLimit"}
INVARIANTS
    ExecutedOnce
PROPERTIES
    OtherLegIsOut
SYMMETRY Symmetry
CHECK_DEADLOCK FALSE
