SPECIFICATION Spec
CONSTANTS
    Types <- MCTypes
    Capacity <- MCCapacity
    Classes = {1, 2}
    Variations = {"v1"}
    MaxArrivals = 4
    MaxCount = 2
INVARIANTS
    CountersMatchList
    NeverOverCapacity
