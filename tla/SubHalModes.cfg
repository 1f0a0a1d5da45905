SPECIFICATION Spec
CONSTANTS
    NumSubHals = 3
    HandleBase = 4
    Lists <- SmallLists
    DynamicHandles <- SmallDynamicHandles
    OddHandles <- SmallOddHandles
    Refusing = {0, 1, 2}
INVARIANTS
    TypeOK
    ModesAgree
    
    InactiveDuringInitialize
    DynamicSensorsKnown
