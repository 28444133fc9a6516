SPECIFICATION Spec
CONSTANTS
    Docs = {d1, d2}
    Values <- MixedValues
    Times <- NearTimes
    Start <- MCStart
    MaxTicks = 5
    MaxRegs = 3
    NoSlot = NoSlot
    NoReg = NoReg
    RegLag = 2
    Envs <- AllEnvs
SYMMETRY DocSymmetry
INVARIANTS
    TypeOK
    
    
    FiresBounded
    
CHECK_DEADLOCK FALSE
