CONSTANTS
    Req = {r1}
    m1 = m1
    m2 = m2
    p1 = p1
    MarbleType = {m1, m2}
    UnknownType = nope
    Package = {p1}
    MarblePackage <- MCMarblePackage
    MaxActivations <- MCMaxActivations
    MainSV <- MCMainSV
    MaxSV = 1
    Infrastructure = {azure}
    Platform = {azure, other}
    ZeroInfra = zero
    SimulationMode = FALSE
    NotSet = NotSet
    NoUpdate = NoUpdate
    NoHolder = NoHolder
    MaxCrashes = 1

SPECIFICATION Spec

INVARIANT StatusCodesPerSpec
CHECK_DEADLOCK FALSE
