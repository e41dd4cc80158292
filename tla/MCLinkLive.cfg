SPECIFICATION FairSpec
CONSTANTS
    A = A
    B = B
    ab = ab
    ba = ba
    bi = bi
    None = None
    Agents = {A, B}
    Keys = {ab, ba}
    Owner <- MCOwner
    Neighbor <- MCNeighbor
    Outbound = {ab, ba}
    Quantum = {ab}
    HelloInterval = 1
    HoldTimes = {1, 3}
    Manual = {"set"}
    Steered = {}
    Unsteady = {A}
    Mortal = {B}
    Reports <- MCSometimesSent
    Prompt = TRUE
    MaxLate = 0
PROPERTIES
    SilenceIsNoticed
    LinksComeUp
    ReportsCatchUp
