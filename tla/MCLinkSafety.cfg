SPECIFICATION Spec
CONSTANTS
    A = A
    B = B
    ab = ab
    ba = ba
    bi = bi
    None = None
    Agents = {A, B}
    Keys = {ab, ba, bi}
    Owner <- MCOwner
    Neighbor <- MCNeighbor
    Outbound = {ab, ba}
    Quantum = {ab}
    HelloInterval = 0
    HoldTimes = {0}
    Manual = {"connect", "disconnect", "probe"}
    Steered = {ab}
    Unsteady = {}
    Mortal = {A}
    Reports <- MCUnsent
    Prompt = FALSE
    MaxLate = 1
INVARIANTS
    TypeOK
    ControlUpIsMutual
PROPERTIES
    OpenLinksAreTimed
    ImplementsProtocol
