SPECIFICATION Spec
CONSTANTS
    A = A
    B = B
    ab = ab
    ba = ba
    bi = bi
    None = None
    Agents = {A, B}
    Keys = {ab, ba}
    Owner <- MCOwner
    Neighbor <- MCNeighbor
    Outbound = {ab, ba}
    Quantum = {ab}
    HelloInterval = 1
    HoldTimes = {1}
    Manual = {"probe"}
    Steered = {ab, ba}
    Unsteady = {}
    Mortal = {}
    Reports <- MCSent
    Prompt = TRUE
    MaxLate = 1
INVARIANTS
    ClassicalCapped
