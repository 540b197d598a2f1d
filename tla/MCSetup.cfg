SPECIFICATION Spec
CONSTANTS
    codex = codex
    opencode = opencode
    p1 = p1
    p2 = p2
    p3 = p3
    NoProc = NoProc
    Agents <- BothAgents
    FileAgents <- OneFile
    NoAgent = NoAgent
    Procs <- ThreeProcs
    OwnKeys <- AnyKey
    MaxSetups = 3
INVARIANTS SuccessPairs
PROPERTIES PairingSparesCompanions SuccessServesNewToken
SYMMETRY Symmetry
CHECK_DEADLOCK FALSE
