SPECIFICATION Spec
CONSTANTS
    InterfaceMAC = "interface"
    Servers = {1}
    Positions <- MCPositions
    StoredMACs <- MCStoredMACs
INVARIANTS
    TypeOK
    AckedSurvives
    IdentityStable
    FileMatchesMemory
