CONSTANTS
    A1 = A1  A2 = A2
    V1 = V1  V2 = V2
    M1 = M1  M2 = M2
    Absent = Absent
    Bad = Bad
    Actor <- MCActor
    Value <- MCValue
    Media <- MCMedia
    MaxFaults = 1
SPECIFICATION Spec
INVARIANTS AddressIsDigest PutIsSound VerdictIsSound
PROPERTIES CompleteStaysComplete LatePutKeepsMetadata
SYMMETRY Interchangeable
