CONSTANTS
    c1 = c1
    c2 = c2
    b1 = b1
    b2 = b2
    m = m
    Absent = Absent
    Torn = Torn
    Capsule <- MCCapsule
    Bundle <- MCBundle
    Byte <- MCByte
    Magic = m
    ImageOf <- MCImageOf
    BundleOf <- MCBundleOf
    PacketSizes = {3, 4}
    Exporters = {e1}
    MaxIndex = 1
    MaxExports = 2
    MaxFaults = 1
SPECIFICATION Spec
INVARIANTS
    TypeOK
    ImportIntegrity
PROPERTIES
    ImplementsAirGap
    CompleteSetAccepted
