\* The table algorithms of crc.py agree with long division for every preset
\* whose initial value is unaffected by reflection.
CONSTANTS
    Models <- MCSoundModels
    Bytes <- MCBytes
    MaxLen = 2
SPECIFICATION Spec
INVARIANTS
    TypeOK
    ChecksumIsLongDivision
