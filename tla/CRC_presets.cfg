\* The fast reflected path of crc.py against long division, all presets.
CONSTANTS
    Models <- MCModels
    Bytes <- MCBytes
    MaxLen = 2
SPECIFICATION Spec
INVARIANTS
    ChecksumIsLongDivision
