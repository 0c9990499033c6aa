\* Plaintexts of up to five bytes in records of two, three damages.
CONSTANTS
    MaxLength = 5
    RecordSize = 2
    Overhead = 1
    MaxDamage = 3
SPECIFICATION Spec
INVARIANTS DecryptionIsExact NoncesUnique
