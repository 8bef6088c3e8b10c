SPECIFICATION PatientSpec
CONSTANTS
  Sids = {s1, s2}
  Account <- MCAccount
  Uids = {1, 2}
  MaxLogins = 2
  Nil = Nil
SYMMETRY Symmetric
INVARIANTS TypeOK SeatsFreed OneGet
PROPERTY OnlyOwnClose
