SPECIFICATION OrderlySpec
CONSTANTS
  Sids = {s1, s2, s3}
  Account <- MCAccount
  Uids = {1, 2}
  MaxLogins = 2
  Nil = Nil
INVARIANT NoGhosts
PROPERTIES Forgotten LoginAnswered
CHECK_DEADLOCK FALSE
