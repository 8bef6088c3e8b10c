SPECIFICATION Spec
CONSTANTS
  Sids = {s1, s2}
  Account <- MCAccount
  Uids = {1, 2}
  MaxLogins = 2
  Nil = Nil
INVARIANT OneActorPerAccount
