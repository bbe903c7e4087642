SPECIFICATION Spec
CONSTANTS
  Requests = {r1, r2, r3}
  Users = {"u1", "u2", "u3"}
  Admins = {"admin"}
  Typed = {"a", "b", "c", "A", "C"}
  Emails = {"a", "b", "c"}
  Lower <- MCLower
  Mobiles = {"m1", "m2"}
  Names = {"n1"}
  GoogleIds = {"g1", "g2"}
  Passwords = {"p1", "p2"}
  BadName = "N1"
  None = None
  Absent = Absent
  Calls <- MCCalls
  InitialRow <- MCInitialRow
  InitialSent = {"a", "c", "m1", "m2"}
SYMMETRY Symmetric
INVARIANT TypeOK
INVARIANT KeysAreUnique
PROPERTY ConflictsComeFromOthers
PROPERTY RegisteredAddressesAreProved
PROPERTY PasswordsChangeForAReason
PROPERTY AdministratorWritesAllOrNothing
PROPERTY CredentialsDecide
CHECK_DEADLOCK FALSE
