SPECIFICATION Spec
CONSTANTS
  Requests = {r1, r2, r3}
  Users = {"u1", "u2"}
  Admins = {"a1"}
  Files = {"f1", "f2", "f3"}
  Names <- MCNames
  Picture = "url"
  None = None
  InitialImage <- MCInitialImage
SYMMETRY Symmetric
INVARIANT TypeOK
INVARIANT ImagesExist
INVARIANT ImagesAreNamed
PROPERTY PeersNeverRemove
CHECK_DEADLOCK FALSE
