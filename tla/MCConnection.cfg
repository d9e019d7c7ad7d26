SPECIFICATION Spec
CONSTANTS
  Address = {"x", "y"}
  Library <- Libraries
  AddressOf <- Where
  Pairer = {"p1", "p2"}
  None = None
  MaxToken = 2
  MaxEvent = 3
  MaxLine = 2
CHECK_DEADLOCK FALSE
INVARIANTS ConnectionTypeOK ConnectionIsSound
PROPERTIES CredentialOutlivesOlder RevocationIsNoticed
