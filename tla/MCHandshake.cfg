SPECIFICATION Spec
CONSTANTS
  Drivers = {"oci", "ojdbc", "odp", "thin", "oracle-rs"}
  Names <- MCNames
  Passwords <- MCPasswords
  Configured <- MCConfigured
  None = None
INVARIANTS
  TypeOK
  RepliesFit
  VerdictIsThePassword
PROPERTIES
  LoginEnds
