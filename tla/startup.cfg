SPECIFICATION Spec
CONSTANTS
  None = None
  Settings <- MCSettings
INVARIANTS
  CredentialsAsMeant
  ServesIfSound
