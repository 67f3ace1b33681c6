SPECIFICATION FairSpec
CONSTANTS
  MaxRetry = 3
  MaxFaults = 3
INVARIANTS
  TypeOK
  TrustIsMutual
  CredentialsMatch
PROPERTIES
  KeepsPairing
  PairingRecovers
