SPECIFICATION Spec
CONSTANTS
  Versions = {v1, v2}
  FileSets = {{"ca", "key", "cert"}, {"ca", "cert", "key_2"}}
  MaxAttempts = 2
INVARIANT TypeOK
INVARIANT ConnectsWithCertificates
INVARIANT ModemMatchesImage
PROPERTY ReachesConnect
