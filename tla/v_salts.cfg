SPECIFICATION Spec
CONSTANTS
  Maps <- MCMaps
  Statuses <- MCStatuses
  Blobs <- MCBlobs
  Keys <- MCKeys
  Lengths <- MCLengths
INVARIANTS
  OneSecretPerSalt
CHECK_DEADLOCK FALSE
