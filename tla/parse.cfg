SPECIFICATION Spec
CONSTANTS
  Maps <- MCMaps
  Statuses <- MCStatuses
  Blobs <- MCBlobs
  Keys <- MCKeys
  Lengths <- MCLengths
INVARIANTS
  TypeOK
  FieldsAreReplys
  StatusSurvives
  NoPanic
  LayoutFollowed
  WellFormedAccepted
  ValidKeyVerifies
  EverySaltAnswered
CHECK_DEADLOCK FALSE
