CONSTANTS
  Fields <- MCFields
  CharMaxLen <- MCCharMaxLen
  Requests <- MCRequests
SPECIFICATION Spec
INVARIANTS
  TypeOK
  StatementFitsBuffer
  ResultOrderedByDataType
  DescribedAsDeclared
