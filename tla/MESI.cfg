\* Three CPUs, two ways and three lines, the first line of memory among them.
SPECIFICATION Spec
CONSTANTS
  TagSpace = 4
  NumSets = 1
  Words <- NoWords
  Values <- NoValues
  NaN = NaN
  NumCaches = 3
  PrivateAssoc = 2
  Lines <- Lines3
INVARIANTS MESITypeOK ExclusiveAlone ValidCopyFound
PROPERTY ImplementsPermissions
