SPECIFICATION VSpec
CONSTANTS
  i1 = i1
  i2 = i2
  i3 = i3
  i4 = i4
  Id = {i1, i2, i3, i4}
  Values <- MCValues
  RoomFor <- SizeOf
  ImageOf <- Image
  ReadBack <- Unpersist
  Equal <- Same
  Sizes <- MCSizes
  MinBlock = 3
  BestFitLimit = 1
  Cells = 13
SYMMETRY Symmetry
INVARIANTS
  TypeOK
  BoundaryTags
  FreeListExact
  ValuesIntact
  SizesAgree
  FailsOnlyIfFull
PROPERTIES
  DefragCompacts
  ImplementsHeap
CHECK_DEADLOCK FALSE
