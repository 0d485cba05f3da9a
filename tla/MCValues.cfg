SPECIFICATION ValuesSpec
CHECK_DEADLOCK FALSE
CONSTANTS
  IntWidth = 3
  Widths = {2, 3, 4}
  Precisions = {1, 2}
  Unknown = Unknown
  IntBits = 3
  LongBits = 5
  Outlines <- AllOutlines
  MaxPieces = 5
  MaxExponent = 9
  var1 = var1  var2 = var2  param = param
  data1 = data1  data2 = data2  data3 = data3
  obj1 = obj1  obj2 = obj2  fixed = fixed
  Names <- Names_
  Parameters = {param}
  Ids <- Ids_
  Objects <- Objects_
  Hosted = {fixed}
  HostConst = {fixed}
  None = None
SYMMETRY Symmetry
INVARIANTS
  AnswersAsIntegers
  AssignAgrees
  LiteralsAsInCpp
  JsonAsMeant
  RoundTrip
  CutOffNoticed
  ListsAsDefined
  ConstKept
  OneObject
  OwnValue
