SPECIFICATION Spec
CONSTANTS
  t1 = t1
  Object = Object
  Number = Number
  int = int
  double = double
  A = A
  B = B
  V = V
  p = p
  None = None
  Threads <- MCThreads
  Bare <- MCBare
  AnyType = Object
  NumberType = Number
  Arithmetic = {int, double}
  Before <- MCBefore
  Converts <- MCConverts
  Guards = {p}
  Pool <- MCPool
  Args <- MCArgs
  MaxFunctions = 3
INVARIANTS RunInOrder NoneMissed OneAritySorted
