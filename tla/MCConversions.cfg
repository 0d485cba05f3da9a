SPECIFICATION Spec
CONSTANTS
  Threads = {t1, t2}
  Types = {A, B, C}
  A = A
  B = B
  C = C
  Addable <- MCAddable
  Asked <- MCAsked
  Nobody = Nobody
INVARIANT KnownIsFound
