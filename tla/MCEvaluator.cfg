SPECIFICATION BothRuns
CONSTANTS
  Programs <- MCPrograms
  Garbage = 99
  CanCopy <- CanDeepCopy
  Copy <- DeepCopy
  CanOverwrite <- CanDeepAssign
  Overwrite <- DeepAssign
INVARIANTS ConstantsKept OptimizedSame AttributesApart
PROPERTIES StacksRestored FinallyRuns
