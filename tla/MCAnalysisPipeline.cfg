CONSTANTS
  None = None
  Failure = Failure
  Stages = {0, 1, 2, 3, 4, 5}
  Deps <- MCDeps
  Cacheable = {0, 2, 3, 4, 5}
  SkipOnError = {4}
  Tracking = {0, 2}
  Builtin = {1, 2, 3, 4, 5}
  Targets = {{2}, {4}, {3, 5}}
  Edited = {0, 2, 3}
  MaxVersion = 1
SPECIFICATION Spec
INVARIANTS AnswersAreCurrent TrackedRunsOnce OnlyUncachedInputsVanish
PROPERTIES InvalidationIsComplete RunStagesReturns
