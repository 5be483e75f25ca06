CONSTANTS
  Workers = {1, 2}
  JobCount = 5
  Poisoned = {2}
  None = None
SPECIFICATION Spec
INVARIANTS TypeOK Accounted QueueIsServed InFlightIsTimed AnswersMatch QueueIsTail ClosedIsSettled
PROPERTIES SettledForGood JobsSettle ImplementsService
CHECK_DEADLOCK FALSE
