SPECIFICATION Spec
CONSTANTS
  None = None
  r1 = r1
  r2 = r2
  Revisions = {r1, r2}
  Expected = r1
INVARIANTS SuccessIsProvidersPass FailedIsNotPublished
PROPERTIES ReportIsAboutLiveRevision RunEnds
CHECK_DEADLOCK FALSE
