SPECIFICATION Spec
CONSTANTS
  MaxLines = 2
  OutputLimit = 1
  SignalBuffer = 1
INVARIANTS SavedIsReported NewSaveSurvives NeverAbandoned ProvisionedIsAuthorized
PROPERTY CancelEnds
