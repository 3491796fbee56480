SPECIFICATION Spec
CONSTANTS
  MaxRules = 4
  Scenes <- MCScenes
  Files <- MCFiles
  Args <- MCArgs
  Refused <- MCRefused
  Unhonoured <- MCUnhonoured
  MaxEdits <- MCMaxEdits
  MaxCalls <- MCMaxCalls
  MaxNow = 1
INVARIANTS EffectsFollowTheFile HitsAreEffects 
CHECK_DEADLOCK FALSE
