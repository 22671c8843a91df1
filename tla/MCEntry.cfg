CONSTANTS
  living = living
  bath = bath
  w0 = w0
  w1 = w1
  w2 = w2
  Names <- NamesMC
  Wirings <- WiringsMC
  Offsets = {0, 1}
  Seed = 0
  Adjusted <- AdjustedMC
  Followed = {w0, w1}
  Tabs = {1}
SPECIFICATION Spec
INVARIANTS
    StatesAdopted
    SetpointSurvives
    ParkedOnLeave
