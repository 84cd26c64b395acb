SPECIFICATION Spec
CONSTANTS
  None = None
  cpu = cpu
  memory = memory
  Resources <- CpuAndMemory
  Inputs <- Observations
  Configs <- DefaultAndLoose
  Others <- Neighbours
INVARIANTS SignalHasTimeline CardHasWindow TierFitsJump PeerOrAdhoc BusyIsMarked
\* An analysis ends with its card or without one.
CHECK_DEADLOCK FALSE
