CONSTANTS
  Parties <- MCParties
  SP = 1
  Shift = 1000
  CutOff <- MCCutOff
  K = 4
  M = 1
  BitDraws <- MCDraws
  Masks <- MCMasks
  Inputs <- ConstantInputs
  P = 13
  Q = 3
  RootC = 8
  L = 4
  Lambda = 2
  NParties = 3
  OrCoef <- MCOr
  AndCoef <- MCAnd
  Eps = 300
  ShareRes = 260
  NewtonSteps = 4
  Cases = {}
SPECIFICATION ComputationSpec
INVARIANTS
  EqualConstIsRight
