SPECIFICATION LabelSpec
CONSTANTS
  Shapes <- MCShapes
  NBars = 5
  SideMaps <- MCSideMaps
  TpMult = 1
  SlMult = 1
  Vertical = 2
  MinRetPct = 0
  TieBreak = "sl"
  LastPct = 50
  Unit = 6
  MinHorizon = 2
  MaxHorizon = 4
  TThreshold = 2
  LineTs = {0, 1000, 2000}
INVARIANTS WinsAreCertain TakenBetsGain InformationCountedOnce TrendIsStrongest
PROPERTIES SettledNeverChanges
