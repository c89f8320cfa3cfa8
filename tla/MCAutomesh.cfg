SPECIFICATION MeshSpec
CONSTANTS
  Nodes = {n1, n2}
  LevelMod = 4
  MaxIds = 5
SYMMETRY Symmetry
INVARIANTS NoRing LevelsGrow KeepsTrying
PROPERTY PowerLossKeepsConfig
