SPECIFICATION OtaSpec
CONSTANTS
  MaxStarts = 2
  MaxBytes = 10
  Lens = {0, 5, 6}
  Chunks = {0, 1, 3, 4}
  WordBytes = 2
  SectorWords = 2
  RomSector <- MCRomSector
  RomSectors = 2
  Sectors = 8
INVARIANTS WrittenInOrder BootsWholeImage
PROPERTY UpdateUndisturbed
