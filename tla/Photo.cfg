\* Photos of two lives of the process, each over three frames of three lines.
CONSTANTS
  Height = 3
  MaxFrames = 3
  MaxPhotos = 2
  MaxLives = 2
SPECIFICATION Spec
INVARIANTS
  TypeOK
  PhotoCoherent
PROPERTY KeepsPhotos
CHECK_DEADLOCK FALSE
