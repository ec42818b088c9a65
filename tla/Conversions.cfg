\* Small pictures, with padded lines, fewer and shorter lines than asked for;
\* two pairs of pixels of extreme bytes, and of bytes that give a G of -1000.
CONSTANTS
  Width = {2, 4, 6}
  Height = {2, 4, 6}
  Stride = {4, 8, 10, 12}
  Lines = {2, 4, 6}
  Size = 4
  Byte = {0, 106, 140, 255}
SPECIFICATION Spec
INVARIANTS
  TypeOK
  PlanesFit
  ReadsInside
  ConvertsI420
  ColoursRight
CHECK_DEADLOCK FALSE
