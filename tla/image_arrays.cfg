SPECIFICATION Spec
CONSTANTS
  Pixels <- TwoPixels
  Junk <- Zeros
  MaxPixels = 2
INVARIANT TypeOK
PROPERTY DrawShowsArray
