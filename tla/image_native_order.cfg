SPECIFICATION Spec
CONSTANTS
  Pixels <- TwoPixels
  Junk <- Zeros
  MaxPixels = 1
PROPERTY DrawShowsNativeArray
