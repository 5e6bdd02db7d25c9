SPECIFICATION Spec
CONSTANTS
  NaN = NaN
  Screens <- MCScreens
INVARIANTS TypeOK ExactReturn NearReturn
PROPERTIES NoDrift
