SPECIFICATION StoreSpec

CONSTANTS
  none = none
  None = none
  Image <- MCImage
  Parent <- MCParent
  Number <- MCNumber
  MaxFaults = 1
  MaxLosses = 0
  Mixed = TRUE

PROPERTIES
  PointerAfterSync
