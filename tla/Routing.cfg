SPECIFICATION Spec
CONSTANTS
  Types = {"max", "flex"}
  Firmwares = {"pre25", "fw25"}
  MaxWire = 1
  MaxReflash = 2
INVARIANTS TypeOK LayoutFollowsWire ReadsWhatAsked
PROPERTIES StaysReadable Settles
