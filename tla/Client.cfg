SPECIFICATION Spec
CONSTANTS
  UserNames = {alice, bob}
  Paired = {alice, bob}
  NoName = NoName
  MaxNotifs = 1
  MaxOnWay = 2
INVARIANTS TypeOK LogoutHolds ViewKnown OwnCodesShown
PROPERTIES ViewEndsClean LossIsNoticed
