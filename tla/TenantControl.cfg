\* The kill switch under concurrent writers of the tenant's row.
CONSTANTS
  Writers = {w1, w2}
  NoKey = NoKey
SPECIFICATION Spec
INVARIANTS TypeOK
PROPERTIES KillSwitchSticks
