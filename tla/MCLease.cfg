\* Two ids and two owners; leases of the table's time, longer and shorter.
CONSTANTS
  Ids = {i1, i2}
  Owners = {o1, o2}
  Ttl = 2
  Times = {0, 1, 3}
  None = None
SPECIFICATION Spec
PROPERTY KeepsTenancy
