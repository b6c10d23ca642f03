SPECIFICATION StoreSpec
SYMMETRY Alike
CONSTANTS
  store = store
  l1 = l1
  l2 = l2
  new_list = new_list
  a = a
  b = b
  e1 = e1
  e2 = e2
  e3 = e3
  Cells <- MCCells
  Local = new_list
  Headers = store
  Homes = {l1, l2}
  Fields <- MCFields
  Items <- MCItems
  Compare <- MCCompare
  Schedules <- MCSchedules
  MaxCalls = 8
INVARIANTS
  LinksOK
  NothingLost
PROPERTIES
  RefinesLists
  
