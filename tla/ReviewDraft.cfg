SPECIFICATION Spec
CONSTANTS
  key1 = key1
  name1 = name1
  name2 = name2
  item1 = item1
  item2 = item2
  Names = {name1, name2}
  Keys = {key1}
  ItemIds = {item1, item2}
  Items <- MCItems
  Prices = {p1}
  Moved = {later}
  Created = created
  None = None
INVARIANTS
  ManualIdentityIsTyped
  OneIdentityMode
  MovedTimeIsMarked
  UneditedIsAsRead
