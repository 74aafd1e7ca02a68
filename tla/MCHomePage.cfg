\* Two fetches of the grid and two searches in flight that settle in any order.
CONSTANTS
  s1 = s1 s2 = s2 None = None Pending = Pending Failed = Failed
  any = any tallinn = tallinn house = house park = park rude = rude
  Texts = {any, tallinn}
  Choices = {any, house}
  NoText = any NoChoice = any
  Slots = {s1, s2}
  SearchQueries = {park, rude}
  Profane = {rude}
  SearchSlots = {s1, s2}
SPECIFICATION FairHomeSpec
INVARIANTS HomeTypeOK ResultsMatchLabel
PROPERTIES ImplementsLatest FiltersWin SearchEnds
