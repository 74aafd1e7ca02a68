\* Two PATCHes of one listing that name different columns.
CONSTANTS
  a = a b = b s1 = s1 l1 = l1 l2 = l2 price = price features = features
  r1 = r1 r2 = r2 r3 = r3
  NoUser = NoUser NoRef = NoRef Null = Null Undefined = Undefined Absent = Absent
  Users = {a}
  SeedRefs = {s1}
  UserRefs = {l1}
  Fields = {price, features}
  Nullable = {features}
  Values = {0, 1}
  Slots = {r1, r2}
  Payloads <- MCDisjointPayloads
  SeedAttrs <- MCSeedAttrs
  Filters <- MCFilters
SPECIFICATION Spec
PROPERTIES PartialPatchKeepsOthers
