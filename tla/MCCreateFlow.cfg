\* Two forms, two drafts, two publications in flight; fairness of the API and the
\* browser. All drafts made, published or given up, the user may be away for good.
CONSTANTS
  flat = flat cottage = cottage s1 = s1 s2 = s2 None = None Blank = Blank
  Forms = {flat, cottage}
  MaxDrafts = 2
  MaxCopies = 2
  Slots = {s1, s2}
SPECIFICATION FairSpec
INVARIANTS TypeOK DraftOfOneForm PostedAsShown PublishedOnce
PROPERTY PendingEnds
\* What the columns overflow at is scaled down.
CONSTANTS PriceLimit = 100000 AreaLimit = 10000
