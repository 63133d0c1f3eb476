SPECIFICATION FairSpec
CONSTANTS
  t1 = t1  t2 = t2  t3 = t3
  Takers <- MCTakers
  Grants <- MCGrants
  Window = 1
  MaxGrants = 1
PROPERTY CloseReleasesEveryTaker
