SPECIFICATION FairSpec
CONSTANTS
  r1 = r1
  r2 = r2
  Requests = {r1, r2}
  Expected <- FromOne
  Target <- ToTwo
  Commits <- ThreeCommits
  Ancestor <- Linear
  Start = 1
  Admitted = 2
  Pollers = {p1, p2}
  NoCommit = NoCommit
  Budgets <- Several
INVARIANTS TypeOK OneTransaction ChainIsBacked
PROPERTY SettledByEvidence
