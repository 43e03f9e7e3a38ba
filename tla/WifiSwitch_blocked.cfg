SPECIFICATION Spec
CONSTANTS
  t1 = t1
  t2 = t2
  home = home
  guest = guest
  Tasks <- TwoTasks
  Sections <- TwoSections
  Nothing = nothing
  Nobody = nobody
SYMMETRY Symmetry
INVARIANT BlockedCommitFallsBack
