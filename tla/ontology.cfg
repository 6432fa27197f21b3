SPECIFICATION FairOntology
CONSTANTS
  Sweepers = {d1, d2}
  Projects = {x1}
  Phrases = {k1, k2, k3}
  d1 = d1
  d2 = d2
  x1 = x1
  k1 = k1
  k2 = k2
  k3 = k3
  TopKeywords = 2
  MaxPosts = 1
  MaxEdits = 1
  MaxMishaps = 1
INVARIANT OnlyRacesLoseEdits
PROPERTY Suggested
CHECK_DEADLOCK FALSE
