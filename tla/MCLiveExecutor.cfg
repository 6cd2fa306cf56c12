CONSTANTS
  Task = {"t"}
  Program <- Programs
  Output = {"r.txt"}
  CandidateOf <- Apart
  MaxEpisodes = 3
SPECIFICATION MCFairSpec
INVARIANTS SuccessLeavesItsOutput RootsCoverEffects
PROPERTIES CommitsAreAtomic EpisodeEnds
