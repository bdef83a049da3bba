\* Two links and pages of one row, so that rows change between the pages of a run; a
\* run may scan them all.  A page as submitted is listed by its URL, with UTM values
\* only by its host.  One statement of the job fails.
CONSTANTS
  Pages = {p}
  Taggings = {FALSE, TRUE}
  HostLines = {}
  UrlLines = {p}
  NumFeeds = 1
  Refreshers = {f1}
  Risky = {}
  MaxLinks = 2
  Jobs = {j1}
  BatchSize = 1
  MaxPerRun = 2
  MaxFaults = 1
  None = None
SPECIFICATION FairSpec
INVARIANTS
  TypeOK
PROPERTIES
  DisabledForCause
  ExposureEnds
