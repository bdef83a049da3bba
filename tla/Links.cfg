\* Two requests at once on up to two links of two pages, by a member who owns the org
\* or with an API key, PUBLIC or PRIVATE, with an alias or without one; two edits, so
\* that one follows or overlaps another.  Every destination has UTM values.
CONSTANTS
  Pages = {p, q}
  Spellings = {s}
  Taggings = {TRUE}
  Users = {u}
  Owners = {u}
  MaxLinks = 2
  MaxEdits = 2
  Requests = {r1, r2}
  None = None
SPECIFICATION Spec
SYMMETRY Symmetry
INVARIANTS
  TypeOK
  DuplicatesAreRaces
  EditsTellTheStory
