\* One request at a time, one page in two spellings: no race and no edit is needed.
CONSTANTS
  Pages = {p}
  Spellings = {s, t}
  Taggings = {FALSE}
  Users = {u}
  Owners = {u}
  MaxLinks = 2
  MaxEdits = 0
  Requests = {r1}
  None = None
SPECIFICATION Spec
PROPERTIES
  AnswersAreExact
