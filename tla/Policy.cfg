\* Texts of five characters and two words, titles of three bytes, and versions
\* whose components reach two digits at the second release.
CONSTANTS
  MaxText = 5
  MaxTitleLength = 3
  MaxWords = 2
  Base = 2
  MaxMajor = 1
  MaxComponent = 2
SPECIFICATION Spec
INVARIANTS
  TagsAreWords
  TitleIsText
  ThrowsOnlyWhenCut
  NewerIsNoticed
\* The last text has been typed and the last version installed, or the process
\* has ended: the system stops.
CHECK_DEADLOCK FALSE
