\* One submission of any kind; a day is two units long.
SPECIFICATION ContentSpec
CONSTANTS
  Assets = {"image", "copy", "video"}
  Videos = {"video"}
  FileOf <- MCFileOf
  Categories = {"c1", "c2"}
  Groups = {"g1"}
  Texts = {"x", "y"}
  Day = 2
  MaxPoster = 1
  MaxBanner = 1
  Instants = {0, 1, 2}
  Forms <- MCForms
  MaxVersion = 4
CONSTRAINT MCHidden
ACTION_CONSTRAINT MCCopy
VIEW MCView
INVARIANTS
  ContentIsAllowed
  ResendChangesNothing
PROPERTIES
  ReadsAreWhole
  ChecksumTellsContent
\* A canceled draft and media long gone leave nothing to do.
CHECK_DEADLOCK FALSE
