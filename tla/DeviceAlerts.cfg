\* One device that is heard twice and may be switched off and on.
\* No symmetry: one property is temporal.
SPECIFICATION Spec
CONSTANTS
  Device = {d1}
  Slots = {}
  MaxIncidents = 3
  MaxBeats = 2
  MaxSpells = 1
INVARIANTS
  OneNoticePerOutage
PROPERTIES
  OutageIsNoticed
  ImplementsOutages
\* A device may be quiet and silent for good.
CHECK_DEADLOCK FALSE
