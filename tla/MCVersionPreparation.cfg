SPECIFICATION Spec
CONSTANTS
  Developers = {ann, bob}
  Versions <- FourVersions
  Foreign <- TaggedElsewhere
  First <- Start
  MaxCommits = 6
CONSTRAINT Overlap
INVARIANTS EditsKept Resumable
PROPERTIES BaseNeverDown
SYMMETRY Symmetry
CHECK_DEADLOCK FALSE
