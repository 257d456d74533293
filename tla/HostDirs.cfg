\* Two handles on a directory of up to three entries, one of which has a name that is
\* not Unicode.
CONSTANTS
  Entries = {e1, e2, odd}
  Nameable = {e1, e2}
  FirstHandle = 3
  LastHandle = 4
SPECIFICATION Spec
SYMMETRY EntrySymmetry
INVARIANTS
  TypeOK
  ListsASnapshot
  EndIsTheEnd
