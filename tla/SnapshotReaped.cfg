\* A process that saves beside one that loads.
CONSTANTS
  s1 = s1
  s2 = s2
  p1 = p1
  p2 = p2
  g1 = g1
  g2 = g2
  i1 = i1
  i2 = i2
  i3 = i3
  i4 = i4
  Threads = {s1, s2}
  CanSave = {s1}
  CanLoad = {s2}
  Pid <- OwnPid
  Gens = {g1, g2}
  BodyLen <- OneAndTwo
  Inodes = {i1, i2, i3}
  Final = final
  None = none
  PowerLoss = FALSE
SYMMETRY Alike
SPECIFICATION Spec
INVARIANTS
  FinalWhole
