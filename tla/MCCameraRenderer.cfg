SPECIFICATION Spec
CONSTANTS
  Headers = {h1, h2}
  Configs = {c1, small}
  Surfaces = {s1, s2, bottom, away}
  Inlets = {1, 2}
  Hollow = {bottom, away}
  Away = {away}
  Good = {c1}
  None = None
  MaxWindows = 4
INVARIANTS
  PictureIsRequested
  OneWindow
CHECK_DEADLOCK FALSE
