SPECIFICATION Safety
CONSTANTS
  Contact = {c1}
  Key = {a}
  Masks = 1
  Buttons = 2
PROPERTY
  FailureReleases
