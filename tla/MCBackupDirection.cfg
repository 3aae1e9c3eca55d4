\* One backup, undisturbed.
SPECIFICATION Spec
CONSTANTS
  Iters = {i1}
  PageCount = 2
  Versions = {"a", "b"}
  StepSizes <- Sizes
  MaxDisturbed = 0
  None = None
PROPERTIES
  SourceIsKept
