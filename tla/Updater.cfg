SPECIFICATION Spec
CONSTANTS
  package = package
  tarball = tarball
  zipped = zipped
  Archive = {package, tarball, zipped}
  Installed = installed
  About <- MCAbout
  Version <- MCVersion
  Request = {r1, r2}
  MaxFaults = 2
SYMMETRY Symmetric
INVARIANTS TypeOK StaysRunnable
PROPERTY AnswerIsTrue
CHECK_DEADLOCK FALSE
