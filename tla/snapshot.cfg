\* Two coroutines that ask for the snapshot of a profile of a camera, behind a NAT or
\* not
CONSTANTS
  Callers = {c1, c2}
  Profiles = {p1}
  Keys <- AnyKey
  Lower <- LowerCase
  Credentials = {"user"}
  Advertised <- AnyAddress
  Bracketed = {"[lan]"}
  Home = "home"
  None = None
  Unknown = Unknown
SPECIFICATION Spec
INVARIANTS TypeOK AuthErrorEarned AsksTheCamera DoubledPortServed
PROPERTIES UrisSettle
