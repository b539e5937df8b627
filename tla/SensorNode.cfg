CONSTANTS
  LocalFrame = {f1}
  RemoteFrame = {r1}
  OtherFrame = {o1}
  NoFrame = none
  FifoRoom = 5
  Register = {"flush", "x", "y"}
  NoOctet = "garbage"
SPECIFICATION NodeFairSpec
INVARIANTS SampleIsFresh UncutSendIsTrue
PROPERTY NodeGoesOn
