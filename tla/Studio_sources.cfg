SPECIFICATION Spec
CONSTANTS
  Readers = {r1, r2, r3}
  NoReader = none
  PollErrorLimit = 2
  MaxFailures = 1
  MaxRequests = 1
  Receivers = {s1, s2, s3, s4}
  NoReceiver = none
  Ports = {p1, p2}
  NoPort = noport
  Preferred = noport
  Reconnectors = {t1, t2}
  NoThread = nothread
  MaxUnplugs = 1
  MaxPresses = 2
INVARIANTS  PortIsReleased
PROPERTIES   PortComesBack
CHECK_DEADLOCK FALSE
