SPECIFICATION Spec
CONSTANTS
  Visitors = {1, 2, 3}
  Packets = {1, 2}
  Requests = {r1, r2}
  Nonces = {n1}
  Hellos = {h1, h2}
  Finishes = {f1, f2}
  Valid = {f1}
  MaxPackets = 2
  MaxProvisional = 1
  Admission = 2
  ActiveLimit = 2
  Scenes <- EvictionScenes
  None = None
PROPERTIES
  AuthenticatedNeverEvicted
SYMMETRY Symmetry
\* Without requests, and once Cleanup has returned, nothing happens.
CHECK_DEADLOCK FALSE
