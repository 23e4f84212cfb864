CONSTANTS
  c1 = c1
  c2 = c2
  k1 = k1
  k2 = k2
  srv = srv
  Nobody = Nobody
  Clients = {c1, c2}
  Srv = srv
  Kids <- TwoKids
  Targets <- Anyone
  Backlog = 1
  Wnd = 4
  KeepaliveMax = 1
  Scenarios <- Stories
SPECIFICATION Spec
CHECK_DEADLOCK FALSE
INVARIANTS
  OrphanDriven
  QueuesExact
  NoCallHangs
  HandshakeAgrees
