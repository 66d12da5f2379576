CONSTANTS
  Users = {u1, u2, u3}
  Peers = {p1, p2}
  MaxDatagrams = 2
  MaxFailures = 1
  Nobody = Nobody
SPECIFICATION FairSpec
CHECK_DEADLOCK FALSE
INVARIANTS OneMux Registrations RoutedInOrder
PROPERTY NobodyStuck
