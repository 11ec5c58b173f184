\* Three connections, TVs or phones, from one address to the room of one TV.
SPECIFICATION Spec
CONSTANTS
  Sockets = {s1, s2, s3}
  Rooms = {d1}
  Ips = {i1}
  Groups = {g1, g2}
  None = None
  MaxConnections = 3
  MaxPerIp = 3
  MaxPerIpPerRoom = 2
  MaxPlayers = 1
  MaxChanges = 2
VIEW MCView
SYMMETRY MCSymmetry
ACTION_CONSTRAINTS MCOneShows MCOneByRoom
INVARIANTS
  RoomsAgree
  AddressLimits
  QuietMeansTold
\* The connections may all have ended and the changes all been made.
CHECK_DEADLOCK FALSE
