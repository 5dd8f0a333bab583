SPECIFICATION FairSpec
CONSTANTS
  Handshakes <- AHandshake
  Connects <- AConnect
  Pings <- SomePings
  Pongs <- SomePongs
  WriteTimeout = 1
  RoundTrip = 1
CHECK_DEADLOCK FALSE
INVARIANTS DeadPeerGone
PROPERTIES LivePeerKept DeadPeerLeaves
