CONSTANTS
  RX_BUFSIZE = 5
  BLEN = 2
  MaxFrames = 3
  Packet <- Packets
SPECIFICATION SlipFairSpec
INVARIANT PacketIsAFrame
PROPERTY PacketsTaken
CHECK_DEADLOCK FALSE
