CONSTANTS
  PACKETBUF_SIZE = 3
  PACKETBUF_HDR_SIZE = 3
  n1 = n1
  n2 = n2
  Octet <- MCOctet
  Addr = {n2}
  rimeaddr_null = n0
  rimeaddr_node_addr = n1
  NoByte = nobyte
  NoReference = noref
  Payload <- MCPayload
  Header <- MCHeader
  Foreign <- MCForeign
  MaxOperations = 8
  MMEM_SIZE = 3
  Block = {m1, m2, m3}
  Size = {1, 2}
  NoOctet = nooctet
  CLOCK_RANGE = 5
  Task = {t1, t2}
  NoTask = notask
  Ahead = {2, 4}
  MaxDelay = 1
  List = {la, lb}
  Item = {x, y, z}
  NULL = null
  TAR_RANGE = 32
  INTERVAL = 3
  COUNT_RANGE = 4
  CLOCK_SECOND = 4
  WORD = 2
  MaxLag = 4
  MaxReading = 6
  TIME_RANGE = 16
  Interval = {1, 2, 5}
  BUFFER_SIZE = 2
  NUM_ITEMS = 3
  MaxContinues = 1
  OCTET = 3
  Length = {1, 3}
  MaxPosted = 2
  Numbers = 4
  SentByte <- MCByte
  Damage <- MCDamage
  MaxLength = 3
  Seed = {0, 1, 127, 43690, 65535}
  Leftover <- MCLeftover
  MaxDrawn = 60
  MtThread = {a, b}
  NoMtThread = none
  ticks_second = 4
  RADIO = 3
  VLO = 5
  MaxHold = 4
  RadioRegister = {PKTLEN}
  PKTLEN = PKTLEN
  RadioValue = {v, TEST}
  TEST_VALUE = TEST
  Odd = odd
  Strobe = {SRES}
  SRES = SRES
  MaxCommands = 2
  MaxEdges = 1
  MaxSamples = 4
  Screen = {1}
  X_SPAN = 3
  Reach = 3
  MaxWalks = 3
  Alarm = {a1}
  NoAlarm = noalarm
  Delay = {0, 2}
  DEFAULT_FREQUENCY = 3
  Frequency = {1, 3}
  Time = {0, 3}
  MaxElapsed = 2
  MaxTime = 6
  OVERFLOW = 4
  MASTER_RANGE = 3
  Handler = {f, g}
  NoHandler = nohandler
  Frequency_MHz = {3, 8}
  Division = {1, 3, 4}
  WDT_LIMIT = 3
SPECIFICATION ServicesSpec
INVARIANTS InBounds BlocksIntact TimeIsTold OctetsAndPacketsPass NumbersAsMeant ThreadsAlternate PeripheralsAnswer CommandsArrive CurvesHonest WalksUpright
PROPERTIES ImplementsPacket TaskExecuted ImplementsLists
CHECK_DEADLOCK FALSE
