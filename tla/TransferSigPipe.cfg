CONSTANTS
  a = a
  b = b
  NoClient = NoClient
  Clients = {a, b}
  Byte <- MCByte
  Zero = 0
  LenBytes = 2
  MaxBuffer = 2
  SendBuf = 2
  Backlog = 2
  FirstFd = 3
  Payload <- MCPayload
  htobe64 <- MCHtobe64
  be64toh <- MCBe64toh
  FaultSets <- MCServerEnds
SPECIFICATION Spec
INVARIANTS SocketSendReturns
CHECK_DEADLOCK FALSE
