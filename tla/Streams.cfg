SPECIFICATION StreamsSpec
CONSTANTS
  B = 5
  D = 3
  M = 3
  MaxUdpBlocks = 5
  MaxSessions = 3
  K = 2
  R = 4
  CtrlReg = "0x08"
  EnableBit = 0
  ResetBit = 1
  MaxHw = 11
  MaxClients = 2
  Ring = 5
  S = 2
  C = 3
  Batch = 2
  MaxWr = 12
  MaxConn = 2
  Width = 16
  IqBits = 12
  L = 5
  N = 4
  MaxPrbsBlocks = 4
  SyncStages = 2
  MaxOpens = 2
  RxDepth = 2
  MaxIn = 6
  MaxSlips = 1
  TxDepth = 2
  MaxOut = 4
  MaxEdges = 8
  RwRegs = {"ctrl", "rx_buf_base"}
  RoRegs = {"rx_buf_wr"}
  NoRegs = {"none"}
  Words = {0, 1}
  Unknown = 9
  MaxCmds = 3
INVARIANTS UdpIntact OneStreamInOrder SlotsAgree PrbsSound SamplesWhole RegsAsWritten
PROPERTY StopEndsStream
CHECK_DEADLOCK FALSE
