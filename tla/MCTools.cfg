SPECIFICATION FairSpec
CONSTANTS
  Conf <- ConfVal
  Calls <- CallsVal
  MaxSerialCalls = 1
  SERIAL_MAX_COMMANDS = 2
  SERIAL_MAX_DEVICES = 2
  MAX_OUTPUT = 4
  MaxWire = 1
  LineEnds = 1
  Colour = FALSE
  Banner <- BannerNone
  Babbles = TRUE
  MaxOthers = 1
  Requests <- RequestsVal
  DEFAULT_TIMEOUT = 2
  MAX_TIMEOUT = 3
  MAX_OUTPUT_SIZE = 3
  PIPE_SIZE = 2
  MaxWrites = 3
  MaxShellCalls = 2
  Permitted = {"ls", ""}
  Background = FALSE
  Messages <- MessagesVal
  LINE_MAX = 3
  HasToken = TRUE
  Http = TRUE
  MaxConns = 2
  MaxSends = 1
  Cuts = TRUE
INVARIANTS OwnOutput OutputKept FramesWhole
PROPERTIES InStep ToolCallsReturn
CHECK_DEADLOCK FALSE
