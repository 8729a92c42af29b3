SPECIFICATION PathSpec
CONSTANTS
  NUM_PARTS = 3
  image_option = 2
  BASE = 16
  BUF_SIZE = 13
  STRUCT_SIZE = 1
  Responses <- MCResponses
  STRIP = 4
  IDAT_AT = 1
  LEN_SIZE = 2
  TYPE_SIZE = 1
  STREAM <- MCStream
  CHUNK = 2
  MaxInflated = 6
  MaxDeflated = 6
  BYTE_BITS = 4
  CRC_BITS = 8
  POLY = {5, 6, 7}
INVARIANTS TypeOK PrefixStored CopyExact OutcomeReceived StripAsInRing WholeInImage CrcIsRemainder
PROPERTIES PathEnds
