SPECIFICATION SSpec
CONSTANTS
  None = None
  EncodeSymbol <- encode_symbol
  CanEncode <- Encodable
  DecodeItems <- decode_items
  DecodeSymbols <- decode_symbols
  ToSymbol <- _to_binary_symbol
  Packets <- MCPackets
  Numbers <- MCNumbers
  MAX_TLV_VALUE_SIZE = 160
  UINT16_LIMIT = 600
  UINT32_LIMIT = 100000000
  UINT64_LIMIT = 600000000
  Outputs <- MCOutputs
  Gates <- MCGates
  Grammars <- MCGrammars
  Observations <- MCObservations
  Results <- MCResults
  Dicts <- MCDicts
INVARIANTS
  ConstrainedIsValid
