SPECIFICATION ToolSpec
CONSTANTS
  FileName <- const_FileName
  Config = "Config"
  InitialFiles <- const_InitialFiles
  Key <- const_Key
  Text <- const_Text
  UInt32 <- const_UInt32
  Number <- const_Number
  Int32 <- const_Int32
  JsonNumber <- const_JsonNumber
  MaxEdits = 2
INVARIANT GameReadsConfig
