CONSTANTS
  HeaderUnits = 2
  PayloadUnits = 2
  PaddingUnits = 1
  FirstSequence = 2
  LastSequence = 4
  MaxUnits = 15
  SizeMax = 15
  FieldMax = 15
  OffsetMax = 63
  PointerAlign = 2
  FileHeaderSize = 4
  RecordHeaderSize = 3
  Own <- OwnConfig
  Configs <- OtherConfigs
  HeaderValues <- OtherValues
SPECIFICATION Spec
INVARIANTS
  TypeOK
  OpensExactlyOwn
  LayoutExact
  DeliversValidLog
  AgreesWithScan
  LogNeverCorrupt
PROPERTIES
  RefinesLogReading
