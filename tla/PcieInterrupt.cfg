CONSTANTS
  None = None
  Low = {"low"}
  High = {"high"}
  Value = {"v"}
  RootValue = {"v"}
  Spans <- UsualSpans
  ReadSizes = {1}
  CfgSizes = {2}
  Tags = 2
  Intx = {0}
  OwnLimit = 2
  EpTags = {0, 1}
  EpAddr = {"high"}
  MaxWait = 2
SPECIFICATION FairSpec
PROPERTY AlwaysReturns
