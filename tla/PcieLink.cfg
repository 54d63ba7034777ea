CONSTANTS
  None = None
  Low = {"low"}
  High = {"high"}
  Value = {"v", "w"}
  RootValue = {"v"}
  Spans <- UsualSpans
  ReadSizes = {1}
  CfgSizes = {2}
  Tags = 2
  Intx = {0}
  OwnLimit = 2
  EpTags = {0, 1}
  EpAddr = {"high"}
  MaxWait = 2
SPECIFICATION FairSpec
INVARIANT TypeOK
INVARIANT OwnCompletion
INVARIANT DmaAnsweredOnce
INVARIANT AnsweredBeforeReturn
INVARIANT IntxFollows
INVARIANT BytesEnabled
PROPERTY DownInOrder
PROPERTY UpInOrder
PROPERTY OneAccessPerCall
PROPERTY CallReturns
