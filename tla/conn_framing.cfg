CONSTANTS
  id1 = id1
  Methods = {"ping", "echo", "add", "nosuch"}
  IdVals = {id1}
  Callbacks = {"on_open", "on_close", "on_request", "on_notification"}
  HandlerCodes <- AppCodes
  OnRequest <- AppOnRequest
  HandlerOOM = FALSE
  JsonTexts <- FramingTexts
  Chunks <- FramingChunks
  MaxMessage = 2
  MaxBuffer = 4
  MaxInput = 5
  MaxOut = 1
  SendCanFail = TRUE
  HasClose = TRUE
  FeedAfterClose = FALSE
SPECIFICATION FairSpec
INVARIANT TypeOK
 
PROPERTY FeedReturns
CHECK_DEADLOCK FALSE
