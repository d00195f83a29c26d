CONSTANTS
  id1 = id1
  Methods = {"ping", "echo", "add", "nosuch"}
  IdVals = {id1}
  Callbacks = {"on_open", "on_close", "on_request", "on_notification"}
  HandlerCodes <- AppCodes
  OnRequest <- AppOnRequest
  HandlerOOM = TRUE
  JsonTexts <- DispatchTexts
  Chunks <- DispatchChunks
  MaxMessage = 2
  MaxBuffer = 4
  MaxInput = 2
  MaxOut = 0
  SendCanFail = FALSE
  HasClose = TRUE
  FeedAfterClose = FALSE
SPECIFICATION Spec
INVARIANT RepliesConform
INVARIANT NotificationsDelivered
INVARIANT BatchAnswered
INVARIANT BatchNotified
CHECK_DEADLOCK FALSE
