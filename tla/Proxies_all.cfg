CONSTANTS
  Size = 6
  MaxBytes = 20
  Exchanges <- MCExchanges
  MaxRead = 6
  MaxRequests = 3
  MaxInterims = 1
  Capacity = 2
  MaxSent = 3
SPECIFICATION ProxiesSpec
INVARIANTS MessagesAreThoseSent NothingIsHeldBack AnswersMatchRequests PassesAllOn RelaysEverything
PROPERTIES StreamSpec EndsWhenBothDo
CHECK_DEADLOCK FALSE
