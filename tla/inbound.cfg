SPECIFICATION FairSpec
CONSTANTS
  Documents = Documents
  DocumentsAgain = DocumentsAgain
  InTheirName = InTheirName
  TwoFroms = TwoFroms
  JustAQuestion = JustAQuestion
  NoSender = NoSender
  Elsewhere = Elsewhere
  id1 = id1
  id2 = id2
  NoMessageId = NoMessageId
  NoAddress = NoAddress
  NoReply = NoReply
  Messages = {Documents, DocumentsAgain, InTheirName, TwoFroms, JustAQuestion, NoSender, Elsewhere}
  Mail <- MCMail
  Replies <- MCReplies
  MaxAttempts = 2
  AtomicLoad = TRUE
  MaxFaults = 2
  MaxEmails = 2
CHECK_DEADLOCK FALSE
INVARIANTS TypeOK AcceptedIsGenuine NothingIsLost
PROPERTIES FirstReplyStays GenuineIsSettled
