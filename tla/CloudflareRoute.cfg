SPECIFICATION FairSpec
CONSTANTS
  m1 = m1
  m2 = m2
  b1 = b1
  b2 = b2
  None = None
  Mails = {m1, m2}
  Mailboxes = {b1, b2}
  MessageIds = {id1}
  MailboxOf <- Apart
  MaxTries = 2
  MaxEdits = 1
  MaxFaults = 3
INVARIANTS TypeOK AcceptedIsTaken
PROPERTIES ImplementsHandoff Settled
CHECK_DEADLOCK FALSE
