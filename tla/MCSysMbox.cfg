SPECIFICATION FairSpec
CONSTANTS
  Posters = {p1, p2}
  Fetcher = f
  Pool = {m1, m2, m3}
  Size = 4
  NULL = NULL
INVARIANTS MailboxSane
PROPERTIES EveryMessageReturns
