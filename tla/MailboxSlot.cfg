SPECIFICATION FairSpec
CONSTANTS
  Message = {m1, m2, m3, m4}
  Empty = Empty
PROPERTIES ImplementsMailbox ExchangeReturns
