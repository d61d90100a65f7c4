SPECIFICATION FairSpec
CONSTANTS
  Command = {c1, c2, c3}
  NoCommand = NoCommand
PROPERTIES ImplementsQueue SubmittedIsProcessed WaitReturns
