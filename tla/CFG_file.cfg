\* Files read, hosts posted and deleted one at a time; the application ends at any
\* moment and the disk is full at will.
SPECIFICATION Spec
CONSTANTS
  Patterns = {"w*"}
  TextKeys = {"User"}
  ForwardKeys = {"LocalForward", "DynamicForward"}
  MaxForwards = 1
  MaxOptions = 2
  Names = {"a", "w*"}
  Texts = {"x"}
  Ports = {70000}
  ForwardRules <- MCForwardRules
  Files <- MCFiles
  ReadFiles <- MCReadFiles
  MaxEdits = 2
  None = None
INVARIANTS
  TypeOK
  RoundTrip
  SavedIsRead
  ShownAfterRestart
  Recoverable
PROPERTIES
  LoadIsDocumented
