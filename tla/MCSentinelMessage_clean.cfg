SPECIFICATION MessageFairSpec
CONSTANTS
  fresh = fresh
  stale = stale
  v1 = v1
  v2 = v2
  None = None
  Char <- Letters
  Programs <- Files
  FirstArgs <- First
  LaterArgs <- Later
  Names <- Words
  ENV_VAR <- Var
  Values = {v1, v2}
  Environments <- Parents
  Handle = fresh
  MaxCalls = 3
  Byte <- Chars
  SENTINEL_MAGIC <- Magic
  Zero = "0"
  Writes <- Pieces
  MaxBytes = 20
INVARIANTS
  MessageTypeOK
  ArgumentsReadBack
  
  BlockIsSorted
  VerdictIsExact
  CleanExitIsTold
PROPERTY VerdictComes
CHECK_DEADLOCK FALSE
