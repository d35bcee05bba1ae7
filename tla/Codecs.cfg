SPECIFICATION Spec
CONSTANTS
  StringJobs <- MCStringJobs
  SourceJobs <- MCSourceJobs
  PasswordJobs <- MCPasswordJobs
  TextJobs <- MCTextJobs
  ByteaJobs <- MCByteaJobs
  CharJobs <- MCCharJobs
  ErrorJobs <- MCErrorJobs
  StartupJobs <- MCStartupJobs
  SSLJobs <- MCSSLJobs
  LibraryJobs <- MCLibraryJobs
  BufferJobs <- MCBufferJobs
  LineLen = 16
  INT_MAX = 40
  INITIAL_EXPBUFFER_SIZE = 8
  HardlyAny = 2
  FirstGuess = 4
  SM_USER = 2
  SM_DATABASE = 2
  SM_OPTIONS = 2
  SM_TTY = 1
  DISPLAY_SIZE = 4
  MIN_RIGHT_CUT = 2
CHECK_DEADLOCK FALSE
INVARIANTS
  SettingsAreMeant
  LiteralsReadBack
  EncodingsAgree
  CaretUnderTheError
  ServerIsVerified
  CallbacksKept
  BufferKeepsText
