SPECIFICATION Spec
CONSTANTS
  Index = {0, 1}
  Frame = {"code", "stack", "info", "fb", "heap", "low"}
  SharedFrame = "info"
  Fds = {3, 4}
  BufferLen = 4
  NameBuffer = 2
  PathBuffer = 4
  MaxNodes = 6
  Program <- MCProgram
  Stack <- MCStackPages
  SharedPage <- MCSharedPage
  Framebuffer <- MCFramebuffer
  BootTables <- MCBootTables
  BootTree <- MCBootTree
  LogPath <- MCLogPath
  Texts <- MCTexts
  CmdPaths <- MCCmdPaths
  EchoTexts <- MCEchoTexts
  NewFileText <- MCNewFileText
INVARIANTS
  TypeOK
  DescriptorsAreReturned
  SelectionIsPicked
  ProgramIsMapped
  BootMappingsAreKept
PROPERTIES
  DeleteRemovesPicked
  BrowsingIsReadOnly
