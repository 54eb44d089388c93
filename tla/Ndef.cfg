SPECIFICATION Spec
CONSTANTS
  Byte = 8
  MaxLanguage = 1
  Abbreviations <- MCAbbreviations
  Dictionaries <- MCDictionaries
  Frames <- MCFrames
  None = None
  TextName = TextName
  UriName = UriName
  PosterName = PosterName
  AarName = AarName
  ActionName = ActionName
  SizeName = SizeName
  MimeName = MimeName
INVARIANTS
  GeneratedMessagesAreWellFramed
  WrittenIsReadBack
  ForeignIsReadInOrder
CHECK_DEADLOCK FALSE
