CONSTANTS
  f1 = f1
  f2 = f2
  NoFile = NoFile
  Files <- MCFiles
  GoFiles <- MCGoFiles
  MaxTexts <- MCMaxTexts
  Broken <- MCBroken
SPECIFICATION ToolsFairSpec
PROPERTIES
  FormatsWhatItRead
  OutlineFollows
