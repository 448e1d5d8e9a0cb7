SPECIFICATION SpecText
CONSTANTS
  Letters = {"a"}
  Strings <- MCStrings
  Numbers = {0, 7, 10, 100, 405, 65535, 999999999, 1000000000, 2147483647}
  Lines <- MCLines
  Titles <- MCTitles
  MaxTokens = 3
  MaxText = 3
  MaxTexts = 2
INVARIANTS
  FormatMeans
  OneFormerCharacter
  NumberRead
  LinesFit
CHECK_DEADLOCK FALSE
