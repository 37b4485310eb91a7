\* Numbers beyond an int, a size_t and a long long; up to two languages.
SPECIFICATION Spec
CONSTANTS
  cpp = cpp
  pas = pas
  other = other
  Nothing = Nothing
  Half = 2
  Wide = 8
  Limits <- AllLimits
  Ids <- AllIds
  Scores <- AllScores
  CppCompilers = {cpp}
  PasCompilers = {pas}
  Languages = {cpp, pas, other}
  Extensions = {".x", ""}
  Configs <- UpToTwo
INVARIANT TypeOK
INVARIANT LimitsKept
INVARIANT PointsOfTest
INVARIANT UsageWithinLimits
INVARIANT ConfiguredLanguage
