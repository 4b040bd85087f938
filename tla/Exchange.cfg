SPECIFICATION Spec
CONSTANTS
  Absent = Absent
  NoFile = NoFile
  Window = Window
  Runs = {r1, r2}
  Secrets = {"H", "T", "S", "="}
  Uncomputable = {"="}
  Percent = {"50%"}
  Ampersand = {"AT&T"}
  ExportTypes <- MCExportTypes
  ImportTypes <- MCImportTypes
  CounterMax = 2
  UintWrap = 128
  MaxVer = 3
  MaxTokens = 4
  Seeds <- MCSeeds
  Foreign <- MCForeign
  CommandLines <- MCCommandLines
INVARIANT TypeOK CodesOnce NoTwins RoundTrip
PROPERTY TokensKept
SYMMETRY Symmetry
