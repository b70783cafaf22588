SPECIFICATION Spec
CONSTANTS
  ByteMod = 8
  SettingsHead = 5
  TextHead = 6
  DefaultCall <- MC_DefaultCall
  DefaultText <- MC_DefaultText
  DefaultParams <- MC_DefaultParams
  Params <- MC_Params
  Calls <- MC_Calls
  Texts <- MC_Texts
  TextMax = 3
  TextBuf = 3
INVARIANTS TornDetected  FirstWriteWhole
PROPERTY NeverRejected
