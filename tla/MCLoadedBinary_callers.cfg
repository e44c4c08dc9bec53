CONSTANTS
  Loadable <- MCLoadable
  NewSymbols <- MCNewSymbols
  NewFunctions <- MCNewFunctions
  IndexedTypes = {"SymbolByAddress", "FunctionByAddress"}
  Ranges <- MCRanges
  MaxResults = 2
  MaxSymbols = 2
  MaxFunctions = 2
  MaxHeld = 2
  Programs <- MCPrograms
  MinLength = 2
  MaxAnalyses = 4
  Codes <- MCCodes
  Images <- MCImages
  Bases = {0, 16, 20}
  Width = 32
  BaseTypes = {"Int32", "Pointer"}
  TypeNames = {"HANDLE", "T"}
  MaxVariables = 2
  MaxTold = 4
  MaxTypes = 3
SPECIFICATION Spec
INVARIANT CallersAreKnown
