\* One conversion per process, as the command-line tool runs.
CONSTANTS
  Files <- MCFiles
  ImplicitClasses <- MCImplicitClasses
  MaxConversions = 1
SPECIFICATION Spec
INVARIANTS
  TypeOK
  ImportedNameResolvesToItsImport
  AdditionalImportResolvesToPackage
  AmbiguousNameNeverGuessed
\* The process exits once its conversion has ended.
CHECK_DEADLOCK FALSE
