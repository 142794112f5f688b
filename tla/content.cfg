SPECIFICATION Spec
CONSTANTS
  Viewport = 10
  StitchWheel = 9
  LazyWheel = 8
  Slack = 1
  Heights = {10, 11, 19, 25, 34}
  MaxSteps = 4
  StableRounds = 2
  PageHeights = {6, 7, 9}
  Overlap = 2

  Runs = {1, 2, 3}
  Readers = {w1, w2}
  Texts = {"blank", "spring", "long"}
  Blank = "blank"
  LongTexts = {"long"}
  Words <- MCWords
  KeyOf <- MCKeyOf
  Converted <- MCConverted
  Answers <- MCAnswers
  MaxRows = 3
  Delays = 1
  MaxReadings = 3
  MaxTags = 1

  Launches = {1, 2}
  Days = {"mon", "tue"}
  RawLinks <- MCRawLinks
  RawRows <- MCRawRows
  IgnoredMarkets = {"Academy"}

  RunIds = {1}
  Changing = {"profiles"}
  MaxChanges = 1
  BackupOptions <- MCBackupOptions
  RestoreOptions <- MCRestoreOptions
  MaxScripts = 3
  Outputs = {"b"}
  Rollbacks = {r1, r2}

  Starters = {p1, p2, p3}
  NoKey = NoKey
  EmptyKey = EmptyKey
  MaxRestarts = 2
SYMMETRY MCSymmetry
CHECK_DEADLOCK FALSE
INVARIANTS
  TypeInvariant
  FeedIsCaptured
  PdfIsComplete
  ExtractionsAreFaithful
  ComparisonIsSound
  SheetsAreTrue
  ArchivesAreSound
  RestoreIsReversible
  OneKey
