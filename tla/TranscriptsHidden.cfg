SPECIFICATION TranscriptsSpec
CONSTANTS
  HomeDir = home
  NamedDirs = {n1, n2}
  Folders = {f1, f2}
  Logins = {ann, bob}
  MaxTurns = 3
  MaxChanges = 3
INVARIANT HistoryIsCarried
CHECK_DEADLOCK FALSE
