SPECIFICATION DownloadSpec
CONSTANTS
  Interval = 3
  Horizon = 22
  FirstCandle = 3
  MaxPerRequest = 2
  Limits = {1, 3, 4, 5}
  StartTimes = {0, 6}
  EndTimes = {0, 8, 11, 16}
INVARIANT OnlyFinalCandles
CHECK_DEADLOCK FALSE
