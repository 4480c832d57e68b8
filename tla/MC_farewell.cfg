SPECIFICATION BridgeSpec
CONSTANTS
  MAX_SILENCE_NUDGES = 3
  MaxAnswers = 3
  MaxSpeech = 1
PROPERTIES
  WatchdogSaysFarewell
CHECK_DEADLOCK FALSE
