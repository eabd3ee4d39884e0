\* A board whose EEPROM has a wrong hash is probed.
SPECIFICATION Spec
CONSTANTS
  Boards = {"b1"}
  Sites <- WrongHash
  Channels = 2
  Resolution = 3
  Period = 5
  RegCount = 68
  NumTaps = 8
  Delays <- Steps
PROPERTY DefaultsIfHashWrong
