\* Two boards are probed, used and removed while transfers fail and users come early.
SPECIFICATION FairSpec
CONSTANTS
  Boards = {"b1", "b2"}
  Sites <- SomeSites
  Channels = 2
  Resolution = 3
  Period = 5
  RegCount = 68
  NumTaps = 8
  Delays <- Steps
INVARIANTS TypeOK OwnCalibration UpMeansTested NothingLeft PinsAsAsked
PROPERTY TempConverted
