SPECIFICATION FairSpec
CONSTANTS
  M1 = M1
  M2 = M2
  Big = Big
  R1 = R1
  R2 = R2
  CtlPosts <- MCCtlPosts
  CliPosts <- MCCliPosts
  TooLarge = {Big}
  PostMax = 2
  FlightMax = 2
  QueueMax = 2
  BeatMax = 1
INVARIANTS TypeOK ClosedIsTheLast TwoPongsPerPing
PROPERTIES DeliversInOrder AnswersInOrder ControllerHears ClientHears
CHECK_DEADLOCK FALSE
