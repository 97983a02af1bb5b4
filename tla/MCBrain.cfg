SPECIFICATION BrainSpec
CONSTANTS
  Jobs = {"world", "train", "eval", "search", "pilot"}
  WorldKinds = {"junction", "corridor", "episode", "recorded"}
  Cameras = {"north", "east"}
  Tracks = {1, 2}
  FrameTime <- MCFrameTime
  MaxFrames = 2
  Runners = {r1, r2}
  Signals = {s1, s2}
  NumStages = 3
  Iterations = 6
  CheckpointEvery = 2
  Patience = 2
  EvalPlans = {"baseline", "fixed", "wave", "policy", "score"}
  EpisodeLengths = {20, 31}
  EvalEpisodes = 2
  ScenePool <- MCScenes
  Places = {1, 2, 3, 4, 5}
  Start = 5
  Goal = 1
  RoadPool <- MCRoadPool
  Infinity = 1000000
  front = front
  rear = rear
  PilotCameras = {front, rear}
  Faces <- MCFaces
  Frames <- MCFrames
  DecisionInterval = 2
  FrameGaps = {25, 70}
  MaxRecords = 3
  MaxFrame = 5
  MaxWall = 150
INVARIANTS
  BrainTypeOK
  CheckpointsKeepUp
  UnlockedEpisodes
  
  SimulationAccepts
  BaselineInControl
  PlatoonMeetsGreen
  FormulasServeDemand
  ShortestFound
  LogCoherent
CHECK_DEADLOCK FALSE
