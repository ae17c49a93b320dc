SPECIFICATION Spec
CONSTANTS
  MaxInterval = 1
  SceneNames = {"", "A", "B"}
  Grammars <- TwoGrammars
  Level <- LevelOf
  Target = "N2"
  Scenes <- ScenesOf
  Plans = {p1, p2}
  DailyNewLimit = 1
  Sessions = {s1, s2}
  Answers <- ThreeAnswers
  Accounts <- SomeAccounts
  FirstDay = 5
  LastDay = 6
  MaxEdits = 1
SYMMETRY Symmetry
INVARIANTS MasteryEarned DueOncePerDay TasksFollowSessions GateAgrees ForecastMatchesPlan
CHECK_DEADLOCK FALSE
