CONSTANTS
  Quizzes <- MCQuizzes
  StoryKeys = {"NAME", "DATE", "WISHES"}
  Genres = {"pop", "instrumental"}
  ClipCounts = {0, 1, 2}
  MaxTasks = 3
SPECIFICATION Spec
INVARIANTS AnswersReachSuno OwnWordsAreSung TwoTexts
CHECK_DEADLOCK FALSE
