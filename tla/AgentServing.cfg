SPECIFICATION AllSpec
CONSTANTS
  Part = {"turn", "memory", "host"}
  Specialist = {s1, s2}
  DelegatedAgent = {s1}
  GraphAgent = {s1}
  Root = root
  MaxConcurrency = 1
  Startup = {{s1, s2}, {s2}}
  TurnKind = {"teams", "cowork", "direct", "monitor"}
  User = {u1, u2}
  Message = {m1, m2, m3}
  Margin = 1
  Lifetime = {2}
  LastTime = 2
  Persona = {p1, p2}
  Unconfigured = {p2}
  Misspelt = px
  MaxPersonas = 3
CHECK_DEADLOCK FALSE
INVARIANTS LeaksExplained SecondReportExplained BooksMatchCharges ChargesAreVisible PostsAreComplete AnswersFitQuestions TokensOutliveTheMargin ShutdownIsComplete AnswersMatchMail
PROPERTIES QuietAfterCancel TurnsAlwaysEnd
