CONSTANTS
  analyst = analyst creative = creative pragmatist = pragmatist observer = observer
  Analyst = analyst
  Creative = creative
  Pragmatist = pragmatist
  Observer = observer
  Thinkers <- MCThinkers
  judge = judge
  Judge = judge
  Retriers <- MCRetriers
  Responses <- MCResponses
  JudgeTexts <- MCJudgeTexts
  NoThinker = NoThinker
SPECIFICATION LabSpec
INVARIANTS AnswerWhenever AssertionsHold
PROPERTY OneReply
CHECK_DEADLOCK FALSE
