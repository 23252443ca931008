CONSTANTS
    Blank = Blank
    None = None
    Cgnat = {"b"}
    Multicast = {"m"}
    Tasks <- MCTasks
    Answers <- MCAnswers
    MaxCount = 2000
SPECIFICATION Spec
INVARIANTS OneResult SnifferAccounted NoFalseStorm SurveyGrounded PathGrounded CaptureGrounded BtestHonest
