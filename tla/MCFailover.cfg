\* All routes, groups of up to three members.
SPECIFICATION Spec
CONSTANTS
    MaxMembers = 3
    Routes = {"run", "run_stream", "handle", "handle_stream", "input_tokens"}
INVARIANTS
    FirstHealthyAnswers FailureMeansAllTried AnswerIsOneMembers RowNamesTheAnswer
PROPERTY Answered
CHECK_DEADLOCK FALSE
