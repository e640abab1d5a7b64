SPECIFICATION Spec
CONSTANT Conn = {c1, c2}
INVARIANT ConnectAnswers
CHECK_DEADLOCK FALSE
