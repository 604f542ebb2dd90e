SPECIFICATION Spec
CONSTANTS
  Source = {"fn", "ident", "}", ";"}
  MaxTokens = 3
  MaxTodo = 10
PROPERTY Terminates
CHECK_DEADLOCK FALSE
