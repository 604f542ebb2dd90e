SPECIFICATION Spec
CONSTANTS
  Source = {"type", "utype", "void", "ident", "literal", "string", "-", "*", "!",
            "++", "+", "=", "+=", "(", "[", "{", ")", "]", "}", "fn", "struct",
            "import", "if", "else", "while", "for", "return", "break", "const",
            ";", ",", ".", "->", "error"}
  MaxTokens = 10
  MaxTodo = 14
INVARIANTS
  TypeOK
  Balanced
  NothingSwallowed
PROPERTY TerminatesOrStuck
CHECK_DEADLOCK FALSE
