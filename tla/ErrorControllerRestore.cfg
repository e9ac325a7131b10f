CONSTANTS
  MaxDepth = 3
  PrintStack = PrintStack
  UserHandlers = {h1, h2, h3}
  NoHandler = NoHandler
SPECIFICATION ScopesSpec
PROPERTY ScopeRestores
