CONSTANTS
  MaxDepth = 3
  PrintStack = PrintStack
  UserHandlers = {h1, h2, h3}
  NoHandler = NoHandler
SPECIFICATION Spec
INVARIANT ModeMatchesHandler
PROPERTY IntactScopesRestore
