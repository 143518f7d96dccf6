SPECIFICATION LibrarySpec
CONSTANTS
  MaxStarts = 2
  MaxAccepts = 3
  MaxConns = 2
  MaxChanges = 4
  max_stack_size = 2
  MaxContexts = 3
  MaxPosts = 2
  MaxChains = 3
  MaxNodes = 4
  MaxSlots = 2
  MaxImpls = 3
  Size = 8
  drop_key_init = 12
  Secrets = {"a", "b"}
  KeyBytes <- Keys
  Messages <- Texts
  MaxMessages = 3
INVARIANTS ListenersListen PointersValid AnswersHonest ThreadsAndTimersEnd
PROPERTIES CallbackTarget PromisesKept
CHECK_DEADLOCK FALSE
