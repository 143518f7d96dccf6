SPECIFICATION ConnectSpec
INVARIANTS OutcomeSound NoFalseTimeout
PROPERTY ConnectLives
CHECK_DEADLOCK FALSE
