\* A process from its command line to its exit. Three layers with one or two values
\* for some settings each; three numbers, garbage or nothing in each limit field of a
\* request; three keys pressed and three interrupts in a session, whose timers run for
\* one and two ticks. A process that is over does nothing more.
SPECIFICATION CommandSpec
CHECK_DEADLOCK FALSE
CONSTANTS
  Blank = Blank
  Junk = Junk
  NotANumber = NotANumber
  Hint = Hint
  ConfirmationTimeout = 2
  StatusTimeout = 1
  MaxPresses = 3
  MaxInterrupts = 3
  Files <- MCFiles
  Environments <- MCEnvironments
  CliLayers <- MCCliLayers
  LimitValues <- MCLimitValues
  JuiceLevels = {10, 40, 100}
  MemoryScales = {50, 100}
INVARIANTS
  SourcesAreTrue
  WithinBudget
  StopIsComplete
PROPERTIES
  DrainsAreConfirmed
  SessionEnds
