\* One request at every time before its deadline, with the last connection in hand,
\* and probes of a process of any settings.
SPECIFICATION ProbesSpec
CONSTANTS
  Deadline = 14
  ReadTimeout = 5
  MaxRetries = 2
  Backoff <- MCBackoff
  MaxDelay = 3
  Margin = 1
  Lag = 1
  Settings <- MCSettings
  Free = 1
  CacheTicks = 1
INVARIANTS PostBudget ReadyMeansServing
PROPERTIES NoWastedDelay EveryCallEnds ImplementsProviderCall ReadyAgain
