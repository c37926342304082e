CONSTANTS
  HoursPerDay = 2
  DaysPerWeek = 2
  Horizon = 8
  Hours = {0, 1}
  Weekdays = {0, 1}
  EnvPolicy <- MCEnvPolicy
  EnvMail = TRUE
  Housekeeping = 0
  Accounts = {a}
  Cadence <- MCCadence
  Mails = {1}
  Batch = 1
  MaxAttempts = 2
  RetryBase = 1
  RetryMax = 1
  Retention = 1
  MaxRequests = 1
  MaxCrashes = 1
SPECIFICATION MailSpec
INVARIANTS OutboxTruthful
PROPERTIES MailSettles OncePerPeriod PeriodServed
