SPECIFICATION PartSpec
CONSTANTS
 PlanIds = {"free","pro","new"}
 PlanNames = {"Free","Pro","New"}
 PlanQuotas = {0,1,2}
 Free = "free"
 FreeQuota = 1
 DefaultPlans <- TwoPlans
 NoPlan = NoPlan
 Readers = {r1}
 MaxUsed = 2
 PlanMaxFaults = 1
 ConsoleCalls = {1,2}
 ReplayKeys = {k1}
 FailedTasks = {t1}
 Undelivered = {d1}
 NewPlans <- OnePlanTwice
 Patches <- RetireRenameEmpty
 NoEntry = NoEntry
INVARIANTS
  UsageIsEnforced
  ConsoleIsHonest
CHECK_DEADLOCK FALSE
