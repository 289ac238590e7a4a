SPECIFICATION Spec
CONSTANTS
  f1 = f1
  f2 = f2
  t1 = t1
  Fills = {f1, f2}
  Buys <- OneBuy
  Threads = {t1}
  Horizon = 3
  Runs = 2
  Stops = 1
 
PROPERTY WatermarkAdvances
CHECK_DEADLOCK FALSE
