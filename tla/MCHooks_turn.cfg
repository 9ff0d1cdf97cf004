SPECIFICATION FairSpec
CONSTANTS
  Threads = {t1, t2}
  Calls = {"read", "fetch", "write"}
  Allowed = {"read", "fetch"}
  Early = {"read"}
  Inside <- AllCallBack
  MaxCalls = 2
  MaxEarly = 2
  Nobody = Nobody
INVARIANTS UnsafeOneAtATime ReadyIsFresh TakenOnce DeniedWait
 
CHECK_DEADLOCK FALSE
