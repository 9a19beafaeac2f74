\* One lock, three processors, two polling threads, two pool threads.
CONSTANTS
  p1 = p1
  p2 = p2
  p3 = p3
  h1 = h1
  h2 = h2
  t1 = t1
  t2 = t2
  k1 = k1
  none = none
  Proc = {p1, p2, p3}
  Home = p1
  Handler = {h1, h2}
  Thread = {t1, t2}
  None = none
  Lock = {k1}
  Job <- AllJobs
SPECIFICATION Spec
SYMMETRY Symmetry
INVARIANTS TypeOK HslsExact TypeNamesMode HandlerNeverStuck
INVARIANTS JobsExact ListedIdle NoLostWakeup
PROPERTIES ReaderWriterLock
