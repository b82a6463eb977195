CONSTANTS
  Threads = {t1, t2, t3}
  Watched = {t1}
  Items = {a, b}
  MaxSize = 2
  Programs = {{"put", "putUnconditional", "get", "peek"},
              {"put", "putUnconditional", "get", "reset"}}
  NULL = NULL
  DONE = DONE
SPECIFICATION FairSpec
INVARIANTS TypeOK NoneStranded
PROPERTIES RefinesQueue CallsReturn WaitersServed
