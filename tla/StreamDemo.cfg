\* The words and the slots of ring_buffer.cpp's main.
CONSTANTS
  producer = producer
  consumer = consumer
  Threads = {producer, consumer}
  Watched = {}
  Length = 8
  Items = {1, 2, 3, 4, 5, 6, 7, 8}
  MaxSize = 4
  Programs = {{"put", "putUnconditional", "get"}}
  NULL = NULL
  DONE = DONE
SPECIFICATION DemoSpec
INVARIANTS StreamIntact
PROPERTIES DemoEnds MessageArrives
