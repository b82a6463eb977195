---------------------------- MODULE RingBufferCpp ----------------------------
(***************************************************************************)
(* The C++ ring buffer (modules/ring_buffer/CPP/ring_buffer.h): an array   *)
(* with two indices and a flag under one mutex, and two condition          *)
(* variables that put, get and peek wait on for a limited time.            *)
(*                                                                         *)
(* A method holds the mutex from its first line to its last, except while  *)
(* it waits, so every stretch between two waits is one step.  wait_for     *)
(* with a predicate is the loop `while (!pred()) wait': a thread that is   *)
(* woken looks again, and one whose time is over looks a last time.        *)
(* Spurious wake-ups happen, and a notification goes to any waiter.        *)
(***************************************************************************)
EXTENDS Integers, Sequences, FiniteSets

CONSTANTS
  Threads,   \* the threads that share the buffer
  Items,     \* what they put into it
  MaxSize,   \* max_size
  Programs,  \* the sets of methods that a program may call
  Watched,   \* the threads liveness is checked of; all behave alike
  NULL,      \* nullopt, and what the array holds at first
  DONE       \* what put returns when it has put, and the void methods

Blocking == {"put", "get", "peek"}

ASSUME ThreadsAssumption == IsFiniteSet(Threads) /\ Watched \subseteq Threads
ASSUME SizeAssumption == MaxSize \in Nat \ {0}
ASSUME ProgramsAssumption ==
  Programs \subseteq SUBSET (Blocking \cup {"putUnconditional", "reset"})
ASSUME ItemsAssumption == NULL \notin Items /\ DONE \notin Items \cup {NULL}

VARIABLES
  buf, adder, remover, full,  \* the fields of RingBuffer
  phase,    \* phase[t]: idle, waiting, woken, or expired when time is over
  op,       \* op[t]: the method t has called
  item,     \* item[t]: the argument of put
  ended,    \* history: the last call to end, its method and argument
  returned, \* what the last call to end has returned
  methods,  \* the methods this program calls
  expiring  \* FALSE if the timeout is longer than the program runs

ring == <<buf, adder, remover, full>>
calls == <<phase, op, item, ended, returned>>
program == <<methods, expiring>>
vars == <<ring, calls, program>>

Slots == 0 .. MaxSize - 1
FollowingUnbounded(index) == index + 1
Following(index) == (index + 1) % MaxSize
isEmpty == adder = remover /\ ~full
getSize ==
  IF full THEN MaxSize
  ELSE IF adder >= remover THEN adder - remover ELSE adder - remover + MaxSize

Init ==
  /\ buf = [s \in Slots |-> NULL]
  /\ adder = 0 /\ remover = 0 /\ full = FALSE
  /\ phase = [t \in Threads |-> "idle"]
  /\ op = [t \in Threads |-> "none"]
  /\ item = [t \in Threads |-> NULL]
  /\ ended = <<"none", NULL>> /\ returned = NULL
  /\ methods \in Programs /\ expiring \in BOOLEAN

-----------------------------------------------------------------------------
(* Waiting and waking.                                                     *)

Predicate(method) == IF method = "put" THEN ~full ELSE ~isEmpty

not_full == {t \in Threads : op[t] = "put"}
not_empty == {t \in Threads : op[t] \in {"get", "peek"}}

Waiting(cv) == {t \in cv : phase[t] = "waiting"}
Awake(cv) == {t \in cv : phase[t] \in {"woken", "expired"}}

(* The sets of threads a notification may wake.                            *)
notify_one(cv) == IF Waiting(cv) = {} THEN {{}} ELSE {{t} : t \in Waiting(cv)}
notify_all(cv) == {Waiting(cv)}

(* Thread t has the mutex in a call of `method': it has just made the      *)
(* call, or it was woken in it.                                            *)
Holds(t, method, v) ==
  \/ phase[t] = "idle" /\ method \in methods
  \/ phase[t] \in {"woken", "expired"} /\ op[t] = method /\ item[t] = v

(* The call of `method' ends, and some threads of `notified' are woken.    *)
Return(t, method, v, value, notified) ==
  /\ \E woken \in notified :
       phase' = [s \in Threads |-> IF s = t THEN "idle"
                                   ELSE IF s \in woken THEN "woken" ELSE phase[s]]
  /\ op' = [op EXCEPT ![t] = "none"]
  /\ item' = [item EXCEPT ![t] = NULL]
  /\ ended' = <<method, v>> /\ returned' = value
  /\ UNCHANGED program

Wait(t, method, v) ==
  /\ Holds(t, method, v) /\ phase[t] # "expired"
  /\ ~Predicate(method)
  /\ phase' = [phase EXCEPT ![t] = "waiting"]
  /\ op' = [op EXCEPT ![t] = method]
  /\ item' = [item EXCEPT ![t] = v]
  /\ UNCHANGED <<ring, ended, returned, program>>

GiveUpWaitingAgain(t, method, v) ==
  /\ Holds(t, method, v) /\ phase[t] = "expired"
  /\ ~Predicate(method)
  /\ phase' = [phase EXCEPT ![t] = "waiting"]
  /\ UNCHANGED <<ring, op, item, ended, returned, program>>

GiveUp(t, method, v) ==
  /\ Holds(t, method, v) /\ phase[t] = "expired"
  /\ ~Predicate(method)
  /\ Return(t, method, v, NULL, {{}})
  /\ UNCHANGED ring

(* Time may be over before a thread that was woken gets the mutex back.    *)
Expire(t) ==
  /\ expiring /\ phase[t] \in {"waiting", "woken"}
  /\ phase' = [phase EXCEPT ![t] = "expired"]
  /\ UNCHANGED <<ring, op, item, ended, returned, program>>

WakeSpuriously(t) ==
  /\ phase[t] = "waiting"
  /\ phase' = [phase EXCEPT ![t] = "woken"]
  /\ UNCHANGED <<ring, op, item, ended, returned, program>>

-----------------------------------------------------------------------------
(* The methods, from the point where they have the mutex and their         *)
(* predicate holds.                                                        *)

Add(v) ==
  /\ buf' = [buf EXCEPT ![adder] = v]
  /\ adder' = Following(adder)

putUnnotified(t, v) ==
  /\ Holds(t, "put", v) /\ Predicate("put")
  /\ Add(v)
  /\ full' = (Following(adder) = remover)
  /\ UNCHANGED remover
  /\ Return(t, "put", v, DONE, {{}})

put(t, v) ==
  /\ Holds(t, "put", v) /\ Predicate("put")
  /\ Add(v)
  /\ full' = (Following(adder) = remover)
  /\ UNCHANGED remover
  /\ Return(t, "put", v, DONE, notify_one(not_empty))

putUnconditionalKeepingRemover(t, v) ==
  /\ Holds(t, "putUnconditional", v)
  /\ Add(v)
  /\ full' = (Following(adder) = remover)
  /\ UNCHANGED remover
  /\ Return(t, "putUnconditional", v, DONE, notify_one(not_empty))

putUnconditional(t, v) ==
  /\ Holds(t, "putUnconditional", v)
  /\ Add(v)
  /\ remover' = IF full THEN Following(remover) ELSE remover
  /\ full' = (Following(adder) = remover')
  /\ Return(t, "putUnconditional", v, DONE, notify_one(not_empty))

getUnnotified(t) ==
  /\ Holds(t, "get", NULL) /\ Predicate("get")
  /\ remover' = Following(remover)
  /\ full' = FALSE
  /\ UNCHANGED <<buf, adder>>
  /\ Return(t, "get", NULL, buf[remover], {{}})

get(t) ==
  /\ Holds(t, "get", NULL) /\ Predicate("get")
  /\ remover' = Following(remover)
  /\ full' = FALSE
  /\ UNCHANGED <<buf, adder>>
  /\ Return(t, "get", NULL, buf[remover], notify_one(not_full))

peek(t) ==
  /\ Holds(t, "peek", NULL) /\ Predicate("peek")
  /\ Return(t, "peek", NULL, buf[remover], {{}})
  /\ UNCHANGED ring

resetKeepingFull(t) ==
  /\ Holds(t, "reset", NULL)
  /\ adder' = 0 /\ remover' = 0
  /\ UNCHANGED <<buf, full>>
  /\ Return(t, "reset", NULL, DONE, notify_all(not_empty))

reset(t) ==
  /\ Holds(t, "reset", NULL)
  /\ adder' = 0 /\ remover' = 0 /\ full' = FALSE
  /\ UNCHANGED buf
  /\ Return(t, "reset", NULL, DONE, notify_all(not_empty))

Block(t, method, v) == Wait(t, method, v) \/ GiveUp(t, method, v)

Step(t) ==
  \/ \E v \in Items : put(t, v) \/ Block(t, "put", v) \/ putUnconditional(t, v)
  \/ get(t) \/ peek(t) \/ reset(t)
  \/ \E method \in {"get", "peek"} : Block(t, method, NULL)

Next == \E t \in Threads : Step(t) \/ Expire(t) \/ WakeSpuriously(t)

Spec == Init /\ [][Next]_vars

(* A thread that was woken gets the mutex at some time; nobody has to make *)
(* a call.                                                                 *)
Resume(t) == phase[t] \in {"woken", "expired"} /\ Step(t)
FairSpec == Spec /\ \A t \in Threads : WF_vars(Resume(t)) /\ WF_vars(Expire(t))

-----------------------------------------------------------------------------
EndedCalls ==
  {"put", "putUnconditional"} \X Items \cup {"none", "get", "peek", "reset"} \X {NULL}

TypeOK ==
  /\ buf \in [Slots -> Items \cup {NULL}]
  /\ adder \in Slots /\ remover \in Slots /\ full \in BOOLEAN
  /\ phase \in [Threads -> {"idle", "waiting", "woken", "expired"}]
  /\ op \in [Threads -> Blocking \cup {"none"}]
  /\ item \in [Threads -> Items \cup {NULL}]
  /\ ended \in EndedCalls
  /\ returned \in Items \cup {NULL, DONE}
  /\ full => adder = remover
  /\ methods \in Programs /\ expiring \in BOOLEAN

(* No notification is lost.  While gets wait, every item in the buffer has *)
(* a thread of its own on the way to it, so that a get nobody wakes is one *)
(* there is no item for; and while puts wait, so has every free slot.  The *)
(* first needs a program without peek, which takes a notification and      *)
(* leaves the item; the second one without reset, which makes room and     *)
(* notifies only those who wait for items (ring_buffer.h:118).             *)
NoGetStranded ==
  Waiting(not_empty) # {} => getSize <= Cardinality(Awake(not_empty))
NoPutStranded ==
  Waiting(not_full) # {} => MaxSize - getSize <= Cardinality(Awake(not_full))
NoneStranded ==
  /\ "peek" \notin methods => NoGetStranded
  /\ "reset" \notin methods => NoPutStranded

(* With a timeout every call of put, get and peek returns.                 *)
CallsReturn == \A t \in Watched : (expiring /\ phase[t] # "idle") ~> phase[t] = "idle"

(* Whatever the timeout, the notifications alone are enough: a get ends    *)
(* unless the buffer runs empty, again and again, and a put unless it      *)
(* fills up.                                                               *)
WaitersServed ==
  \A t \in Watched :
    /\ ("peek" \notin methods /\ op[t] = "get" /\ ~isEmpty) ~> (phase[t] = "idle" \/ isEmpty)
    /\ ("reset" \notin methods /\ op[t] = "put" /\ ~full) ~> (phase[t] = "idle" \/ full)

(* The array is a queue: see TimedQueue.                                   *)
Queue == INSTANCE TimedQueue WITH
  queue <- [k \in 1 .. getSize |-> buf[(remover + k - 1) % MaxSize]]
RefinesQueue == Queue!Spec

-----------------------------------------------------------------------------
(* ring_buffer.h:196, "waits buffer to be not empty for specified time":   *)
(* no get waits on while an item lies there and nobody is on the way to    *)
(* it, whatever the program calls.                                         *)
GetWaitsForItem == NoGetStranded
=============================================================================
