------------------------------ MODULE StreamDemo ------------------------------
(***************************************************************************)
(* The demo of the C++ ring buffer (modules/ring_buffer/CPP): a producer   *)
(* streams a message, word by word, to a consumer that makes one get for   *)
(* every word.  Both ignore whether the call gave up: the producer goes on *)
(* with the next word, the consumer counts the turn.  Words are numbered.  *)
(* Fast and slow producers and consumers differ in their sleeps only, that *)
(* is, in nothing but the order of steps.                                  *)
(***************************************************************************)
EXTENDS RingBufferCpp, SequencesExt

CONSTANTS producer, consumer,
          Length  \* message.size()

ASSUME DemoAssumption ==
  {producer, consumer} \subseteq Threads /\ Length \in Nat /\ 1 .. Length \subseteq Items

VARIABLES
  overwriting,  \* TRUE for the producers that use putUnconditional
  sent,         \* how many words the producer is done with
  turns,        \* how many turns the consumer is done with
  received,     \* the words the consumer has got
  dropped       \* words whose put gave up, and words that were overwritten

demoVars == <<vars, overwriting, sent, turns, received, dropped>>

DemoInit ==
  /\ Init /\ {"put", "putUnconditional", "get"} \subseteq methods
  /\ overwriting \in BOOLEAN
  /\ sent = 0 /\ turns = 0 /\ received = <<>> /\ dropped = {}

Ended(t) == phase'[t] = "idle"

Offer ==
  /\ ~overwriting
  /\ put(producer, sent + 1) \/ Block(producer, "put", sent + 1)
  /\ dropped' = IF Ended(producer) /\ returned' = NULL
                THEN dropped \cup {sent + 1} ELSE dropped

Overwrite ==
  /\ overwriting
  /\ putUnconditional(producer, sent + 1)
  /\ dropped' = IF full THEN dropped \cup {buf[remover]} ELSE dropped

Producer ==
  /\ sent < Length
  /\ Offer \/ Overwrite
  /\ sent' = IF Ended(producer) THEN sent + 1 ELSE sent
  /\ UNCHANGED <<overwriting, turns, received>>

ConsumerCountingWords ==
  /\ turns < Length
  /\ get(consumer) \/ Block(consumer, "get", NULL)
  /\ received' = IF Ended(consumer) /\ returned' # NULL
                 THEN Append(received, returned') ELSE received
  /\ turns' = Len(received')
  /\ UNCHANGED <<overwriting, sent, dropped>>

Consumer ==
  /\ turns < Length
  /\ get(consumer) \/ Block(consumer, "get", NULL)
  /\ turns' = IF Ended(consumer) THEN turns + 1 ELSE turns
  /\ received' = IF Ended(consumer) /\ returned' # NULL
                 THEN Append(received, returned') ELSE received
  /\ UNCHANGED <<overwriting, sent, dropped>>

(* main joins both threads and returns.                                    *)
Joined == sent = Length /\ turns = Length
main == Joined /\ UNCHANGED demoVars

Elapse(t) ==
  /\ Expire(t) \/ WakeSpuriously(t)
  /\ UNCHANGED <<overwriting, sent, turns, received, dropped>>

DemoNext == Producer \/ Consumer \/ main \/ \E t \in Threads : Elapse(t)

DemoSpec ==
  /\ DemoInit /\ [][DemoNext]_demoVars
  /\ WF_demoVars(Producer) /\ WF_demoVars(Consumer)
  /\ \A t \in Threads : WF_demoVars(Elapse(t) /\ Expire(t))

-----------------------------------------------------------------------------
(* The consumer gets the words in order and each at most once, and a word  *)
(* is missing only if its put gave up or it was the oldest when room was   *)
(* needed; the words not received yet are in the buffer.                   *)
Increasing(q) == \A k, l \in DOMAIN q : k < l => q[k] < q[l]
StreamIntact ==
  LET words == received \o [k \in 1 .. getSize |-> buf[(remover + k - 1) % MaxSize]]
  IN Increasing(words) /\ ToSet(words) = (1 .. sent) \ dropped

(* main gets past both joins: with timeouts in any case, without them if   *)
(* no word is overwritten, for then there is a word for every get.         *)
DemoEnds == expiring \/ ~overwriting ~> Joined

(* The whole message arrives if nothing times out and nothing is           *)
(* overwritten.                                                            *)
MessageArrives ==
  (~expiring /\ ~overwriting) ~> received = [k \in 1 .. Length |-> k]

=============================================================================
