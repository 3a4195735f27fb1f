------------------------------- MODULE Prng -------------------------------
(***************************************************************************)
(* The random numbers of 3rdp/munit/munit.c: a state of one word that the  *)
(* threads of a test share without a lock.  A draw loads the state, works  *)
(* out its numbers and the next state on its own, and puts that in place   *)
(* with a compare-and-swap, or starts again.  Words have Width bits, as    *)
(* have ints, and wrap (32 in the code).                                   *)
(***************************************************************************)
EXTENDS Integers, Sequences, Bitwise

CONSTANTS
  Threads,
  Width,
  Seeds,       \* what munit_rand_seed may be called with
  Output,      \* munit_rand_from_state, a function of words
  Salts,       \* the salts at_most is called with
  MaxDrawn     \* bound on the words drawn

Words == 2 ^ Width

Word == 0..(Words - 1)

Int32 == -(Words \div 2)..(Words \div 2 - 1)

ASSUME WidthAssumption == Width \in Nat \ {0}
ASSUME OutputAssumption ==   \* its shifts, exclusive ors and odd factor keep
  /\ Output \in [Word -> Word]  \* words apart
  /\ Word = {Output[state] : state \in Word}
ASSUME WordsAssumption == Seeds \subseteq Word /\ Salts \subseteq Word

VARIABLES
  rand_state,  \* munit_rand_state
  draw,        \* the draw each thread is at
  drawn,       \* the states the numbers drawn were made of, in order
  crashed      \* a division by zero has ended the process

vars == <<rand_state, draw, drawn, crashed>>

(***************************************************************************)
(* munit_rand_next_state.  A faulty variant, not used, does not wrap.      *)
(***************************************************************************)
NoWrap(state) == state * (747796405 % Words) + (1729 % Words)

rand_next_state(state) ==
  (state * (747796405 % Words) + (1729 % Words)) % Words

(***************************************************************************)
(* The state after n numbers, and the states they are made of:             *)
(* munit_rand_state_uint32, n times.                                       *)
(***************************************************************************)
After(state, n) ==
  LET f[k \in 0..n] == IF k = 0 THEN state ELSE rand_next_state(f[k - 1])
  IN  f[n]

Consumed(state, n) == [k \in 1..n |-> After(state, k - 1)]

(***************************************************************************)
(* munit_rand_state_at_most: numbers are drawn until one is not below min; *)
(* how many, and the last one modulo the maximum plus one.  min is worked  *)
(* out before the maximum is increased: there is none for 0.               *)
(***************************************************************************)
Salted(state, salt) == Output[state] ^^ salt

MinOf(max) == ((Words - max) % Words) % max

Drawn(state, salt, max) ==
  CHOOSE n \in 1..Words :
    /\ Salted(After(state, n - 1), salt) >= MinOf(max)
    /\ \A k \in 1..(n - 1) : Salted(After(state, k - 1), salt) < MinOf(max)

state_at_most(state, salt, max) ==
  IF max = Words - 1
    THEN [n |-> 1, value |-> Salted(state, salt)]
    ELSE LET n == Drawn(state, salt, max)
         IN  [n |-> n,
              value |-> Salted(After(state, n - 1), salt) % (max + 1)]

(***************************************************************************)
(* munit_rand_int_range.  The range is taken in twice the width, and the   *)
(* sum wraps to an int.  A faulty variant, not used: the bounds are not    *)
(* exchanged.                                                              *)
(***************************************************************************)
Wide(i) == i % (Words * Words)

ToInt32(w) == LET v == w % Words IN IF v \in Int32 THEN v ELSE v - Words

RangeOf(min, max) ==
  LET range == (Wide(max) - Wide(min)) % (Words * Words)
  IN  IF range > Words - 1 THEN Words - 1 ELSE range

NotExchanged(i, j) == <<i, j>>

Ordered(i, j) == IF i > j THEN <<j, i>> ELSE <<i, j>>

(***************************************************************************)
(* What a thread asks for: words (munit_rand_uint32 and munit_rand_memory),*)
(* a number up to a maximum, an int between two bounds.  Its answer when   *)
(* the state is given: how many numbers it takes, and the value.           *)
(***************************************************************************)
Asked ==
  [words : 1..2] \cup [salt : Salts, max : Word] \cup [i : Int32, j : Int32]

Low(ask) == Ordered(ask.i, ask.j)[1]
High(ask) == Ordered(ask.i, ask.j)[2]

Maximum(ask) ==
  IF "max" \in DOMAIN ask THEN ask.max ELSE RangeOf(Low(ask), High(ask))

Answer(ask, state) ==
  CASE "words" \in DOMAIN ask -> [n |-> ask.words, value |-> Output[state]]
    [] "max" \in DOMAIN ask -> state_at_most(state, ask.salt, ask.max)
    [] "i" \in DOMAIN ask ->
         LET drew == state_at_most(state, 0, Maximum(ask))
         IN  [drew EXCEPT !.value = ToInt32(Low(ask) + @)]

-----------------------------------------------------------------------------
NoDraw == [at |-> "none"]

Init ==
  /\ \E seed \in Seeds :
       rand_state = rand_next_state((seed + 1729) % Words)
  /\ draw = [t \in Threads |-> NoDraw]
  /\ drawn = << >>
  /\ crashed = FALSE

Asks(t) ==
  /\ ~crashed /\ draw[t].at \in {"none", "done"}
  /\ \E ask \in Asked : draw' = [draw EXCEPT ![t] = [at |-> "asked", ask |-> ask]]
  /\ UNCHANGED <<rand_state, drawn, crashed>>

(***************************************************************************)
(* The load, and the numbers made of the state loaded.  A maximum of 0, or *)
(* equal bounds, divide by zero at line 971.                               *)
(***************************************************************************)
DividesByZero(ask) == "words" \notin DOMAIN ask /\ Maximum(ask) = 0

atomic_load(t) ==
  /\ ~crashed /\ draw[t].at = "asked"
  /\ LET ask == draw[t].ask
     IN  IF DividesByZero(ask)
           THEN crashed' = TRUE /\ UNCHANGED draw
           ELSE LET answer == Answer(ask, rand_state)
                IN  /\ Len(drawn) + answer.n <= MaxDrawn
                    /\ draw' = [draw EXCEPT ![t] =
                         [at |-> "loaded", ask |-> ask, old |-> rand_state,
                          n |-> answer.n, value |-> answer.value]]
                    /\ UNCHANGED crashed
  /\ UNCHANGED <<rand_state, drawn>>

(***************************************************************************)
(* munit_atomic_cas, atomic_compare_exchange_weak: it may fail although the*)
(* state is the one expected.  A faulty variant, not used, does not look.  *)
(***************************************************************************)
PutInPlace(t) ==
  /\ rand_state' = After(draw[t].old, draw[t].n)
  /\ drawn' = drawn \o Consumed(draw[t].old, draw[t].n)
  /\ draw' = [draw EXCEPT ![t] =
       [at |-> "done", ask |-> draw[t].ask, value |-> draw[t].value]]
  /\ UNCHANGED crashed

DoesNotLook(t) == ~crashed /\ draw[t].at = "loaded" /\ PutInPlace(t)

atomic_cas(t) ==
  /\ ~crashed /\ draw[t].at = "loaded"
  /\ \/ rand_state = draw[t].old /\ PutInPlace(t)
     \/ /\ draw' = [draw EXCEPT ![t] = [at |-> "asked", ask |-> draw[t].ask]]
        /\ UNCHANGED <<rand_state, drawn, crashed>>

Next == \E t \in Threads : Asks(t) \/ atomic_load(t) \/ atomic_cas(t)

Spec == Init /\ [][Next]_vars

-----------------------------------------------------------------------------
TypeOK ==
  /\ rand_state \in Word
  /\ drawn \in Seq(Word) /\ Len(drawn) <= MaxDrawn
  /\ \A t \in Threads : draw[t].at \in {"none", "asked", "loaded", "done"}
  /\ crashed \in BOOLEAN

(***************************************************************************)
(* The threads share one stream: no number is made of a state twice, none  *)
(* is left out, and the state is the one after the last.  A test that draws*)
(* from several threads draws, in some order, what one thread would.       *)
(***************************************************************************)
StreamIsKept ==
  /\ \A k \in 1..(Len(drawn) - 1) : drawn[k + 1] = rand_next_state(drawn[k])
  /\ drawn # << >> => rand_state = rand_next_state(drawn[Len(drawn)])

(***************************************************************************)
(* Every value is within the bounds asked for, whichever comes first, also *)
(* when they are so far apart that the sum wraps.                          *)
(***************************************************************************)
ResultsAreInRange ==
  \A t \in Threads :
    draw[t].at = "done" =>
      LET ask == draw[t].ask
      IN  CASE "words" \in DOMAIN ask -> draw[t].value \in Word
            [] "max" \in DOMAIN ask -> draw[t].value \in 0..ask.max
            [] "i" \in DOMAIN ask ->
                 IF ask.i < ask.j THEN draw[t].value \in ask.i..ask.j
                 ELSE draw[t].value \in ask.j..ask.i

=============================================================================
