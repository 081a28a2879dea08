------------------------------ MODULE CLRandom ------------------------------
(***************************************************************************)
(* The random-number pool of src/lib/clplumbing/cl_random.c.               *)
(*                                                                         *)
(* A ring of MAXRAND slots with the indices first and last.                *)
(* get_next_random hands out randomness[first], or calls rand() directly   *)
(* when the ring is empty. add_a_random, a Gmain timeout source that       *)
(* fires every 10 ms while it exists, refills it. The source is removed    *)
(* when add_a_random returns FALSE. get_more_random schedules the source   *)
(* only if randgen_scheduled is FALSE.                                     *)
(*                                                                         *)
(* Values are the ordinal numbers of rand() calls. The first MaxDraws      *)
(* calls are told apart; later calls all yield Late. A slot that was never *)
(* written holds 0, the initial value of the static array.                 *)
(***************************************************************************)
EXTENDS Naturals, Sequences

CONSTANTS
  MAXRAND,      \* number of slots (100 in the code)
  MaxDraws,     \* rand() calls that are told apart
  MaxGets,      \* calls of get_next_random explored
  LoopRunning,  \* the answer of g_main_loop_is_running(NULL) in this build
  Late          \* the value of every rand() call after the MaxDraws-th

ASSUME MAXRAND \in Nat \ {0}
ASSUME MaxDraws \in Nat /\ MaxGets \in Nat
ASSUME LoopRunning \in BOOLEAN

VARIABLES
  first,        \* static int first
  last,         \* static int last
  randomness,   \* static rand_t randomness[MAXRAND]
  scheduled,    \* static gboolean randgen_scheduled
  inityet,      \* static gboolean inityet
  source,       \* the add_a_random timeout source exists
  drawn,        \* rand() calls so far, saturating at MaxDraws
  returned      \* history: the values get_next_random returned, in order

vars == <<first, last, randomness, scheduled, inityet, source, drawn, returned>>

Slots == 0 .. MAXRAND - 1
Values == {0} \cup (1 .. MaxDraws) \cup {Late}

(* The value of the next rand() call, and the counter after it.            *)
NextDraw == IF drawn < MaxDraws THEN drawn + 1 ELSE Late
Drawn1 == IF drawn < MaxDraws THEN drawn + 1 ELSE drawn

(* NUMRNUMS, IS_QUEUEFULL and IS_QUEUEEMPTY for given indices.             *)
NumRNums(f, l) == IF f <= l THEN l - f ELSE (MAXRAND - f) + (l + 1)
IsQueueFull(f, l) == NumRNums(f, l) = MAXRAND
IsQueueEmpty(f, l) == f = l

(* Mutant of Succ: the wrap test one slot late.                            *)
SuccOffByOne(i) == IF i + 1 > MAXRAND THEN 0 ELSE i + 1

(* ++i; if (i >= MAXRAND) i = 0;                                           *)
Succ(i) == IF i + 1 >= MAXRAND THEN 0 ELSE i + 1

(* get_more_random with the indices it sees: schedules the refill source   *)
(* unless one was scheduled before or the ring is full.                    *)
GetMoreRandom(f, l) ==
  IF ~scheduled /\ ~IsQueueFull(f, l) /\ LoopRunning
  THEN /\ scheduled' = TRUE
       /\ source' = TRUE
  ELSE UNCHANGED <<scheduled, source>>

Init ==
  /\ first = 0
  /\ last = 0
  /\ randomness = [i \in Slots |-> 0]
  /\ scheduled = FALSE
  /\ inityet = FALSE
  /\ source = FALSE
  /\ drawn = 0
  /\ returned = <<>>

(* get_next_random on an empty ring: gen_a_random, which runs              *)
(* cl_init_random on the first call (srand, first = last = 0 and           *)
(* get_more_random), then get_more_random.                                 *)
GetDirect ==
  /\ Len(returned) < MaxGets
  /\ IsQueueEmpty(first, last)
  /\ inityet' = TRUE
  /\ first' = IF inityet THEN first ELSE 0
  /\ last' = IF inityet THEN last ELSE 0
  /\ drawn' = Drawn1
  /\ returned' = Append(returned, NextDraw)
  /\ GetMoreRandom(first', last')
  /\ UNCHANGED randomness

(* Mutant of GetFromPool: the read index is not advanced.                  *)
GetFromPoolNoAdvance ==
  /\ Len(returned) < MaxGets
  /\ ~IsQueueEmpty(first, last)
  /\ returned' = Append(returned, randomness[first])
  /\ GetMoreRandom(first, last)
  /\ UNCHANGED <<first, last, randomness, inityet, drawn>>

(* get_next_random on a non-empty ring: ret = randomness[first], ++first,  *)
(* then get_more_random.                                                   *)
GetFromPool ==
  /\ Len(returned) < MaxGets
  /\ ~IsQueueEmpty(first, last)
  /\ first' = Succ(first)
  /\ returned' = Append(returned, randomness[first])
  /\ GetMoreRandom(first', last)
  /\ UNCHANGED <<last, randomness, inityet, drawn>>

(* add_a_random: ++last, randomness[last] = gen_a_random(), and the        *)
(* source stays only while the ring is not full. Its early return on a     *)
(* full ring is unreachable: the source is added only when the ring is not *)
(* full and removes itself as soon as it fills it.                         *)
RefillAdd ==
  /\ source
  /\ ~IsQueueFull(first, last)
  /\ last' = Succ(last)
  /\ randomness' = [randomness EXCEPT ![Succ(last)] = NextDraw]
  /\ drawn' = Drawn1
  /\ source' = ~IsQueueFull(first, last')
  /\ UNCHANGED <<first, scheduled, inityet, returned>>

Next ==
  \/ GetDirect
  \/ GetFromPool
  \/ RefillAdd

(* The Gmain timeout source fires every 10 ms for as long as it exists;    *)
(* callers of get_next_random are under no obligation to call it.          *)
Spec == Init /\ [][Next]_vars /\ WF_vars(RefillAdd)

-----------------------------------------------------------------------------

TypeOK ==
  /\ first \in Slots /\ last \in Slots
  /\ randomness \in [Slots -> Values]
  /\ scheduled \in BOOLEAN /\ inityet \in BOOLEAN /\ source \in BOOLEAN
  /\ drawn \in 0 .. MaxDraws
  /\ returned \in Seq(Values)

(* get_next_random never hands out the same rand() result twice, though    *)
(* add_a_random keeps writing slots while the reader's index moves and     *)
(* the full test of NUMRNUMS decides when the writer stops.                *)
NoRepeat ==
  \A i, j \in DOMAIN returned :
    i # j /\ returned[i] # Late => returned[i] # returned[j]

(* Every number get_next_random returns came from rand(): the reader never *)
(* hands out a slot that add_a_random has not written.                     *)
PoolValuesDrawn == \A i \in DOMAIN returned : returned[i] # 0

=============================================================================
