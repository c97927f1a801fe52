-------------------------------- MODULE Prng --------------------------------
(***************************************************************************)
(* The generator behind the shuffle and TEST_PROPERTY in src/src/runner.c, *)
(* and the seeds it is given.                                              *)
(***************************************************************************)
EXTENDS Xorshift

VARIABLES
    rand_state,
    shuffle_seed,
    drawn,      \* history: the states since the generator was in start
    start       \* history: the state after the last seeding

prng == <<rand_state, shuffle_seed, drawn, start>>

PrngInit ==
    /\ rand_state = Default /\ shuffle_seed = {}
    /\ drawn = {Default} /\ start = Default

\* ceedless_rand_u32 returns the state it leaves.
RandU32 ==
    /\ rand_state' = Scrambled(IF rand_state = {} THEN Fallback ELSE rand_state)
    /\ drawn' = IF rand_state' = start THEN {start} ELSE drawn \cup {rand_state'}
    /\ UNCHANGED <<shuffle_seed, start>>

\* ceedless_rand_seed.
RandSeed(s) ==
    /\ rand_state' = Seeded(s)
    /\ start' = rand_state' /\ drawn' = {rand_state'}
    /\ UNCHANGED shuffle_seed

\* ceedless_set_shuffle_seed: without a seed the generator goes on.
SetShuffleSeed(s) ==
    /\ shuffle_seed' = s
    /\ IF s = {} THEN UNCHANGED <<rand_state, drawn, start>>
       ELSE /\ rand_state' = Seeded(s)
            /\ start' = rand_state' /\ drawn' = {rand_state'}

PrngNext == RandU32 \/ \E s \in Seeds : RandSeed(s) \/ SetShuffleSeed(s)

PrngSpec == PrngInit /\ [][PrngNext]_prng
-----------------------------------------------------------------------------
\* Whatever the seed, the generator is never in the state 0, from which xorshift
\* would not come back: no draw is 0 and the fallback in ceedless_rand_u32 is
\* never needed.
NeverZero == rand_state # {} /\ {} \notin drawn

\* After a seeding no draw comes again before the generator is back in the state
\* of the seeding: it never falls into a shorter cycle that the seed is not on.
DrawsDoNotRepeat ==
    [][RandU32 => (rand_state' \in drawn => rand_state' = start)]_prng
=============================================================================
