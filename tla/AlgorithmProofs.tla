-------------------------- MODULE AlgorithmProofs --------------------------
(***************************************************************************)
(* What the golden files, the random numbers, the assertions, project.yml  *)
(* and the discovery of tests promise, for every size, width and input.    *)
(***************************************************************************)
EXTENDS Algorithms, SequenceTheorems, FiniteSetTheorems, WellFoundedInduction, TLAPS

(***************************************************************************)
(* Golden files.                                                           *)
(***************************************************************************)
\* The chunk that holds byte k.
LEMMA ChunkOf ==
    ASSUME NEW k \in Nat, k > 0
    PROVE  \E off \in Nat : off % CHUNK = 0 /\ off < k /\ k <= off + CHUNK
<1> DEFINE j == k - 1
           q == j \div CHUNK
           r == j % CHUNK
<1>1. j \in Nat /\ CHUNK \in Nat /\ CHUNK > 0
  BY GoldenAssumption
<1>2. q \in Nat /\ r \in 0 .. CHUNK - 1 /\ j = CHUNK * q + r
  BY <1>1
<1>3. (CHUNK * q) % CHUNK = 0 /\ CHUNK * q \in Nat
  BY <1>1, <1>2
<1>4. CHUNK * q < k /\ k <= CHUNK * q + CHUNK
  BY <1>1, <1>2, <1>3
<1> QED
  BY <1>3, <1>4

\* Comparing sizes and then chunks is comparing whole sequences.
LEMMA SameIsEqual ==
    ASSUME NEW a \in Seq(Nat), NEW b \in Seq(Nat)
    PROVE  Same(a, b) <=> a = b
<1>1. CHUNK \in Nat /\ CHUNK > 0 /\ Len(a) \in Nat /\ Len(b) \in Nat
  BY GoldenAssumption
<1>2. ASSUME Same(a, b) PROVE a = b
  <2>1. Len(a) = Len(b)
    BY <1>2 DEF Same
  <2>2. ASSUME NEW k \in 1 .. Len(b) PROVE a[k] = b[k]
    <3>1. PICK off \in Nat : off % CHUNK = 0 /\ off < k /\ k <= off + CHUNK
      BY ChunkOf
    <3>2. off \in Offsets(Len(b)) /\ k \in off + 1 .. off + CHUNK /\ k <= Len(b)
      BY <1>1, <3>1 DEF Offsets
    <3> QED
      BY <1>2, <3>2 DEF Same
  <2> QED
    BY <2>1, <2>2
<1>3. ASSUME a = b PROVE Same(a, b)
  BY <1>3 DEF Same
<1> QED
  BY <1>2, <1>3

\* A beginning of a sequence of bytes is one too, and the whole of it is itself.
LEMMA PrefixOf ==
    ASSUME NEW s \in Seq(Nat), NEW k \in 0 .. Len(s)
    PROVE  /\ Prefix(s, k) \in Seq(Nat) /\ Len(Prefix(s, k)) = k
           /\ k = Len(s) => Prefix(s, k) = s
<1>1. Len(s) \in Nat /\ k \in Nat
  OBVIOUS
<1>2. SubSeq(s, 1, k) \in Seq(Nat) /\ Len(SubSeq(s, 1, k)) = k
  BY <1>1, SubSeqProperties
<1>3. ASSUME k = Len(s) PROVE SubSeq(s, 1, k) = s
  BY <1>1, <1>3
<1> QED
  BY <1>2, <1>3 DEF Prefix
-----------------------------------------------------------------------------
\* The types of the variables.
Types ==
    /\ disk \in [Files -> Seq(Nat) \cup {None}]
    /\ meant \in [Files -> Outputs \cup {None}]
    /\ writer \in [Files -> Labels \cup {None}]
    /\ whole \in [Files -> BOOLEAN]
    /\ verdict \in {"none", "captured", "crashed", "same", "failed"}

\* A file is a beginning of what its last capture meant to write.
Cut ==
    \A f \in Files : disk[f] # None =>
      /\ meant[f] \in Outputs
      /\ \E k \in 0 .. Len(meant[f]) : disk[f] = Prefix(meant[f], k)
      /\ whole[f] => disk[f] = meant[f]

GoldenInv == Types /\ Cut

\* Before any check there is no file.
LEMMA InitGolden == GoldenInit => GoldenInv
BY DEF GoldenInit, GoldenInv, Types, Cut

\* A capture, short or not, leaves a beginning of its output.
LEMMA CaptureKeepsInv ==
    ASSUME NEW l \in Labels, NEW out \in Outputs, NEW update \in BOOLEAN,
           NEW k \in 0 .. Len(out), GoldenInv, Capture(l, out, update, k)
    PROVE  GoldenInv'
<1> DEFINE f == File(l)
<1>1. f \in Files
  BY DEF Files
<1>2. out \in Seq(Nat) /\ Prefix(out, k) \in Seq(Nat)
      /\ (k = Len(out) => Prefix(out, k) = out)
  BY GoldenAssumption, PrefixOf
<1>3. /\ disk' = [disk EXCEPT ![f] = Prefix(out, k)]
      /\ meant' = [meant EXCEPT ![f] = out]
      /\ writer' = [writer EXCEPT ![f] = l]
      /\ whole' = [whole EXCEPT ![f] = (k = Len(out))]
      /\ verdict' \in {"captured", "crashed"}
  BY DEF Capture, Writes
<1> HIDE DEF f
<1>4. Types'
  <2>1. (k = Len(out)) \in BOOLEAN
    OBVIOUS
  <2> QED
    BY <1>1, <1>2, <1>3, <2>1 DEF GoldenInv, Types
<1>5. Cut'
  <2> SUFFICES ASSUME NEW g \in Files, disk'[g] # None
               PROVE  /\ meant'[g] \in Outputs
                      /\ \E j \in 0 .. Len(meant'[g]) : disk'[g] = Prefix(meant'[g], j)
                      /\ whole'[g] => disk'[g] = meant'[g]
    BY DEF Cut, Prefix
  <2>1. CASE g = f
    <3>1. disk'[g] = Prefix(out, k) /\ meant'[g] = out /\ whole'[g] = (k = Len(out))
      BY <1>1, <1>3, <2>1 DEF GoldenInv, Types
    <3> QED
      BY <1>2, <3>1
  <2>2. CASE g # f
    <3>1. disk'[g] = disk[g] /\ meant'[g] = meant[g] /\ whole'[g] = whole[g]
      BY <1>1, <1>3, <2>2 DEF GoldenInv, Types
    <3> QED
      BY <3>1 DEF GoldenInv, Cut
  <2> QED
    BY <2>1, <2>2
<1> QED
  BY <1>4, <1>5 DEF GoldenInv

\* Nothing else writes into a file; a deleted one promises nothing.
LEMMA OthersKeepInv ==
    ASSUME GoldenInv,
           \/ \E l \in Labels, out \in Outputs, update \in BOOLEAN :
                CannotCapture(l, update) \/ Compare(l, out, update)
           \/ \E f \in Files : Delete(f)
           \/ UNCHANGED golden
    PROVE  GoldenInv'
<1>1. ASSUME UNCHANGED <<disk, meant, writer, whole>>,
             verdict' \in {"none", "captured", "crashed", "same", "failed"}
      PROVE  GoldenInv'
  BY <1>1 DEF GoldenInv, Types, Cut, Prefix
<1>2. ASSUME NEW l \in Labels, NEW out \in Outputs, NEW update \in BOOLEAN,
             CannotCapture(l, update) \/ Compare(l, out, update)
      PROVE  GoldenInv'
  BY <1>1, <1>2 DEF CannotCapture, Compare
<1>3. ASSUME NEW f \in Files, Delete(f)
      PROVE  GoldenInv'
  <2>1. /\ disk' = [disk EXCEPT ![f] = None] /\ verdict' = "none"
        /\ meant' = meant /\ writer' = writer /\ whole' = whole
    BY <1>3 DEF Delete
  <2>2. Types'
    BY <2>1 DEF GoldenInv, Types
  <2>3. \A g \in Files : disk'[g] = disk[g] \/ disk'[g] = None
    BY <2>1 DEF GoldenInv, Types
  <2>4. Cut'
    BY <2>1, <2>3 DEF GoldenInv, Cut, Prefix
  <2> QED
    BY <2>2, <2>4 DEF GoldenInv
<1>4. CASE UNCHANGED golden
  BY <1>1, <1>4 DEF golden, GoldenInv, Types
<1> QED
  BY <1>2, <1>3, <1>4

\* Every step keeps the invariant.
LEMMA GoldenKept == GoldenInv /\ [GoldenNext]_golden => GoldenInv'
<1> SUFFICES ASSUME GoldenInv, [GoldenNext]_golden PROVE GoldenInv'
  OBVIOUS
<1>1. ASSUME NEW l \in Labels, NEW out \in Outputs, NEW update \in BOOLEAN,
             NEW k \in 0 .. Len(out), Capture(l, out, update, k)
      PROVE  GoldenInv'
  BY <1>1, CaptureKeepsInv
<1> QED
  BY <1>1, OthersKeepInv DEF GoldenNext
-----------------------------------------------------------------------------
\* Every file is a beginning of what the last capture into it was to write,
\* and all of it where that capture was written whole.
THEOREM CapturesHold == GoldenSpec => []FilesAreCaptures
<1>1. GoldenInv => FilesAreCaptures
  BY DEF GoldenInv, Types, Cut, FilesAreCaptures
<1> QED
  BY InitGolden, GoldenKept, <1>1, PTL DEF GoldenSpec

\* What one comparison says of the output it was given.
LEMMA ComparisonHolds ==
    ASSUME GoldenInv, NEW l \in Labels, NEW out \in Outputs, Compare(l, out, FALSE)
    PROVE  LET f == File(l)
           IN  /\ verdict' = "same" =>
                    Len(out) <= Len(meant[f]) /\ out = Prefix(meant[f], Len(out))
               /\ whole[f] /\ writer[f] = l =>
                    (verdict' = "same" <=> out = meant[f])
<1> DEFINE f == File(l)
<1>1. f \in Files
  BY DEF Files
<1>2. disk[f] # None /\ verdict' = IF Same(disk[f], out) THEN "same" ELSE "failed"
  BY DEF Compare, Captures
<1>3. disk[f] \in Seq(Nat) /\ out \in Seq(Nat) /\ meant[f] \in Seq(Nat)
  BY <1>1, <1>2, GoldenAssumption DEF GoldenInv, Types, Cut
<1>4. verdict' = "same" <=> disk[f] = out
  BY <1>2, <1>3, SameIsEqual
<1>5. PICK k \in 0 .. Len(meant[f]) : disk[f] = Prefix(meant[f], k)
  BY <1>1, <1>2 DEF GoldenInv, Cut
<1>6. Len(Prefix(meant[f], k)) = k
  BY <1>3, PrefixOf
<1>7. Len(disk[f]) = k /\ k <= Len(meant[f])
  BY <1>3, <1>5, <1>6
<1>8. whole[f] => disk[f] = meant[f]
  BY <1>1, <1>2 DEF GoldenInv, Cut
<1> QED
  BY <1>4, <1>5, <1>7, <1>8

\* A comparison accepts exactly what was captured, whatever the chunk size: the
\* first, the last and the partial chunks included.
THEOREM ComparesHold == GoldenSpec => ComparesWithCapture
<1>1. GoldenInv /\ [GoldenNext]_golden =>
        [UNCHANGED disk => \A l \in Labels, out \in Outputs :
           Compare(l, out, FALSE) =>
             LET f == File(l)
             IN  /\ verdict' = "same" =>
                      Len(out) <= Len(meant[f]) /\ out = Prefix(meant[f], Len(out))
                 /\ whole[f] /\ writer[f] = l =>
                      (verdict' = "same" <=> out = meant[f])]_golden
  BY ComparisonHolds
<1> QED
  BY InitGolden, GoldenKept, <1>1, PTL DEF GoldenSpec, ComparesWithCapture
-----------------------------------------------------------------------------
(***************************************************************************)
(* The generator for every width and all shifts: it permutes the words, so *)
(* every seed lies on a cycle and 0 is on none but its own.                *)
(***************************************************************************)
\* A set of naturals that is not empty has a least element.
LEMMA Least ==
    ASSUME NEW T \in SUBSET Nat, T # {}
    PROVE  \E m \in T : \A b \in T : m <= b
<1>1. PICK m \in T : \A b \in T : ~(<<b, m>> \in OpToRel(<, Nat))
  BY WFMin, NatLessThanWellFounded
<1>2. \A b \in T : ~(b < m)
  BY <1>1 DEF OpToRel
<1> QED
  BY <1>2

\* A set of naturals that is bounded and not empty has a greatest element.
LEMMA Greatest ==
    ASSUME NEW n \in Nat, NEW T \in SUBSET (0 .. n), T # {}
    PROVE  \E m \in T : \A b \in T : b <= m
<1> DEFINE U == {k \in Nat : n - k \in T}
<1>1. \A b \in T : b \in Int /\ n - b \in Nat /\ n - (n - b) = b
  OBVIOUS
<1>2. \A b \in T : n - b \in U
  BY <1>1
<1>3. U \in SUBSET Nat /\ U # {}
  BY <1>2
<1> HIDE DEF U
<1>4. PICK k \in U : \A j \in U : k <= j
  BY <1>3, Least
<1>5. k \in Nat /\ n - k \in T
  BY <1>4 DEF U
<1>6. ASSUME NEW b \in T PROVE b <= n - k
  <2>1. k <= n - b
    BY <1>2, <1>4
  <2> QED
    BY <1>1, <1>5, <2>1
<1> QED
  BY <1>5, <1>6

\* What a word and its shift have in common with another word's.
LEMMA XorMember ==
    ASSUME NEW x, NEW y, NEW b
    PROVE  b \in Xor(x, y) <=> ~(b \in x <=> b \in y)
BY DEF Xor

\* x ^= x << n loses nothing: the least bit in which two words differ is not
\* disturbed.
LEMMA LeftKeeps ==
    ASSUME NEW n \in Nat, n # 0, NEW x \in Words, NEW y \in Words,
           Xor(x, Shl(x, n)) = Xor(y, Shl(y, n))
    PROVE  x = y
<1> DEFINE D == Xor(x, y)
<1> SUFFICES ASSUME D # {} PROVE FALSE
  BY DEF Xor, Words
<1>1. D \in SUBSET Positions /\ D \in SUBSET Nat
  BY DEF Xor, Words, Positions
<1>2. PICK m \in D : \A b \in D : m <= b
  BY <1>1, Least
<1>3. m \in Positions /\ m \in Nat /\ ~(m \in x <=> m \in y)
  BY <1>1, <1>2, XorMember
<1>4. m - n \in x <=> m - n \in y
  <2>1. ASSUME m - n \in D PROVE FALSE
    BY <1>1, <1>2, <1>3, <2>1
  <2> QED
    BY <2>1, XorMember
<1>5. m \in Shl(x, n) <=> m \in Shl(y, n)
  BY <1>3, <1>4 DEF Shl
<1>6. m \in Xor(x, Shl(x, n)) <=> ~(m \in x <=> m \in Shl(x, n))
  BY XorMember
<1>7. m \in Xor(y, Shl(y, n)) <=> ~(m \in y <=> m \in Shl(y, n))
  BY XorMember
<1>8. ~(m \in Xor(x, Shl(x, n)) <=> m \in Xor(y, Shl(y, n)))
  BY <1>3, <1>5, <1>6, <1>7
<1> QED
  BY <1>8

\* Nor does x ^= x >> n: here it is the greatest bit.
LEMMA RightKeeps ==
    ASSUME NEW n \in Nat, n # 0, NEW x \in Words, NEW y \in Words,
           Xor(x, Shr(x, n)) = Xor(y, Shr(y, n))
    PROVE  x = y
<1> DEFINE D == Xor(x, y)
<1> SUFFICES ASSUME D # {} PROVE FALSE
  BY DEF Xor, Words
<1>1. /\ Width \in Nat /\ D \in SUBSET (0 .. Width)
      /\ D \in SUBSET Positions /\ \A b \in Positions : b \in Int
  BY PrngAssumption DEF Xor, Words, Positions
<1>2. PICK m \in D : \A b \in D : b <= m
  <2> HIDE DEF D
  <2> QED
    BY <1>1, Greatest
<1>3. m \in Positions /\ m \in Int /\ ~(m \in x <=> m \in y)
  BY <1>1, <1>2, XorMember
<1>4. m + n \in x <=> m + n \in y
  <2>1. ASSUME m + n \in D PROVE FALSE
    BY <1>2, <1>3, <2>1
  <2> QED
    BY <2>1, XorMember
<1>5. m \in Shr(x, n) <=> m \in Shr(y, n)
  BY <1>3, <1>4 DEF Shr
<1>6. m \in Xor(x, Shr(x, n)) <=> ~(m \in x <=> m \in Shr(x, n))
  BY XorMember
<1>7. m \in Xor(y, Shr(y, n)) <=> ~(m \in y <=> m \in Shr(y, n))
  BY XorMember
<1>8. ~(m \in Xor(x, Shr(x, n)) <=> m \in Xor(y, Shr(y, n)))
  BY <1>3, <1>5, <1>6, <1>7
<1> QED
  BY <1>8

\* The words are closed under the generator.
LEMMA ScrambledTyped ==
    ASSUME NEW x \in Words
    PROVE  Scrambled(x) \in Words
BY DEF Scrambled, Xor, Shl, Shr, Words

\* Two states never have the same successor.
LEMMA ScrambledInjective ==
    ASSUME NEW x \in Words, NEW y \in Words, Scrambled(x) = Scrambled(y)
    PROVE  x = y
<1> DEFINE First(w) == Xor(w, Shl(w, Left))
           Second(w) == Xor(First(w), Shr(First(w), Right))
<1>1. /\ First(x) \in Words /\ First(y) \in Words
      /\ Second(x) \in Words /\ Second(y) \in Words
  BY DEF Xor, Shl, Shr, Words
<1>2. Xor(Second(x), Shl(Second(x), Again)) = Xor(Second(y), Shl(Second(y), Again))
  BY DEF Scrambled
<1>3. Left \in Nat /\ Left # 0 /\ Right \in Nat /\ Right # 0 /\ Again \in Nat /\ Again # 0
  BY PrngAssumption
<1> HIDE DEF Second
<1>4. Second(x) = Second(y)
  BY <1>1, <1>2, <1>3, LeftKeeps
<1>5. First(x) = First(y)
  <2> HIDE DEF First
  <2> QED
    BY <1>1, <1>3, <1>4, RightKeeps DEF Second
<1> QED
  BY <1>3, <1>5, LeftKeeps

\* Only 0 leads to 0.
LEMMA ScrambledNotZero ==
    ASSUME NEW x \in Words, x # {}
    PROVE  Scrambled(x) # {}
<1>1. Scrambled({}) = {} /\ {} \in Words
  BY DEF Scrambled, Xor, Shl, Shr, Words
<1> QED
  BY <1>1, ScrambledInjective
-----------------------------------------------------------------------------
\* Every state but the first one since the seeding came from another one that
\* is not the current state.
PrngInv ==
    /\ rand_state \in Words \ {{}} /\ drawn \in SUBSET (Words \ {{}})
    /\ rand_state \in drawn
    /\ \A w \in drawn : w # start =>
         \E v \in drawn : v # rand_state /\ Scrambled(v) = w

\* A new draw is the start or one that was not drawn since.
LEMMA DrawIsNew ==
    ASSUME PrngInv, RandU32
    PROVE  /\ rand_state' = Scrambled(rand_state)
           /\ rand_state' \in Words \ {{}}
           /\ rand_state' \in drawn => rand_state' = start
<1>1. rand_state \in Words /\ rand_state # {}
  BY DEF PrngInv
<1>2. rand_state' = Scrambled(rand_state)
  BY <1>1 DEF RandU32
<1>3. rand_state' \in Words \ {{}}
  BY <1>1, <1>2, ScrambledTyped, ScrambledNotZero
<1>4. ASSUME rand_state' \in drawn, rand_state' # start PROVE FALSE
  <2>1. PICK v \in drawn : v # rand_state /\ Scrambled(v) = rand_state'
    BY <1>4 DEF PrngInv
  <2>2. v \in Words
    BY DEF PrngInv
  <2> QED
    BY <1>1, <1>2, <2>1, <2>2, ScrambledInjective
<1> QED
  BY <1>2, <1>3, <1>4

LEMMA InitPrng == PrngInit => PrngInv
BY PrngAssumption DEF PrngInit, PrngInv

\* Draws and seedings keep the invariant.
LEMMA PrngKept == PrngInv /\ [PrngNext]_prng => PrngInv'
<1> SUFFICES ASSUME PrngInv, [PrngNext]_prng PROVE PrngInv'
  OBVIOUS
<1>1. CASE RandU32
  <2>1. /\ rand_state' = Scrambled(rand_state) /\ rand_state' \in Words \ {{}}
        /\ rand_state' \in drawn => rand_state' = start
        /\ start' = start
        /\ drawn' = IF rand_state' = start THEN {start} ELSE drawn \cup {rand_state'}
    BY <1>1, DrawIsNew DEF RandU32
  <2>2. CASE rand_state' = start
    BY <2>1, <2>2 DEF PrngInv
  <2>3. CASE rand_state' # start
    <3>1. rand_state' \notin drawn /\ drawn' = drawn \cup {rand_state'}
      BY <2>1, <2>3
    <3>2. ASSUME NEW w \in drawn', w # start'
          PROVE  \E v \in drawn' : v # rand_state' /\ Scrambled(v) = w
      <4>1. CASE w = rand_state'
        BY <2>1, <3>1, <4>1 DEF PrngInv
      <4>2. CASE w \in drawn
        <5>1. PICK v \in drawn : Scrambled(v) = w
          BY <2>1, <3>2, <4>2 DEF PrngInv
        <5> QED
          BY <3>1, <5>1
      <4> QED
        BY <3>1, <4>1, <4>2
    <3>3. \A w \in drawn' : w # start' =>
            \E v \in drawn' : v # rand_state' /\ Scrambled(v) = w
      BY <3>2
    <3>4. /\ rand_state' \in Words \ {{}} /\ drawn' \in SUBSET (Words \ {{}})
          /\ rand_state' \in drawn'
      BY <2>1, <3>1 DEF PrngInv
    <3> QED
      BY <3>3, <3>4 DEF PrngInv, Scrambled, Xor, Shl, Shr
  <2> QED
    BY <2>2, <2>3
<1>2. ASSUME NEW s \in Words, rand_state' = Seeded(s), start' = rand_state',
             drawn' = {rand_state'}
      PROVE  PrngInv'
  <2>1. Seeded(s) \in Words \ {{}}
    BY PrngAssumption DEF Seeded
  <2> QED
    BY <1>2, <2>1 DEF PrngInv
<1>3. ASSUME NEW s \in Seeds, RandSeed(s) PROVE PrngInv'
  BY <1>2, <1>3, PrngAssumption DEF RandSeed
<1>4. ASSUME UNCHANGED <<rand_state, drawn, start>> PROVE PrngInv'
  BY <1>4 DEF PrngInv, Scrambled, Xor, Shl, Shr
<1>5. ASSUME NEW s \in Seeds, SetShuffleSeed(s) PROVE PrngInv'
  BY <1>2, <1>4, <1>5, PrngAssumption DEF SetShuffleSeed
<1>6. CASE UNCHANGED prng
  BY <1>4, <1>6 DEF prng
<1> QED
  BY <1>1, <1>3, <1>5, <1>6 DEF PrngNext

\* No seed and no number of draws brings the generator to 0.
THEOREM ZeroNeverDrawn == PrngSpec => []NeverZero
<1>1. PrngInv => NeverZero
  BY DEF PrngInv, NeverZero
<1> QED
  BY InitPrng, PrngKept, <1>1, PTL DEF PrngSpec

\* Every seed lies on the cycle its draws run through.
THEOREM DrawsCycle == PrngSpec => DrawsDoNotRepeat
<1>1. PrngInv /\ [PrngNext]_prng =>
        [RandU32 => (rand_state' \in drawn => rand_state' = start)]_prng
  BY DrawIsNew
<1> QED
  BY InitPrng, PrngKept, <1>1, PTL DEF PrngSpec, DrawsDoNotRepeat
-----------------------------------------------------------------------------
(***************************************************************************)
(* Steps of the other parts leave a part alone.                            *)
(***************************************************************************)
LEMMA EachPart ==
    [Next]_vars =>
      /\ [Assertion!Next]_assertion /\ [GoldenNext]_golden /\ [Scan!Next]_scan
      /\ [Settings!Next]_settings /\ [PrngNext]_prng
BY DEF Next, vars, UseAssertion, UseGolden, UseScan, UseSettings, UsePrng

\* A program that uses all of them uses golden files and random numbers as
\* their own specifications say: what is proved of each alone holds here too.
THEOREM PartsAlone == Spec => GoldenSpec /\ PrngSpec
<1>1. Init => GoldenInit /\ PrngInit
  BY DEF Init
<1> QED
  BY <1>1, EachPart, PTL DEF Spec, GoldenSpec, PrngSpec
-----------------------------------------------------------------------------
(***************************************************************************)
(* project.yml, for files of any length.  While a file is read, group is   *)
(* the key of the last line at the margin, "" where that has a value, and  *)
(* a field holds what the greatest line that gives it one says.            *)
(***************************************************************************)
SettingsTypes ==
    /\ lines \in Seq(Settings!Setting) /\ loaded \in BOOLEAN
    /\ DOMAIN config = Settings!Fields

\* The section the next line is in.
GroupIsHeading ==
    \A n \in Nat : n = Len(lines) + 1 =>
      group = IF Settings!Above(n) # {} /\ lines[Settings!Heading(n)].value = "none"
              THEN lines[Settings!Heading(n)].key ELSE ""

\* Line k gives field f its value, and a project name is not emptied.
Effective(k, f) ==
    Settings!Gives(k, f) /\ (f = "ProjectName" => lines[k].value = "list")

\* What the lines read so far give field f.
Given(f, v) ==
    \/ /\ \A k \in 1 .. Len(lines) : ~Effective(k, f)
       /\ v = Settings!Unset
    \/ \E k \in 1 .. Len(lines) :
         /\ Effective(k, f)
         /\ \A j \in 1 .. Len(lines) : Effective(j, f) => j <= k
         /\ v = IF lines[k].value = "list" THEN <<k>> ELSE << >>

\* applyDefaults, for one field.
OrDefault(f, v) ==
    IF f \in Settings!HasDefault /\ v = << >> THEN Settings!DefaultList ELSE v

FieldsFollow ==
    \A f \in Settings!Fields :
      \E v : Given(f, v) /\ config[f] = IF loaded THEN OrDefault(f, v) ELSE v

SettingsInv == SettingsTypes /\ GroupIsHeading /\ FieldsFollow

\* The fields of the known keys; the key of no group is none of them.
LEMMA FieldsOfKeys ==
    /\ "" \notin DOMAIN Settings!NestedField
    /\ \A k \in DOMAIN Settings!TopField :
         Settings!TopField[k] \in Settings!Fields \ {"ProjectName"}
    /\ \A g, k : Settings!Known(g, k) => Settings!NestedField[g][k] \in Settings!Fields
<1>1. "" \notin DOMAIN Settings!NestedField
  BY DEF Settings!NestedField
<1>2. ASSUME NEW k \in DOMAIN Settings!TopField
      PROVE  Settings!TopField[k] \in Settings!Fields \ {"ProjectName"}
  BY DEF Settings!TopField, Settings!Fields
<1>3. ASSUME NEW g, NEW k, Settings!Known(g, k)
      PROVE  Settings!NestedField[g][k] \in Settings!Fields
  <2>1. g \in {"paths", "files", "project"}
    BY <1>3 DEF Settings!Known, Settings!NestedField
  <2> QED
    BY <1>3, <2>1 DEF Settings!Known, Settings!NestedField, Settings!Fields
<1> QED
  BY <1>1, <1>2, <1>3

\* A line at the margin above, where there is one, has a last one.
LEMMA HeadingIsAbove ==
    ASSUME NEW n \in Nat, Settings!Above(n) # {}
    PROVE  /\ Settings!Heading(n) \in Settings!Above(n)
           /\ \A i \in Settings!Above(n) : i <= Settings!Heading(n)
<1>1. Settings!Above(n) \in SUBSET (0 .. n)
  BY DEF Settings!Above
<1>2. \E j \in Settings!Above(n) : \A i \in Settings!Above(n) : i <= j
  BY <1>1, Greatest
<1> QED
  BY <1>2 DEF Settings!Heading

\* A line that is read leaves those before it and their headings as they are.
LEMMA LinesKept ==
    ASSUME SettingsTypes, NEW line \in Settings!Setting, lines' = Append(lines, line)
    PROVE  /\ lines' \in Seq(Settings!Setting) /\ Len(lines') = Len(lines) + 1
           /\ lines'[Len(lines) + 1] = line
           /\ \A k \in 1 .. Len(lines) : lines'[k] = lines[k]
BY DEF SettingsTypes

LEMMA HeadingsKept ==
    ASSUME SettingsTypes, NEW line \in Settings!Setting, lines' = Append(lines, line),
           NEW k \in 1 .. Len(lines) + 1
    PROVE  Settings!Above(k)' = Settings!Above(k) /\ Settings!Heading(k)' = Settings!Heading(k)
<1>1. \A j \in 1 .. k - 1 : lines'[j] = lines[j]
  <2>1. Len(lines) \in Nat
    BY DEF SettingsTypes
  <2> QED
    BY <2>1, LinesKept
<1>2. Settings!Above(k)' = Settings!Above(k)
  BY <1>1 DEF Settings!Above
<1> QED
  BY <1>2 DEF Settings!Heading

LEMMA EffectiveKept ==
    ASSUME SettingsTypes, NEW line \in Settings!Setting, lines' = Append(lines, line),
           NEW k \in 1 .. Len(lines), NEW f
    PROVE  Effective(k, f)' <=> Effective(k, f)
<1>1. Len(lines) \in Nat /\ k \in Nat /\ k \in 1 .. Len(lines) + 1
  BY DEF SettingsTypes
<1>2. Settings!Above(k)' = Settings!Above(k) /\ Settings!Heading(k)' = Settings!Heading(k)
  BY <1>1, HeadingsKept
<1>3. lines'[k] = lines[k]
  BY LinesKept
<1>4. ASSUME Settings!Above(k) # {}
      PROVE  lines'[Settings!Heading(k)] = lines[Settings!Heading(k)]
  <2>1. Settings!Heading(k) \in 1 .. k - 1
    BY <1>1, <1>4, HeadingIsAbove DEF Settings!Above
  <2>2. Settings!Heading(k) \in 1 .. Len(lines)
    BY <1>1, <2>1
  <2> QED
    BY <2>2, LinesKept
<1>5. Settings!Gives(k, f)' <=> Settings!Gives(k, f)
  BY <1>2, <1>3, <1>4 DEF Settings!Gives, Settings!Known
<1> QED
  BY <1>3, <1>5 DEF Effective

\* The new line gives a value to the field the code assigns.
LEMMA NewLineGives ==
    ASSUME SettingsTypes, GroupIsHeading, NEW line \in Settings!Setting,
           lines' = Append(lines, line), NEW n, n = Len(lines) + 1, NEW f
    PROVE  Settings!Gives(n, f)' <=>
             /\ line.value # "none"
             /\ IF line.indented
                THEN /\ Settings!Known(group, line.key)
                     /\ Settings!NestedField[group][line.key] = f
                ELSE /\ line.key \in DOMAIN Settings!TopField
                     /\ Settings!TopField[line.key] = f
<1> DEFINE h == Settings!Heading(n)
           above == Settings!Above(n)
<1>1. Len(lines) \in Nat /\ n \in Nat /\ n \in 1 .. Len(lines) + 1
  BY DEF SettingsTypes
<1>2. above' = above /\ h' = h
  BY <1>1, HeadingsKept
<1>3. lines'[n] = line
  BY LinesKept
<1>4. ASSUME above # {} PROVE lines'[h] = lines[h]
  <2>1. h \in 1 .. n - 1
    BY <1>1, <1>4, HeadingIsAbove DEF Settings!Above
  <2>2. h \in 1 .. Len(lines)
    BY <1>1, <2>1
  <2> QED
    BY <2>2, LinesKept
<1>5. group = IF above # {} /\ lines[h].value = "none" THEN lines[h].key ELSE ""
  BY <1>1 DEF GroupIsHeading
<1>6. ~Settings!Known("", line.key)
  BY FieldsOfKeys DEF Settings!Known
<1>7. Settings!Gives(n, f)' <=>
        /\ line.value # "none"
        /\ IF line.indented
           THEN /\ above # {} /\ lines[h].value = "none"
                /\ Settings!Known(lines[h].key, line.key)
                /\ Settings!NestedField[lines[h].key][line.key] = f
           ELSE line.key \in DOMAIN Settings!TopField /\ Settings!TopField[line.key] = f
  BY <1>2, <1>3, <1>4 DEF Settings!Gives, Settings!Known
<1> HIDE DEF h, above
<1> QED
  BY <1>5, <1>6, <1>7

\* A line at the margin is the heading of the next one.
LEMMA NewHeading ==
    ASSUME SettingsTypes, NEW line \in Settings!Setting, lines' = Append(lines, line),
           Settings!ReadGroup(line) \/ Settings!ReadTop(line)
    PROVE  GroupIsHeading'
<1>1. Len(lines) \in Nat /\ Len(lines') = Len(lines) + 1
  BY LinesKept DEF SettingsTypes
<1>2. lines'[Len(lines) + 1] = line
  BY LinesKept
<1>3. ~line.indented /\ group' = IF line.value = "none" THEN line.key ELSE ""
  BY DEF Settings!ReadGroup, Settings!ReadTop
<1>4. SUFFICES ASSUME NEW m \in Nat, m = Len(lines') + 1
      PROVE  group' = IF Settings!Above(m)' # {} /\ lines'[Settings!Heading(m)'].value = "none"
                      THEN lines'[Settings!Heading(m)'].key ELSE ""
  BY DEF GroupIsHeading
<1>5. PICK n \in Nat : n = Len(lines) + 1 /\ m = n + 1
  BY <1>1, <1>4
<1>6. lines'[n].indented = FALSE
  BY <1>2, <1>3, <1>5 DEF Settings!Setting
<1>7. n \in Settings!Above(m)' /\ \A i \in Settings!Above(m)' : i <= n
  BY <1>5, <1>6 DEF Settings!Above
<1>8. Settings!Heading(m)' = n
  <2>1. \A j \in Settings!Above(m)' :
          (\A i \in Settings!Above(m)' : i <= j) => j = n
    BY <1>5, <1>7 DEF Settings!Above
  <2> QED
    BY <1>7, <2>1 DEF Settings!Heading
<1> QED
  BY <1>2, <1>3, <1>5, <1>7, <1>8

\* An indented one leaves it as it is.
LEMMA SameHeading ==
    ASSUME SettingsTypes, GroupIsHeading, NEW line \in Settings!Setting,
           lines' = Append(lines, line), line.indented, group' = group
    PROVE  GroupIsHeading'
<1>1. Len(lines) \in Nat /\ Len(lines') = Len(lines) + 1
  BY LinesKept DEF SettingsTypes
<1>2. lines'[Len(lines) + 1] = line
  BY LinesKept
<1>3. SUFFICES ASSUME NEW m \in Nat, m = Len(lines') + 1
      PROVE  group' = IF Settings!Above(m)' # {} /\ lines'[Settings!Heading(m)'].value = "none"
                      THEN lines'[Settings!Heading(m)'].key ELSE ""
  BY DEF GroupIsHeading
<1>4. PICK k \in Nat : k = Len(lines) + 1 /\ m = k + 1
  BY <1>1, <1>3
<1>5. Settings!Above(k)' = Settings!Above(k) /\ Settings!Heading(k)' = Settings!Heading(k)
  BY <1>1, <1>4, HeadingsKept
<1>6. Settings!Above(m)' = Settings!Above(k)'
  BY <1>2, <1>4 DEF Settings!Above
<1>7. Settings!Heading(m)' = Settings!Heading(k)'
  BY <1>6 DEF Settings!Heading
<1>8. ASSUME Settings!Above(k) # {}
      PROVE  lines'[Settings!Heading(k)] = lines[Settings!Heading(k)]
  <2>1. Settings!Heading(k) \in 1 .. k - 1
    BY <1>4, <1>8, HeadingIsAbove DEF Settings!Above
  <2>2. Settings!Heading(k) \in 1 .. Len(lines)
    BY <1>1, <1>4, <2>1
  <2> QED
    BY <2>2, LinesKept
<1>9. group = IF Settings!Above(k) # {} /\ lines[Settings!Heading(k)].value = "none"
              THEN lines[Settings!Heading(k)].key ELSE ""
  BY <1>4 DEF GroupIsHeading
<1> QED
  BY <1>5, <1>6, <1>7, <1>8, <1>9

\* The assignment of a line is to the field it gives its value, if any.
LEMMA Assigned ==
    ASSUME SettingsInv, NEW line \in Settings!Setting, Settings!Read(line),
           NEW n, n = Len(lines) + 1, NEW f \in Settings!Fields
    PROVE  /\ DOMAIN config' = Settings!Fields
           /\ config'[f] = IF Effective(n, f)' THEN Settings!Parsed(line) ELSE config[f]
<1>1. SettingsTypes /\ GroupIsHeading /\ lines' = Append(lines, line)
  BY DEF SettingsInv, Settings!Read
<1>2. lines'[n] = line /\ line.value \in {"none", "empty", "list"}
  BY <1>1, LinesKept DEF Settings!Setting
<1>3. Effective(n, f)' <=>
        /\ line.value # "none"
        /\ IF line.indented
           THEN /\ Settings!Known(group, line.key)
                /\ Settings!NestedField[group][line.key] = f
           ELSE /\ line.key \in DOMAIN Settings!TopField
                /\ Settings!TopField[line.key] = f
        /\ f = "ProjectName" => line.value = "list"
  BY <1>1, <1>2, NewLineGives DEF Effective
<1>4. DOMAIN config = Settings!Fields
  BY <1>1 DEF SettingsTypes
<1>5. CASE Settings!ReadGroup(line) \/ Settings!Ignored(line)
  BY <1>3, <1>4, <1>5 DEF Settings!ReadGroup, Settings!Ignored
<1>6. CASE Settings!ReadTop(line)
  <2>1. line.value # "none" /\ ~line.indented
    BY <1>6 DEF Settings!ReadTop
  <2>2. ASSUME line.key \in DOMAIN Settings!TopField
        PROVE  /\ Settings!TopField[line.key] # "ProjectName"
               /\ config' = [config EXCEPT ![Settings!TopField[line.key]] = Settings!Parsed(line)]
    BY <1>6, <2>2, FieldsOfKeys DEF Settings!ReadTop
  <2>3. line.key \notin DOMAIN Settings!TopField => config' = config
    BY <1>6 DEF Settings!ReadTop
  <2> QED
    BY <1>3, <1>4, <2>1, <2>2, <2>3
<1>7. CASE Settings!ReadNested(line)
  <2>1. line.value # "none" /\ line.indented
    BY <1>7 DEF Settings!ReadNested
  <2>2. Settings!Parsed(line) # << >> <=> line.value = "list"
    BY <1>2, <2>1 DEF Settings!Parsed
  <2>3. CASE /\ Settings!Known(group, line.key)
             /\ Settings!NestedField[group][line.key] = "ProjectName" => line.value = "list"
    <3>1. config' = [config EXCEPT ![Settings!NestedField[group][line.key]] =
                                     Settings!Parsed(line)]
      BY <1>7, <2>2, <2>3 DEF Settings!ReadNested
    <3> QED
      BY <1>3, <1>4, <2>1, <2>3, <3>1
  <2>4. CASE ~(/\ Settings!Known(group, line.key)
               /\ Settings!NestedField[group][line.key] = "ProjectName" => line.value = "list")
    <3>1. config' = config
      BY <1>7, <2>2, <2>4 DEF Settings!ReadNested
    <3> QED
      BY <1>3, <1>4, <2>1, <2>4, <3>1
  <2> QED
    BY <2>3, <2>4
<1> QED
  BY <1>5, <1>6, <1>7 DEF Settings!Read

\* What is given after a line is what it gives, or what was given before it.
LEMMA GivenNext ==
    ASSUME SettingsTypes, NEW line \in Settings!Setting, lines' = Append(lines, line),
           NEW n, n = Len(lines) + 1, NEW f, NEW v, Given(f, v)
    PROVE  /\ Effective(n, f)' =>
                Given(f, IF line.value = "list" THEN <<n>> ELSE << >>)'
           /\ ~Effective(n, f)' => Given(f, v)'
<1>1. /\ Len(lines) \in Nat /\ Len(lines') = n /\ n \in Nat /\ lines'[n] = line
      /\ n \in 1 .. Len(lines') /\ 1 .. Len(lines') = (1 .. Len(lines)) \cup {n}
  BY LinesKept DEF SettingsTypes
<1>2. \A k \in 1 .. Len(lines) :
        (Effective(k, f)' <=> Effective(k, f)) /\ lines'[k] = lines[k] /\ k <= n
  BY <1>1, EffectiveKept, LinesKept
<1>3. CASE Effective(n, f)'
  <2>1. \A j \in 1 .. Len(lines') : j <= n
    BY <1>1
  <2> QED
    BY <1>1, <1>3, <2>1 DEF Given
<1>4. CASE ~Effective(n, f)'
  <2>1. CASE \A k \in 1 .. Len(lines) : ~Effective(k, f)
    <3>1. v = Settings!Unset
      BY <2>1 DEF Given
    <3> QED
      BY <1>1, <1>2, <1>4, <2>1, <3>1 DEF Given
  <2>2. CASE ~\A k \in 1 .. Len(lines) : ~Effective(k, f)
    <3>1. PICK k \in 1 .. Len(lines) :
            /\ Effective(k, f) /\ \A j \in 1 .. Len(lines) : Effective(j, f) => j <= k
            /\ v = IF lines[k].value = "list" THEN <<k>> ELSE << >>
      BY <2>2 DEF Given
    <3>2. k \in 1 .. Len(lines') /\ Effective(k, f)' /\ lines'[k] = lines[k]
      BY <1>1, <1>2, <3>1
    <3>3. \A j \in 1 .. Len(lines') : Effective(j, f)' => j <= k
      BY <1>1, <1>2, <1>4, <3>1
    <3> QED
      BY <1>4, <3>1, <3>2, <3>3 DEF Given
  <2> QED
    BY <2>1, <2>2
<1> QED
  BY <1>3, <1>4

LEMMA ReadKeepsInv ==
    ASSUME SettingsInv, NEW line \in Settings!Setting, Settings!Read(line)
    PROVE  SettingsInv'
<1>1. SettingsTypes /\ GroupIsHeading /\ FieldsFollow
  BY DEF SettingsInv
<1>2. lines' = Append(lines, line) /\ ~loaded /\ ~loaded'
  BY DEF Settings!Read
<1>3. line.value \in {"none", "empty", "list"}
  BY DEF Settings!Setting
<1>4. PICK n : n = Len(lines) + 1
  OBVIOUS
<1>5. SettingsTypes'
  <2>1. lines' \in Seq(Settings!Setting)
    BY <1>1, <1>2, LinesKept
  <2>2. DOMAIN config' = Settings!Fields
    BY <1>4, Assigned DEF Settings!Fields
  <2>3. loaded' \in BOOLEAN
    BY <1>1 DEF SettingsTypes, Settings!Read
  <2> QED
    BY <2>1, <2>2, <2>3 DEF SettingsTypes
<1>6. GroupIsHeading'
  <2>1. CASE Settings!ReadGroup(line) \/ Settings!ReadTop(line)
    BY <1>1, <1>2, <2>1, NewHeading
  <2>2. CASE Settings!ReadNested(line) \/ Settings!Ignored(line)
    <3>1. line.indented /\ group' = group
      BY <2>2 DEF Settings!ReadNested, Settings!Ignored
    <3> QED
      BY <1>1, <1>2, <3>1, SameHeading
  <2> QED
    BY <2>1, <2>2 DEF Settings!Read
<1>7. FieldsFollow'
  <2>1. ASSUME NEW f \in Settings!Fields PROVE \E v : Given(f, v)' /\ config'[f] = v
    <3>1. PICK v : Given(f, v) /\ config[f] = v
      BY <1>1, <1>2 DEF FieldsFollow
    <3>2. config'[f] = IF Effective(n, f)' THEN Settings!Parsed(line) ELSE config[f]
      BY <1>4, Assigned
    <3>3. CASE Effective(n, f)'
      <4>1. lines'[n] = line
        BY <1>1, <1>2, <1>4, LinesKept
      <4>2. line.value # "none"
        BY <3>3, <4>1 DEF Effective, Settings!Gives
      <4>3. config'[f] = IF line.value = "list" THEN <<n>> ELSE << >>
        BY <1>3, <1>4, <3>2, <3>3, <4>2 DEF Settings!Parsed
      <4> QED
        BY <1>1, <1>2, <1>4, <3>1, <3>3, <4>3, GivenNext
    <3>4. CASE ~Effective(n, f)'
      BY <1>1, <1>2, <1>4, <3>1, <3>2, <3>4, GivenNext
    <3> QED
      BY <3>3, <3>4
  <2> QED
    BY <1>2, <2>1 DEF FieldsFollow
<1> QED
  BY <1>5, <1>6, <1>7 DEF SettingsInv

\* What is given depends on the lines alone.
LEMMA GivenSame ==
    ASSUME UNCHANGED lines, NEW f, NEW v, Given(f, v)
    PROVE  Given(f, v)'
<1>1. ASSUME NEW k PROVE Effective(k, f)' <=> Effective(k, f)
  <2>1. Settings!Above(k)' = Settings!Above(k)
    BY DEF Settings!Above
  <2>2. Settings!Heading(k)' = Settings!Heading(k)
    BY <2>1 DEF Settings!Heading
  <2>3. Settings!Gives(k, f)' <=> Settings!Gives(k, f)
    BY <2>1, <2>2 DEF Settings!Gives, Settings!Known
  <2> QED
    BY <2>3 DEF Effective
<1> QED
  BY <1>1 DEF Given

\* Nor does the heading of the next line.
LEMMA HeadingSame ==
    ASSUME UNCHANGED <<lines, group>>, GroupIsHeading
    PROVE  GroupIsHeading'
<1>1. ASSUME NEW k PROVE /\ Settings!Above(k)' = Settings!Above(k)
                         /\ Settings!Heading(k)' = Settings!Heading(k)
  <2>1. Settings!Above(k)' = Settings!Above(k)
    BY DEF Settings!Above
  <2> QED
    BY <2>1 DEF Settings!Heading
<1> QED
  BY <1>1 DEF GroupIsHeading

LEMMA DefaultsKeepInv == SettingsInv /\ Settings!ApplyDefaults => SettingsInv'
<1> SUFFICES ASSUME SettingsInv, Settings!ApplyDefaults PROVE SettingsInv'
  OBVIOUS
<1>1. /\ ~loaded /\ loaded' = TRUE /\ lines' = lines /\ group' = group
      /\ config' = [f \in Settings!Fields |->
           IF f \in Settings!HasDefault /\ config[f] = << >>
           THEN Settings!DefaultList ELSE config[f]]
  BY DEF Settings!ApplyDefaults
<1>2. SettingsTypes' /\ GroupIsHeading'
  BY <1>1, HeadingSame DEF SettingsInv, SettingsTypes
<1>3. ASSUME NEW f \in Settings!Fields
      PROVE  \E v : Given(f, v)' /\ config'[f] = OrDefault(f, v)
  <2>1. PICK v : Given(f, v) /\ config[f] = v
    BY <1>1 DEF SettingsInv, FieldsFollow
  <2>2. Given(f, v)'
    BY <1>1, <2>1, GivenSame
  <2> QED
    BY <1>1, <2>1, <2>2 DEF OrDefault
<1> QED
  BY <1>1, <1>2, <1>3 DEF SettingsInv, FieldsFollow

LEMMA InitSettings == Settings!Init => SettingsInv
<1> SUFFICES ASSUME Settings!Init PROVE SettingsInv
  OBVIOUS
<1>1. lines = << >> /\ group = "" /\ loaded = FALSE
      /\ config = [f \in Settings!Fields |-> Settings!Unset]
  BY DEF Settings!Init
<1>2. << >> \in Seq(Settings!Setting) /\ Len(<< >>) = 0
  OBVIOUS
<1>3. SettingsTypes
  BY <1>1, <1>2 DEF SettingsTypes
<1>4. Len(lines) = 0
  BY <1>1, <1>2
<1>5. GroupIsHeading
  <2>1. Settings!Above(1) = {}
    BY DEF Settings!Above
  <2>2. \A n \in Nat : n = Len(lines) + 1 => n = 1
    BY <1>4
  <2> QED
    BY <1>1, <2>1, <2>2 DEF GroupIsHeading
<1>6. FieldsFollow
  <2>1. ASSUME NEW f \in Settings!Fields
        PROVE  Given(f, Settings!Unset) /\ config[f] = Settings!Unset
    <3>1. ~\E k : k \in 1 .. Len(lines)
      BY <1>4
    <3>2. Given(f, Settings!Unset)
      BY <3>1 DEF Given
    <3> QED
      BY <1>1, <3>2
  <2> QED
    BY <1>1, <2>1 DEF FieldsFollow
<1> QED
  BY <1>3, <1>5, <1>6 DEF SettingsInv

LEMMA SettingsKept == SettingsInv /\ [Settings!Next]_settings => SettingsInv'
<1> SUFFICES ASSUME SettingsInv, [Settings!Next]_settings PROVE SettingsInv'
  OBVIOUS
<1>1. CASE UNCHANGED settings
  <2>1. lines' = lines /\ group' = group /\ loaded' = loaded /\ config' = config
    BY <1>1 DEF settings
  <2>2. SettingsTypes' /\ GroupIsHeading'
    BY <2>1, HeadingSame DEF SettingsInv, SettingsTypes
  <2>3. FieldsFollow'
    BY <2>1, GivenSame DEF SettingsInv, FieldsFollow, OrDefault
  <2> QED
    BY <2>2, <2>3 DEF SettingsInv
<1> QED
  BY <1>1, ReadKeepsInv, DefaultsKeepInv DEF Settings!Next

\* The greatest of the lines that count is the last of them.
LEMMA SettingsPromise == SettingsInv => SettingsAreLastGiven
<1> SUFFICES ASSUME SettingsInv, loaded, NEW f \in Settings!Fields
    PROVE LET given == {k \in DOMAIN lines :
                Settings!Gives(k, f) /\ (f = "ProjectName" => lines[k].value = "list")}
              last == CHOOSE k \in given : \A j \in given : j <= k
          IN  config[f] =
                IF given # {} /\ lines[last].value = "list" THEN <<last>>
                ELSE IF f \in Settings!HasDefault THEN Settings!DefaultList
                ELSE Settings!Unset
  BY DEF SettingsAreLastGiven, Settings!SettingsAreLastGiven
<1> DEFINE given == {k \in DOMAIN lines :
                Settings!Gives(k, f) /\ (f = "ProjectName" => lines[k].value = "list")}
           last == CHOOSE k \in given : \A j \in given : j <= k
<1>1. given = {k \in 1 .. Len(lines) : Effective(k, f)} /\ Len(lines) \in Nat
  BY DEF Effective, SettingsInv, SettingsTypes
<1>2. PICK v : Given(f, v) /\ config[f] = OrDefault(f, v)
  BY DEF SettingsInv, FieldsFollow
<1>3. ASSUME given = {}
      PROVE  config[f] = IF f \in Settings!HasDefault THEN Settings!DefaultList
                         ELSE Settings!Unset
  <2>1. \A k \in 1 .. Len(lines) : ~Effective(k, f)
    BY <1>1, <1>3
  <2>2. v = << >>
    BY <1>2, <2>1 DEF Given, Settings!Unset
  <2> QED
    BY <1>2, <1>3, <2>2 DEF OrDefault, Settings!Unset
<1>4. ASSUME given # {}
      PROVE  config[f] = IF lines[last].value = "list" THEN <<last>>
                         ELSE IF f \in Settings!HasDefault THEN Settings!DefaultList
                         ELSE Settings!Unset
  <2>1. PICK k \in given : /\ \A j \in given : j <= k
                           /\ v = IF lines[k].value = "list" THEN <<k>> ELSE << >>
    BY <1>1, <1>2, <1>4 DEF Given
  <2>2. last = k
    <3>1. \A j \in given : (\A i \in given : i <= j) => j = k
      BY <1>1, <2>1
    <3> HIDE DEF given
    <3> QED
      BY <2>1, <3>1
  <2>3. <<k>> # << >>
    OBVIOUS
  <2> HIDE DEF given, last
  <2> QED
    BY <1>2, <2>1, <2>2, <2>3 DEF OrDefault, Settings!Unset
<1> QED
  BY <1>3, <1>4

\* project.yml: once it is loaded, every setting is what the last line of its
\* section gives, an empty list there being the default.
THEOREM SettingsHold == Spec => []SettingsAreLastGiven
<1>1. Init => Settings!Init
  BY DEF Init
<1> QED
  BY <1>1, EachPart, InitSettings, SettingsKept, SettingsPromise, PTL DEF Spec
-----------------------------------------------------------------------------
(***************************************************************************)
(* The assertions.  None keeps anything for the next, so each promise is   *)
(* one about a single call.                                                *)
(***************************************************************************)
\* Infinities and NaN are beyond every finite double, distance and tolerance.
LEMMA FloatFacts ==
    /\ One \in Nat /\ One > 0 /\ MaxFloat \in Nat /\ MaxFloat > 0
    /\ Assertion!Inf \in Nat /\ Assertion!NaN = Assertion!Inf + 1
    /\ One < Assertion!Inf /\ 2 * MaxFloat < Assertion!Inf
    /\ \A d \in 0 .. 2 * MaxFloat : d * One \in Nat /\ d * One < Assertion!Inf
<1>1. One \in Nat /\ One > 0 /\ MaxFloat \in Nat /\ MaxFloat > 0
  BY AlgorithmsAssumption
<1>2. Assertion!Inf = 2 * MaxFloat * One + 1
  BY DEF Assertion!Inf
<1>3. 2 * MaxFloat * One \in Nat
  BY <1>1
<1>4. One <= 2 * MaxFloat * One
  BY <1>1
<1>5. 2 * MaxFloat <= 2 * MaxFloat * One
  BY <1>1
<1>6. ASSUME NEW d \in 0 .. 2 * MaxFloat
      PROVE  d * One \in Nat /\ d * One <= 2 * MaxFloat * One
  <2>1. PICK rest \in Nat : 2 * MaxFloat = d + rest
    <3>1. 2 * MaxFloat - d \in Nat /\ 2 * MaxFloat = d + (2 * MaxFloat - d)
      BY <1>1
    <3> QED
      BY <3>1
  <2>2. d * One \in Nat /\ rest * One \in Nat /\ (d + rest) * One = d * One + rest * One
    BY <1>1, <2>1
  <2> QED
    BY <2>1, <2>2
<1>7. Assertion!NaN = Assertion!Inf + 1
  BY DEF Assertion!NaN
<1> QED
  BY <1>1, <1>2, <1>3, <1>4, <1>5, <1>6, <1>7

\* The distance of two doubles.
LEMMA Distances ==
    ASSUME NEW e \in Assertion!Doubles, NEW a \in Assertion!Doubles
    PROVE  /\ Assertion!NaN \in {e, a} => Assertion!Distance(e, a) = Assertion!NaN
           /\ e \in Assertion!Finite /\ a \notin Assertion!Finite =>
                Assertion!Distance(e, a) \in {Assertion!Inf, Assertion!NaN}
           /\ e \in Assertion!Finite /\ a \in Assertion!Finite =>
                /\ Assertion!Distance(e, a) = Assertion!Abs(e - a)
                /\ Assertion!Abs(e - a) \in 0 .. 2 * MaxFloat
<1>1. ASSUME Assertion!NaN \in {e, a} PROVE Assertion!Distance(e, a) = Assertion!NaN
  BY <1>1 DEF Assertion!Distance
<1>2. ASSUME e \in Assertion!Finite, a \notin Assertion!Finite
      PROVE  Assertion!Distance(e, a) \in {Assertion!Inf, Assertion!NaN}
  BY <1>2 DEF Assertion!Distance
<1>3. ASSUME e \in Assertion!Finite, a \in Assertion!Finite
      PROVE  /\ Assertion!Distance(e, a) = Assertion!Abs(e - a)
             /\ Assertion!Abs(e - a) \in 0 .. 2 * MaxFloat
  <2>1. e \in Int /\ a \in Int /\ -MaxFloat <= e /\ e <= MaxFloat /\ -MaxFloat <= a /\ a <= MaxFloat
    BY <1>3, FloatFacts DEF Assertion!Finite
  <2>2. Assertion!NaN \notin {e, a}
    BY <2>1, FloatFacts
  <2>3. Assertion!Distance(e, a) = Assertion!Abs(e - a)
    BY <1>3, <2>2 DEF Assertion!Distance
  <2>4. Assertion!Abs(e - a) \in 0 .. 2 * MaxFloat
    BY <2>1, FloatFacts DEF Assertion!Abs
  <2> QED
    BY <2>3, <2>4
<1> QED
  BY <1>1, <1>2, <1>3

LEMMA FloatEqualAgrees ==
    ASSUME NEW e \in Assertion!Doubles, NEW a \in Assertion!Doubles
    PROVE  /\ Assertion!EqualFloat(e, a) \in BOOLEAN
           /\ Assertion!NaN \in {e, a} => ~Assertion!EqualFloat(e, a)
           /\ e \in Assertion!Finite =>
                (Assertion!EqualFloat(e, a) =
                   \/ a \in Assertion!Finite /\ Assertion!Abs(e - a) * One <= Assertion!Abs(e)
                   \/ a \in Assertion!Finite /\ Assertion!Abs(e - a) <= 1)
<1> DEFINE d == Assertion!Distance(e, a)
           t == IF Assertion!Abs(e) < One THEN One ELSE Assertion!Abs(e)
<1>1. Assertion!EqualFloat(e, a) <=>
        Assertion!AtMost(IF d \in {Assertion!Inf, Assertion!NaN} THEN d ELSE d * One, t)
  BY DEF Assertion!EqualFloat
<1>2. ASSUME Assertion!NaN \in {e, a} PROVE ~Assertion!EqualFloat(e, a)
  <2>1. d = Assertion!NaN
    BY <1>2, Distances
  <2> HIDE DEF d, t
  <2> QED
    BY <1>1, <2>1 DEF Assertion!AtMost
<1>3. ASSUME e \in Assertion!Finite
      PROVE  t \in Nat /\ t < Assertion!Inf /\ Assertion!Abs(e) \in Nat
  BY <1>3, FloatFacts DEF Assertion!Finite, Assertion!Abs
<1>4. ASSUME e \in Assertion!Finite, a \notin Assertion!Finite
      PROVE  ~Assertion!EqualFloat(e, a)
  <2>1. d \in {Assertion!Inf, Assertion!NaN}
    BY <1>4, Distances
  <2>2. t \in Nat /\ t < Assertion!Inf
    BY <1>3, <1>4
  <2> HIDE DEF d, t
  <2> QED
    BY <1>1, <2>1, <2>2, FloatFacts DEF Assertion!AtMost
<1>5. ASSUME e \in Assertion!Finite, a \in Assertion!Finite
      PROVE  Assertion!EqualFloat(e, a) <=>
               (Assertion!Abs(e - a) * One <= Assertion!Abs(e) \/ Assertion!Abs(e - a) <= 1)
  <2>1. d = Assertion!Abs(e - a) /\ d \in 0 .. 2 * MaxFloat
    BY <1>5, Distances
  <2>2. d \in Nat /\ d * One \in Nat /\ d * One < Assertion!Inf /\ d < Assertion!Inf
    BY <2>1, FloatFacts
  <2>3. t \in Nat /\ t < Assertion!Inf /\ Assertion!Abs(e) \in Nat
    BY <1>3, <1>5
  <2>4. Assertion!EqualFloat(e, a) <=> d * One <= t
    <3> HIDE DEF d, t
    <3> QED
      BY <1>1, <2>2, <2>3, FloatFacts DEF Assertion!AtMost
  <2>5. d * One <= One <=> d <= 1
    <3> HIDE DEF d
    <3>1. d <= 1 => d \in {0, 1}
      BY <2>2
    <3>2. d > 1 => d * One >= 2 * One
      BY <2>2, FloatFacts
    <3> QED
      BY <2>2, <3>1, <3>2, FloatFacts
  <2>6. d * One <= t <=> (d * One <= Assertion!Abs(e) \/ d <= 1)
    <3> HIDE DEF d
    <3> QED
      BY <2>2, <2>3, <2>5, FloatFacts
  <2> QED
    BY <2>1, <2>4, <2>6
<1>6. Assertion!EqualFloat(e, a) \in BOOLEAN
  BY DEF Assertion!EqualFloat, Assertion!AtMost
<1>7. ASSUME e \in Assertion!Finite
      PROVE  Assertion!EqualFloat(e, a) =
               \/ a \in Assertion!Finite /\ Assertion!Abs(e - a) * One <= Assertion!Abs(e)
               \/ a \in Assertion!Finite /\ Assertion!Abs(e - a) <= 1
  BY <1>4, <1>5, <1>6, <1>7
<1> QED
  BY <1>2, <1>6, <1>7

LEMMA FloatWithinAgrees ==
    ASSUME NEW e \in Assertion!Doubles, NEW a \in Assertion!Doubles,
           NEW delta \in Assertion!Doubles
    PROVE  /\ Assertion!WithinFloat(delta, e, a) \in BOOLEAN
           /\ Assertion!NaN \in {e, a} => ~Assertion!WithinFloat(delta, e, a)
           /\ {e, a} \subseteq Assertion!Finite /\ delta \in Assertion!Finite =>
                Assertion!WithinFloat(delta, e, a) = (a \in e - delta .. e + delta)
<1>1. ASSUME Assertion!NaN \in {e, a} PROVE ~Assertion!WithinFloat(delta, e, a)
  BY <1>1, Distances DEF Assertion!WithinFloat, Assertion!AtMost
<1>2. ASSUME e \in Assertion!Finite, a \in Assertion!Finite, delta \in Assertion!Finite
      PROVE  Assertion!WithinFloat(delta, e, a) <=> a \in e - delta .. e + delta
  <2>1. /\ Assertion!Distance(e, a) = Assertion!Abs(e - a)
        /\ Assertion!Abs(e - a) \in 0 .. 2 * MaxFloat
    BY <1>2, Distances
  <2>2. e \in Int /\ a \in Int /\ delta \in Int /\ delta <= MaxFloat
    BY <1>2, FloatFacts DEF Assertion!Finite
  <2>3. Assertion!WithinFloat(delta, e, a) <=> Assertion!Abs(e - a) <= delta
    BY <2>1, <2>2, FloatFacts DEF Assertion!WithinFloat, Assertion!AtMost
  <2> QED
    BY <2>2, <2>3 DEF Assertion!Abs
<1>3. Assertion!WithinFloat(delta, e, a) \in BOOLEAN
  BY DEF Assertion!WithinFloat, Assertion!AtMost
<1>4. ASSUME e \in Assertion!Finite, a \in Assertion!Finite, delta \in Assertion!Finite
      PROVE  Assertion!WithinFloat(delta, e, a) = (a \in e - delta .. e + delta)
  BY <1>2, <1>3, <1>4
<1> QED
  BY <1>1, <1>3, <1>4

\* The kinds of the calls that the actions make.
LEMMA CallKinds ==
    /\ Assertion!AssertInteger => call'.kind \in Assertion!IntegerKinds
    /\ Assertion!AssertArray => call'.kind = "array"
    /\ Assertion!AssertEach => call'.kind = "each"
    /\ Assertion!AssertPointer => call'.kind \in {"string", "memory"}
    /\ Assertion!AssertFloatEqual => call'.kind = "float equal"
    /\ Assertion!AssertFloatWithin => call'.kind = "float within"
    /\ Assertion!AssertFloatClass => call'.kind = "float class"
    /\ Assertion!Return => call'.kind = "none"
<1>1. Assertion!AssertInteger => call'.kind \in Assertion!IntegerKinds
  BY DEF Assertion!AssertInteger, Assertion!Integer
<1>2. Assertion!AssertArray => call'.kind = "array"
  BY DEF Assertion!AssertArray
<1>3. Assertion!AssertEach => call'.kind = "each"
  BY DEF Assertion!AssertEach
<1>4. Assertion!AssertPointer => call'.kind \in {"string", "memory"}
  BY DEF Assertion!AssertPointer
<1>5. ASSUME Assertion!AssertFloatEqual PROVE call'.kind = "float equal"
  <2>1. PICK e, a \in Assertion!Doubles, negate \in BOOLEAN :
          call' = [kind |-> "float equal", negate |-> negate, e |-> e, a |-> a]
    BY <1>5, Zenon DEF Assertion!AssertFloatEqual
  <2> QED
    BY <2>1
<1>6. ASSUME Assertion!AssertFloatWithin PROVE call'.kind = "float within"
  <2>1. PICK e, a, delta \in Assertion!Doubles, negate \in BOOLEAN :
          call' = [kind |-> "float within", negate |-> negate, delta |-> delta, e |-> e, a |-> a]
    BY <1>6, Zenon DEF Assertion!AssertFloatWithin
  <2> QED
    BY <2>1
<1>7. ASSUME Assertion!AssertFloatClass PROVE call'.kind = "float class"
  <2>1. PICK a \in Assertion!Doubles, negate \in BOOLEAN, class \in Assertion!Classes :
          call' = [kind |-> "float class", negate |-> negate, class |-> class, a |-> a]
    BY <1>7, Zenon DEF Assertion!AssertFloatClass
  <2> QED
    BY <2>1
<1>8. Assertion!Return => call'.kind = "none"
  BY DEF Assertion!Return, Assertion!Idle
<1> QED
  BY <1>1, <1>2, <1>3, <1>4, <1>5, <1>6, <1>7, <1>8

LEMMA FloatEqualCall ==
    ASSUME NEW e \in Assertion!Doubles, NEW a \in Assertion!Doubles, NEW negate \in BOOLEAN,
           call' = [kind |-> "float equal", negate |-> negate, e |-> e, a |-> a],
           accepted' = (negate # Assertion!EqualFloat(e, a))
    PROVE  FloatsAgree'
<1> DEFINE near == \/ a \in Assertion!Finite /\ Assertion!Abs(e - a) * One <= Assertion!Abs(e)
                   \/ a \in Assertion!Finite /\ Assertion!Abs(e - a) <= 1
<1>1. call'.kind = "float equal" /\ call'.negate = negate /\ call'.e = e /\ call'.a = a
  OBVIOUS
<1>2. Assertion!EqualFloat(e, a) \in BOOLEAN
  BY FloatEqualAgrees
<1>3. ASSUME Assertion!NaN \in {e, a} PROVE accepted' = negate
  <2>1. ~Assertion!EqualFloat(e, a)
    BY <1>3, FloatEqualAgrees
  <2> QED
    BY <1>2, <2>1
<1>4. ASSUME e \in Assertion!Finite PROVE accepted' = (negate # near)
  BY <1>4, FloatEqualAgrees, Zenon
<1> QED
  BY <1>1, <1>3, <1>4, Zenon DEF FloatsAgree, Assertion!FloatsAgree

LEMMA FloatWithinCall ==
    ASSUME NEW e \in Assertion!Doubles, NEW a \in Assertion!Doubles,
           NEW delta \in Assertion!Doubles, NEW negate \in BOOLEAN,
           call' = [kind |-> "float within", negate |-> negate, delta |-> delta,
                    e |-> e, a |-> a],
           accepted' = (negate # Assertion!WithinFloat(delta, e, a))
    PROVE  FloatsAgree'
<1> DEFINE near == a \in e - delta .. e + delta
<1>1. /\ call'.kind = "float within" /\ call'.negate = negate /\ call'.e = e
      /\ call'.a = a /\ call'.delta = delta
  OBVIOUS
<1>2. Assertion!WithinFloat(delta, e, a) \in BOOLEAN
  BY FloatWithinAgrees
<1>3. ASSUME Assertion!NaN \in {e, a} PROVE accepted' = negate
  <2>1. ~Assertion!WithinFloat(delta, e, a)
    BY <1>3, FloatWithinAgrees
  <2> QED
    BY <1>2, <2>1
<1>4. ASSUME {e, a} \subseteq Assertion!Finite, delta \in Assertion!Finite
      PROVE  accepted' = (negate # near)
  BY <1>4, FloatWithinAgrees, Zenon
<1> QED
  BY <1>1, <1>3, <1>4, Zenon DEF FloatsAgree, Assertion!FloatsAgree

LEMMA OthersAreNoFloats ==
    call'.kind \notin {"float equal", "float within"} => FloatsAgree'
BY DEF FloatsAgree, Assertion!FloatsAgree

LEMMA FloatsKept ==
    /\ Assertion!Init => FloatsAgree
    /\ FloatsAgree /\ [Assertion!Next]_assertion => FloatsAgree'
<1>1. Assertion!Init => FloatsAgree
  BY DEF Assertion!Init, Assertion!Idle, FloatsAgree, Assertion!FloatsAgree
<1>2. Assertion!AssertFloatEqual => FloatsAgree'
  BY FloatEqualCall, Zenon DEF Assertion!AssertFloatEqual
<1>3. Assertion!AssertFloatWithin => FloatsAgree'
  BY FloatWithinCall, Zenon DEF Assertion!AssertFloatWithin
<1>4. Assertion!AssertInteger => FloatsAgree'
  BY OthersAreNoFloats, CallKinds DEF Assertion!IntegerKinds
<1>5. Assertion!Next => FloatsAgree'
  BY <1>2, <1>3, <1>4, OthersAreNoFloats, CallKinds DEF Assertion!Next, Assertion!Assert
<1>6.  FloatsAgree /\ UNCHANGED assertion => FloatsAgree'
  BY DEF assertion, FloatsAgree, Assertion!FloatsAgree
<1> QED
  BY <1>1, <1>5, <1>6

\* Floating-point assertions: NaN equals nothing and is within no distance, and
\* a finite expected value accepts exactly the doubles within its tolerance,
\* whatever the tolerance and the largest double are.
THEOREM FloatsHold == Spec => []FloatsAgree
<1>1. Init => Assertion!Init
  BY DEF Init
<1> QED
  BY <1>1, EachPart, FloatsKept, PTL DEF Spec

\* Powers of two: the ranges of the widths.
LEMMA PowerFacts ==
    ASSUME NEW w \in 1 .. Long
    PROVE  /\ 2 ^ w \in Nat /\ 2 ^ (w - 1) \in Nat /\ 2 ^ w = 2 * 2 ^ (w - 1)
           /\ 2 ^ (w - 1) > 0
<1>1. Long \in Nat /\ Long > 0 /\ 2 ^ 0 = 1
      /\ \A n \in 1 .. Long : 2 ^ n \in Nat /\ 2 ^ n = 2 * 2 ^ (n - 1)
  BY AlgorithmsAssumption
<1> DEFINE Bad == {k \in Nat : k <= Long /\ ~(2 ^ k \in Nat /\ 2 ^ k > 0)}
<1>2. ASSUME Bad # {} PROVE FALSE
  <2>1. PICK m \in Bad : \A b \in Bad : m <= b
    <3>1. Bad \in SUBSET Nat
      OBVIOUS
    <3> HIDE DEF Bad
    <3> QED
      BY <1>2, <3>1, Least
  <2>2. m \in 1 .. Long
    <3>1. ASSUME m = 0 PROVE FALSE
      <4>1. 2 ^ m = 1
        BY <1>1, <3>1, Zenon
      <4> QED
        BY <2>1, <4>1
    <3> QED
      BY <1>1, <3>1
  <2>3. m - 1 \in Nat /\ m - 1 <= Long /\ m - 1 \notin Bad
    BY <1>1, <2>1, <2>2
  <2>4. 2 ^ (m - 1) \in Nat /\ 2 ^ (m - 1) > 0
    BY <2>3
  <2>5. 2 ^ m \in Nat /\ 2 ^ m = 2 * 2 ^ (m - 1)
    BY <1>1, <2>2
  <2>6. 2 ^ m > 0
    BY <2>4, <2>5
  <2> QED
    BY <2>5, <2>6
<1>3. w - 1 \in Nat /\ w - 1 <= Long
  BY <1>1
<1>4. 2 ^ (w - 1) \in Nat /\ 2 ^ (w - 1) > 0
  BY <1>2, <1>3
<1> QED
  BY <1>1, <1>4

LEMMA WidthsFit == ASSUME NEW w \in Widths PROVE w \in 1 .. Long /\ w # 0
BY AlgorithmsAssumption

\* A pattern is its own unsigned value, and its signed value tells it apart.
LEMMA PatternValues ==
    ASSUME NEW w \in 1 .. Long, NEW x \in Assertion!Patterns(w)
    PROVE  /\ Assertion!AsUint(x, w) = x
           /\ Assertion!AsInt(x, w) = IF x < 2 ^ (w - 1) THEN x ELSE x - 2 ^ w
<1>1. PICK P \in Nat : P = 2 ^ w
  BY PowerFacts
<1>2. x \in 0 .. P - 1
  BY <1>1 DEF Assertion!Patterns
<1>3. x % P = x
  BY <1>2
<1>4. Assertion!AsUint(x, w) = x
  BY <1>1, <1>3 DEF Assertion!AsUint
<1> QED
  BY <1>4 DEF Assertion!AsInt

LEMMA AsIntInjective ==
    ASSUME NEW w \in 1 .. Long,
           NEW x \in Assertion!Patterns(w), NEW y \in Assertion!Patterns(w)
    PROVE  Assertion!AsInt(x, w) = Assertion!AsInt(y, w) <=> x = y
<1>1. PICK P \in Nat, H \in Nat : P = 2 ^ w /\ H = 2 ^ (w - 1) /\ P = 2 * H
  BY PowerFacts
<1>2. x \in 0 .. P - 1 /\ y \in 0 .. P - 1
  BY <1>1 DEF Assertion!Patterns
<1>3. /\ Assertion!AsInt(x, w) = IF x < H THEN x ELSE x - P
      /\ Assertion!AsInt(y, w) = IF y < H THEN y ELSE y - P
  BY <1>1, PatternValues
<1> QED
  BY <1>2, <1>3

\* The arrays are sequences of their length.
LEMMA ArraysAreSequences ==
    ASSUME NEW w, NEW n \in Nat, NEW e \in Assertion!Arrays(w, n)
    PROVE  /\ Len(e) = n /\ DOMAIN e = 1 .. n
           /\ e = << >> <=> n = 0
<1> DEFINE S == Assertion!Patterns(IF w = 0 THEN 1 ELSE w)
<1>1. e \in [1 .. n -> S]
  BY DEF Assertion!Arrays
<1> HIDE DEF S
<1>2. e \in Seq(S) /\ DOMAIN e = 1 .. n
  BY <1>1, SeqDef
<1>3. Len(e) \in Nat /\ 1 .. Len(e) = 1 .. n
  BY <1>2, LenProperties
<1>4. Len(e) = n
  BY <1>3
<1>5. e = << >> <=> Len(e) = 0
  BY <1>2, EmptySeq
<1> QED
  BY <1>2, <1>4, <1>5

\* An array is equal exactly to itself; the decoding of the elements agrees.
LEMMA EqualArrayAgrees ==
    ASSUME NEW w \in Widths \cup {0}, NEW sign \in Assertion!Signs, NEW n \in Nat,
           NEW e \in Assertion!Arrays(w, n), NEW a \in Assertion!Arrays(w, n)
    PROVE  Assertion!EqualArray(w, sign, e, a) =
             (e = a /\ (w # 0 \/ Len(e) = 0 \/ Len(e) > BufLen))
<1>1. /\ Len(e) = n /\ DOMAIN e = 1 .. n /\ DOMAIN a = 1 .. n
      /\ e = << >> <=> n = 0
      /\ a = << >> <=> n = 0
  BY ArraysAreSequences
<1>2. e = a <=> \A k \in 1 .. n : e[k] = a[k]
  BY DEF Assertion!Arrays
<1>3. ASSUME w # 0
      PROVE  \A k \in 1 .. n :
               Assertion!Actual(a[k], w, sign) = Assertion!Expected(e[k], w, sign) <=> e[k] = a[k]
  <2>1. w \in 1 .. Long
    BY <1>3, WidthsFit
  <2>2. \A k \in 1 .. n : e[k] \in Assertion!Patterns(w) /\ a[k] \in Assertion!Patterns(w)
    BY <1>3 DEF Assertion!Arrays
  <2>3. \A k \in 1 .. n :
          Assertion!AsInt(a[k], w) = Assertion!AsInt(e[k], w) <=> a[k] = e[k]
    BY <2>1, <2>2, AsIntInjective
  <2> QED
    BY <2>3 DEF Assertion!Actual, Assertion!Expected
<1>4. Assertion!EqualArray(w, sign, e, a) \in BOOLEAN
  BY DEF Assertion!EqualArray
<1>5. Assertion!EqualArray(w, sign, e, a) <=>
        (e = a /\ (w # 0 \/ Len(e) = 0 \/ Len(e) > BufLen))
  BY <1>1, <1>2, <1>3, AlgorithmsAssumption DEF Assertion!EqualArray
<1> QED
  BY <1>4, <1>5

LEMMA EachEqualAgrees ==
    ASSUME NEW w \in Widths \cup {0}, NEW sign \in Assertion!Signs, NEW n \in Nat,
           NEW e \in Assertion!Patterns(Long), NEW a \in Assertion!Arrays(w, n)
    PROVE  Assertion!EachEqual(w, sign, e, a) =
             \A k \in DOMAIN a :
               w # 0 /\ (IF sign = 1 \/ w = Long THEN Assertion!AsInt(a[k], w)
                         ELSE Assertion!AsUint(a[k], w)) = Assertion!AsInt(e, Long)
<1>1. DOMAIN a = 1 .. n /\ (a = << >> <=> n = 0)
  BY ArraysAreSequences
<1>2. ASSUME w # 0
      PROVE  \A k \in 1 .. n :
               Assertion!Actual(a[k], w, sign) =
                 IF sign = 1 \/ w = Long THEN Assertion!AsInt(a[k], w)
                 ELSE Assertion!AsUint(a[k], w)
  <2>1. w \in 1 .. Long
    BY <1>2, WidthsFit
  <2>2. \A k \in 1 .. n : a[k] \in Assertion!Patterns(w)
    BY <1>2 DEF Assertion!Arrays
  <2>3. \A k \in 1 .. n : Assertion!AsUint(a[k], w) = a[k]
    BY <2>1, <2>2, PatternValues
  <2> QED
    BY <2>3 DEF Assertion!Actual
<1>3. Assertion!EachEqual(w, sign, e, a) \in BOOLEAN
  BY DEF Assertion!EachEqual
<1>4. Assertion!EachEqual(w, sign, e, a) <=>
        \A k \in DOMAIN a :
          w # 0 /\ (IF sign = 1 \/ w = Long THEN Assertion!AsInt(a[k], w)
                    ELSE Assertion!AsUint(a[k], w)) = Assertion!AsInt(e, Long)
  BY <1>1, <1>2 DEF Assertion!EachEqual
<1> QED
  BY <1>3, <1>4

LEMMA ArrayCallAgrees == Assertion!AssertArray => ArraysCompareElements'
<1> SUFFICES ASSUME Assertion!AssertArray PROVE ArraysCompareElements'
  OBVIOUS
<1>1. PICK w \in Widths \cup {0}, sign \in Assertion!Signs, n \in 0 .. MaxLen :
        \E e, a \in Assertion!Arrays(w, n) :
          /\ call' = [kind |-> "array", w |-> w, sign |-> sign, e |-> e, a |-> a]
          /\ accepted' = Assertion!EqualArray(w, sign, e, a)
  BY Zenon DEF Assertion!AssertArray
<1>2. PICK e \in Assertion!Arrays(w, n), a \in Assertion!Arrays(w, n) :
        /\ call' = [kind |-> "array", w |-> w, sign |-> sign, e |-> e, a |-> a]
        /\ accepted' = Assertion!EqualArray(w, sign, e, a)
  BY <1>1, Zenon
<1>3. n \in Nat
  BY AlgorithmsAssumption
<1>4. accepted' = (e = a /\ (w # 0 \/ Len(e) = 0 \/ Len(e) > BufLen))
  <2>1. Assertion!EqualArray(w, sign, e, a) =
          (e = a /\ (w # 0 \/ Len(e) = 0 \/ Len(e) > BufLen))
    BY <1>3, EqualArrayAgrees
  <2> QED
    BY <1>2, <2>1, Zenon
<1>5. call'.kind = "array" /\ call'.w = w /\ call'.e = e /\ call'.a = a
  BY <1>2
<1>6. "array" \notin {"each", "string", "memory"}
  OBVIOUS
<1> QED
  BY <1>4, <1>5, <1>6, Zenon DEF ArraysCompareElements, Assertion!ArraysCompareElements

LEMMA EachCallAgrees == Assertion!AssertEach => ArraysCompareElements'
<1> SUFFICES ASSUME Assertion!AssertEach PROVE ArraysCompareElements'
  OBVIOUS
<1>1. PICK w \in Widths \cup {0}, sign \in Assertion!Signs, n \in 0 .. MaxLen :
        \E e \in Assertion!Patterns(Long), a \in Assertion!Arrays(w, n) :
          /\ call' = [kind |-> "each", w |-> w, sign |-> sign, e |-> e, a |-> a]
          /\ accepted' = Assertion!EachEqual(w, sign, e, a)
  BY Zenon DEF Assertion!AssertEach
<1>2. PICK e \in Assertion!Patterns(Long), a \in Assertion!Arrays(w, n) :
        /\ call' = [kind |-> "each", w |-> w, sign |-> sign, e |-> e, a |-> a]
        /\ accepted' = Assertion!EachEqual(w, sign, e, a)
  BY <1>1, Zenon
<1>3. n \in Nat
  BY AlgorithmsAssumption
<1>4. accepted' = \A k \in DOMAIN a :
                    w # 0 /\ (IF sign = 1 \/ w = Long THEN Assertion!AsInt(a[k], w)
                              ELSE Assertion!AsUint(a[k], w)) = Assertion!AsInt(e, Long)
  BY <1>2, <1>3, EachEqualAgrees, Zenon
<1>5. call'.kind = "each" /\ call'.w = w /\ call'.sign = sign /\ call'.e = e /\ call'.a = a
  BY <1>2
<1>6. "each" \notin {"array", "string", "memory"}
  OBVIOUS
<1> QED
  BY <1>4, <1>5, <1>6, Zenon DEF ArraysCompareElements, Assertion!ArraysCompareElements

LEMMA PointerCallAgrees == Assertion!AssertPointer => ArraysCompareElements'
<1> SUFFICES ASSUME Assertion!AssertPointer PROVE ArraysCompareElements'
  OBVIOUS
<1>1. PICK e \in Assertion!Pointers, a \in Assertion!Pointers, n \in {0, 1} :
        \/ /\ call' = [kind |-> "string", e |-> e, a |-> a, n |-> 1]
           /\ accepted' = Assertion!EqualString(e, a)
        \/ /\ call' = [kind |-> "memory", e |-> e, a |-> a, n |-> n]
           /\ accepted' = Assertion!EqualMemory(e, a, n)
  BY Zenon DEF Assertion!AssertPointer
<1>2. call'.e = e /\ call'.a = a
  BY <1>1
<1>3. call'.kind \in {"string", "memory"}
  BY <1>1
<1>4. ASSUME accepted', call'.n > 0 PROVE e = 0 <=> a = 0
  <2>1. Assertion!EqualString(e, a) => (e = 0 <=> a = 0)
    BY DEF Assertion!EqualString
  <2>2. CASE /\ call' = [kind |-> "string", e |-> e, a |-> a, n |-> 1]
             /\ accepted' = Assertion!EqualString(e, a)
    BY <1>4, <2>1, <2>2, Zenon
  <2>3. CASE /\ call' = [kind |-> "memory", e |-> e, a |-> a, n |-> n]
             /\ accepted' = Assertion!EqualMemory(e, a, n)
    <3>1. n # 0
      BY <1>4, <2>3
    <3>2. Assertion!EqualMemory(e, a, n)
      BY <1>4, <2>3, Zenon
    <3> QED
      BY <2>1, <3>1, <3>2 DEF Assertion!EqualMemory
  <2> QED
    BY <1>1, <2>2, <2>3
<1>5. call'.kind # "array" /\ call'.kind # "each"
  BY <1>3
<1> QED
  BY <1>2, <1>4, <1>5, Zenon DEF ArraysCompareElements, Assertion!ArraysCompareElements

LEMMA OthersAreNoArrays ==
    call'.kind \notin {"array", "each", "string", "memory"} => ArraysCompareElements'
BY DEF ArraysCompareElements, Assertion!ArraysCompareElements

LEMMA ArraysKept ==
    /\ Assertion!Init => ArraysCompareElements
    /\ ArraysCompareElements /\ [Assertion!Next]_assertion => ArraysCompareElements'
<1>1. Assertion!Init => ArraysCompareElements
  BY DEF Assertion!Init, Assertion!Idle, ArraysCompareElements, Assertion!ArraysCompareElements
<1>2. Assertion!AssertInteger => ArraysCompareElements'
  BY OthersAreNoArrays, CallKinds DEF Assertion!IntegerKinds
<1>3. Assertion!Next => ArraysCompareElements'
  BY <1>2, ArrayCallAgrees, EachCallAgrees, PointerCallAgrees, OthersAreNoArrays, CallKinds
  DEF Assertion!Next, Assertion!Assert
<1>4. ASSUME ArraysCompareElements, UNCHANGED assertion PROVE ArraysCompareElements'
  <2>1. call' = call /\ accepted' = accepted
    BY <1>4 DEF assertion
  <2> QED
    BY <1>4, <2>1, Zenon DEF ArraysCompareElements, Assertion!ArraysCompareElements,
       Assertion!AsInt, Assertion!AsUint
<1> QED
  BY <1>1, <1>3, <1>4

\* Array assertions: the two decodings agree in every width and sign, below the
\* size of the buffer and beyond it, so they accept the arrays with the same
\* elements and no others.
THEOREM ArraysHold == Spec => []ArraysCompareElements
<1>1. Init => Assertion!Init
  BY DEF Init
<1> QED
  BY <1>1, EachPart, ArraysKept, PTL DEF Spec
-----------------------------------------------------------------------------
\* Quotient and remainder.
LEMMA QuotientAndRemainder ==
    ASSUME NEW m \in Nat, m > 0, NEW x \in Int
    PROVE  /\ x \div m \in Int /\ x % m \in 0 .. m - 1
           /\ x = m * (x \div m) + (x % m)
OBVIOUS

LEMMA RemainderUnique ==
    ASSUME NEW m \in Nat, m > 0, NEW x \in Int, NEW q \in Int, NEW r \in 0 .. m - 1,
           x = m * q + r
    PROVE  x % m = r
<1>1. PICK p \in Int, s \in 0 .. m - 1 : x = m * p + s /\ x % m = s
  BY QuotientAndRemainder, Zenon
<1>2. m * (p - q) = r - s /\ p - q \in Int
  BY <1>1
<1>3. p - q >= 1 => m * (p - q) >= m
  BY <1>2
<1>4. p - q <= -1 => m * (p - q) <= -m
  BY <1>2
<1>5. p = q
  BY <1>1, <1>2, <1>3, <1>4
<1> QED
  BY <1>1, <1>5

\* Remainders are equal where the difference is a multiple.
LEMMA SameRemainder ==
    ASSUME NEW m \in Nat, m > 0, NEW x \in Int, NEW y \in Int
    PROVE  x % m = y % m <=> (x - y) % m = 0
<1>1. PICK p \in Int, s \in 0 .. m - 1 : x = m * p + s /\ x % m = s
  BY QuotientAndRemainder, Zenon
<1>2. PICK q \in Int, r \in 0 .. m - 1 : y = m * q + r /\ y % m = r
  BY QuotientAndRemainder, Zenon
<1>3. ASSUME s = r PROVE (x - y) % m = 0
  <2>1. x - y = m * (p - q) + 0 /\ p - q \in Int /\ x - y \in Int /\ 0 \in 0 .. m - 1
    BY <1>1, <1>2, <1>3
  <2> QED
    BY <2>1, RemainderUnique
<1>4. ASSUME (x - y) % m = 0 PROVE s = r
  <2>1. PICK z \in Int : x - y = m * z
    BY <1>4
  <2>2. x = m * (q + z) + r /\ q + z \in Int
    BY <1>2, <2>1
  <2>3. x % m = r
    BY <2>2, RemainderUnique
  <2> QED
    BY <1>1, <2>3
<1> QED
  BY <1>1, <1>2, <1>3, <1>4

\* A remainder modulo twice as much has one more bit.
LEMMA HalfStep ==
    ASSUME NEW m \in Nat, m > 0, NEW x \in Nat
    PROVE  /\ x % (2 * m) = (x % m) + m * ((x \div m) % 2)
           /\ x % m \in 0 .. m - 1 /\ (x \div m) % 2 \in {0, 1}
<1>1. PICK q \in Nat, r \in 0 .. m - 1 : x = m * q + r /\ x % m = r /\ x \div m = q
  OBVIOUS
<1>2. PICK h \in Nat, c \in 0 .. 1 : q = 2 * h + c /\ q % 2 = c
  OBVIOUS
<1>3. x = (2 * m) * h + (m * c + r)
  BY <1>1, <1>2
<1>4. m * c \in {0, m}
  BY <1>2
<1>5. m * c + r \in 0 .. 2 * m - 1 /\ 2 * m \in Nat /\ 2 * m > 0 /\ h \in Int /\ x \in Int
  BY <1>1, <1>4
<1>6. x % (2 * m) = m * c + r
  BY <1>3, <1>5, RemainderUnique
<1> QED
  BY <1>1, <1>2, <1>4, <1>6

\* The low bits of two words are the same where their remainders are.
LowBitsAgree(k, e, a) ==
    e % 2 ^ k = a % 2 ^ k <=>
      \A b \in 0 .. k - 1 : (e \div 2 ^ b) % 2 = (a \div 2 ^ b) % 2

LEMMA PowersPositive == \A b \in 0 .. Long : 2 ^ b \in Nat /\ 2 ^ b > 0
<1>1. Long \in Nat /\ 2 ^ 0 = 1
  BY AlgorithmsAssumption
<1>2. ASSUME NEW b \in 1 .. Long PROVE 2 ^ b \in Nat /\ 2 ^ b > 0
  BY PowerFacts
<1>3. \A b \in 0 .. Long : b = 0 \/ b \in 1 .. Long
  BY <1>1
<1>4. ASSUME NEW b \in 0 .. Long, b = 0 PROVE 2 ^ b = 1
  BY <1>1, <1>4, Zenon
<1> QED
  BY <1>2, <1>3, <1>4

LEMMA LowBitsStep ==
    ASSUME NEW k \in Nat, k > 0, k <= Long, NEW e \in Nat, NEW a \in Nat,
           LowBitsAgree(k - 1, e, a)
    PROVE  LowBitsAgree(k, e, a)
<1>1. k \in 1 .. Long /\ Long \in Nat
  BY AlgorithmsAssumption
<1>2. PICK m \in Nat : m = 2 ^ (k - 1) /\ m > 0 /\ 2 ^ k = 2 * m
  BY <1>1, PowerFacts
<1> DEFINE ec == (e \div m) % 2
           ac == (a \div m) % 2
<1>3. /\ e % (2 * m) = (e % m) + m * ec /\ e % m \in 0 .. m - 1 /\ ec \in {0, 1}
      /\ a % (2 * m) = (a % m) + m * ac /\ a % m \in 0 .. m - 1 /\ ac \in {0, 1}
  BY <1>2, HalfStep
<1>4. m * ec \in {0, m} /\ m * ac \in {0, m} /\ (m * ec = m * ac <=> ec = ac)
  <2> HIDE DEF ec, ac
  <2> QED
    BY <1>2, <1>3
<1>5. e % (2 * m) = a % (2 * m) <=> (e % m = a % m /\ ec = ac)
  <2> HIDE DEF ec, ac
  <2> QED
    BY <1>2, <1>3, <1>4
<1>6. e % m = a % m <=>
        \A b \in 0 .. (k - 1) - 1 : (e \div 2 ^ b) % 2 = (a \div 2 ^ b) % 2
  BY <1>2 DEF LowBitsAgree
<1>7. ec = ac <=> (e \div 2 ^ (k - 1)) % 2 = (a \div 2 ^ (k - 1)) % 2
  BY <1>2
<1>8. \A b \in 0 .. k - 1 : b \in 0 .. (k - 1) - 1 \/ b = k - 1
  BY <1>1
<1>9. k - 1 \in 0 .. k - 1 /\ \A b \in 0 .. (k - 1) - 1 : b \in 0 .. k - 1
  BY <1>1
<1>10. e % 2 ^ k = a % 2 ^ k <=> (e % m = a % m /\ ec = ac)
  BY <1>2, <1>5
<1> HIDE DEF ec, ac
<1> QED
  BY <1>6, <1>7, <1>8, <1>9, <1>10, Zenon DEF LowBitsAgree

LEMMA LowBits ==
    ASSUME NEW w \in 1 .. Long, NEW e \in Nat, NEW a \in Nat
    PROVE  LowBitsAgree(w, e, a)
<1> DEFINE Bad == {k \in Nat : k <= Long /\ ~LowBitsAgree(k, e, a)}
<1>1. Long \in Nat /\ w \in Nat /\ w <= Long
  BY AlgorithmsAssumption
<1>2. ASSUME Bad # {} PROVE FALSE
  <2>1. PICK m \in Bad : \A b \in Bad : m <= b
    <3>1. Bad \in SUBSET Nat
      OBVIOUS
    <3> HIDE DEF Bad
    <3> QED
      BY <1>2, <3>1, Least
  <2>2. LowBitsAgree(0, e, a)
    <3>1. e % 1 = a % 1 /\ 2 ^ 0 = 1
      BY AlgorithmsAssumption
    <3> QED
      BY <3>1 DEF LowBitsAgree
  <2>3. m # 0
    BY <2>1, <2>2
  <2>4. m - 1 \in Nat /\ m - 1 <= Long /\ m - 1 \notin Bad
    BY <1>1, <2>1, <2>3
  <2>5. LowBitsAgree(m, e, a)
    BY <2>1, <2>3, <2>4, LowBitsStep
  <2> QED
    BY <2>1, <2>5
<1> QED
  BY <1>1, <1>2

\* The masks of the HEX macros keep the bits of their width.
LEMMA HexAgrees ==
    ASSUME NEW w \in 1 .. Long, NEW e \in Nat, NEW a \in Nat
    PROVE  Assertion!SameBits(Assertion!Mask(w), e, a) <=> e % 2 ^ w = a % 2 ^ w
<1>1. Long \in Nat /\ w \in Nat /\ w <= Long
  BY AlgorithmsAssumption
<1>2. Assertion!Mask(w) = 0 .. w - 1
  BY <1>1 DEF Assertion!Mask
<1>3. ASSUME NEW b \in 0 .. w - 1
      PROVE  /\ b \in Assertion!Bits(e) <=> (e \div 2 ^ b) % 2 = 1
             /\ b \in Assertion!Bits(a) <=> (a \div 2 ^ b) % 2 = 1
             /\ (e \div 2 ^ b) % 2 \in {0, 1} /\ (a \div 2 ^ b) % 2 \in {0, 1}
  <2>1. b \in 0 .. Long - 1 /\ b \in 0 .. Long
    BY <1>1
  <2>2. PICK m \in Nat : m = 2 ^ b /\ m > 0
    BY <2>1, PowersPositive
  <2>3. (e \div m) % 2 \in {0, 1} /\ (a \div m) % 2 \in {0, 1}
    BY <2>2, HalfStep
  <2> QED
    BY <2>1, <2>2, <2>3 DEF Assertion!Bits
<1>4. Assertion!SameBits(Assertion!Mask(w), e, a) <=>
        \A b \in 0 .. w - 1 : (e \div 2 ^ b) % 2 = (a \div 2 ^ b) % 2
  <2>1. Assertion!SameBits(Assertion!Mask(w), e, a) <=>
          \A b \in 0 .. w - 1 : b \in Assertion!Bits(e) <=> b \in Assertion!Bits(a)
    BY <1>2 DEF Assertion!SameBits
  <2> QED
    BY <1>3, <2>1
<1> QED
  BY <1>4, LowBits DEF LowBitsAgree

LEMMA LongFacts ==
    /\ Long \in Nat /\ Long \in 1 .. Long
    /\ \A x \in Assertion!Patterns(Long) : x \in Nat /\ Assertion!AsInt(x, Long) \in Int
    /\ \A x \in Assertion!Patterns(Long) :
         x \in 0 .. 2 ^ (Long - 1) - 1 => Assertion!AsInt(x, Long) = x
<1>1. Long \in Nat /\ Long \in 1 .. Long
  BY AlgorithmsAssumption
<1>2. ASSUME NEW x \in Assertion!Patterns(Long)
      PROVE  /\ x \in Nat /\ Assertion!AsInt(x, Long) \in Int
             /\ x \in 0 .. 2 ^ (Long - 1) - 1 => Assertion!AsInt(x, Long) = x
  <2>1. PICK P \in Nat, H \in Nat : P = 2 ^ Long /\ H = 2 ^ (Long - 1)
    BY <1>1, PowerFacts
  <2>2. x \in 0 .. P - 1
    BY <2>1 DEF Assertion!Patterns
  <2>3. Assertion!AsInt(x, Long) = IF x < H THEN x ELSE x - P
    BY <1>1, <2>1, PatternValues
  <2> QED
    BY <2>1, <2>2, <2>3
<1> QED
  BY <1>1, <1>2

\* The sized macros compare what is left of the operands.
LEMMA SizedAgree ==
    ASSUME NEW w \in 1 .. Long, NEW e \in Nat, NEW a \in Nat
    PROVE  /\ Assertion!EqualInt(w, e, a) <=> (e - a) % 2 ^ w = 0
           /\ Assertion!EqualUint(w, e, a) <=> (e - a) % 2 ^ w = 0
           /\ Assertion!SameBits(Assertion!Mask(w), e, a) <=> (e - a) % 2 ^ w = 0
<1>1. PICK P \in Nat, H \in Nat : P = 2 ^ w /\ H = 2 ^ (w - 1) /\ P = 2 * H /\ H > 0
  BY PowerFacts
<1>2. e % P = a % P <=> (e - a) % P = 0
  <2>1. P > 0 /\ e \in Int /\ a \in Int
    BY <1>1
  <2> QED
    BY <2>1, SameRemainder, Zenon
<1>3. e % P \in 0 .. P - 1 /\ a % P \in 0 .. P - 1
  BY <1>1
<1>4. /\ Assertion!AsInt(e, w) = IF e % P < H THEN e % P ELSE (e % P) - P
      /\ Assertion!AsInt(a, w) = IF a % P < H THEN a % P ELSE (a % P) - P
  BY <1>1 DEF Assertion!AsInt, Assertion!AsUint
<1>5. Assertion!EqualInt(w, e, a) <=> e % P = a % P
  BY <1>1, <1>3, <1>4 DEF Assertion!EqualInt
<1>6. Assertion!EqualUint(w, e, a) <=> e % P = a % P
  BY <1>1 DEF Assertion!EqualUint, Assertion!AsUint
<1>7. Assertion!SameBits(Assertion!Mask(w), e, a) <=> e % P = a % P
  BY <1>1, HexAgrees
<1> QED
  BY <1>1, <1>2, <1>5, <1>6, <1>7

\* The order, and distances that a long long holds.
LEMMA OrderAgrees ==
    ASSUME NEW e \in Assertion!Patterns(Long), NEW a \in Assertion!Patterns(Long),
           {e, a} \subseteq 0 .. 2 ^ (Long - 1) - 1
    PROVE  /\ Assertion!Greater(e, a, FALSE) = (a > e)
           /\ Assertion!Greater(e, a, TRUE) = (a >= e)
           /\ Assertion!Less(e, a, FALSE) = (a < e)
           /\ Assertion!Less(e, a, TRUE) = (a <= e)
<1>1. Assertion!AsInt(e, Long) = e /\ Assertion!AsInt(a, Long) = a /\ e \in Nat /\ a \in Nat
  BY LongFacts
<1>2. Assertion!Greater(e, a, FALSE) = (a > e)
  BY <1>1 DEF Assertion!Greater
<1>3. Assertion!Greater(e, a, TRUE) = (a >= e)
  BY <1>1 DEF Assertion!Greater
<1>4. Assertion!Less(e, a, FALSE) = (a < e)
  BY <1>1 DEF Assertion!Less
<1>5. Assertion!Less(e, a, TRUE) = (a <= e)
  BY <1>1 DEF Assertion!Less
<1> QED
  BY <1>2, <1>3, <1>4, <1>5, Zenon

LEMMA WithinAgrees ==
    ASSUME NEW e \in Assertion!Patterns(Long), NEW a \in Assertion!Patterns(Long),
           NEW delta \in Assertion!Patterns(Long)
    PROVE  /\ LET d == Assertion!Abs(Assertion!AsInt(a, Long) - Assertion!AsInt(e, Long))
              IN  d < 2 ^ (Long - 1) =>
                    Assertion!WithinInt(delta, e, a) = {d <= Assertion!AsInt(delta, Long)}
           /\ Assertion!WithinUint(delta, e, a) <=> (a <= e + delta /\ e <= a + delta)
<1> DEFINE d == Assertion!AsInt(a, Long) - Assertion!AsInt(e, Long)
<1>1. /\ e \in Nat /\ a \in Nat /\ delta \in Nat /\ d \in Int
      /\ Assertion!AsInt(delta, Long) \in Int
  BY LongFacts
<1>2. PICK H \in Nat : H = 2 ^ (Long - 1)
  BY LongFacts, PowerFacts
<1>3. Assertion!WithinUint(delta, e, a) <=> (a <= e + delta /\ e <= a + delta)
  BY <1>1 DEF Assertion!WithinUint
<1>4. Assertion!Abs(d) = IF d < 0 THEN -d ELSE d
  BY DEF Assertion!Abs
<1>5. Assertion!Fits(d) <=> d > -H /\ d < H
  BY <1>2 DEF Assertion!Fits
<1>6. Assertion!Abs(d) < H => Assertion!Fits(d)
  <2> HIDE DEF d
  <2> QED
    BY <1>1, <1>4, <1>5
<1>7. ASSUME Assertion!Abs(d) < H
      PROVE  Assertion!WithinInt(delta, e, a) =
               {Assertion!Abs(d) <= Assertion!AsInt(delta, Long)}
  <2>1. Assertion!Fits(d)
    BY <1>6, <1>7
  <2>2. Assertion!WithinInt(delta, e, a) =
          IF ~Assertion!Fits(d) THEN BOOLEAN
          ELSE {(IF d < 0 THEN -d ELSE d) <= Assertion!AsInt(delta, Long)}
    BY DEF Assertion!WithinInt
  <2> HIDE DEF d
  <2> QED
    BY <1>4, <2>1, <2>2
<1> QED
  BY <1>2, <1>3, <1>7

\* What IntegersAgree says of one call.
CallAgrees(kind, w, delta, e, a, v) ==
    LET same == (e - a) % 2 ^ w = 0
        small == {e, a} \subseteq 0 .. 2 ^ (Long - 1) - 1
        d == Assertion!Abs(Assertion!AsInt(a, Long) - Assertion!AsInt(e, Long))
    IN  /\ kind \in {"equal", "equal unsigned", "hex"} => v = same
        /\ kind = "not equal" => v = (e # a)
        /\ kind = "bits" =>
             v = \A b \in Assertion!Bits(delta) :
                   b \in Assertion!Bits(e) <=> b \in Assertion!Bits(a)
        /\ kind \in {"greater", "at least"} /\ small =>
             v = (IF kind = "greater" THEN a > e ELSE a >= e)
        /\ kind \in {"less", "at most"} /\ small =>
             v = (IF kind = "less" THEN a < e ELSE a <= e)
        /\ kind = "within" /\ d < 2 ^ (Long - 1) =>
             v = (d <= Assertion!AsInt(delta, Long))
        /\ kind = "within unsigned" => v = (a <= e + delta /\ e <= a + delta)

LEMMA VerdictsAgree ==
    ASSUME NEW w \in Widths, NEW kind \in Assertion!IntegerKinds,
           NEW delta \in Assertion!Patterns(Long), NEW e \in Assertion!Patterns(Long),
           NEW a \in Assertion!Patterns(Long),
           NEW v, v \in Assertion!Verdicts(kind, w, delta, e, a)
    PROVE  CallAgrees(kind, w, delta, e, a, v)
<1> DEFINE same == (e - a) % 2 ^ w = 0
           small == {e, a} \subseteq 0 .. 2 ^ (Long - 1) - 1
           d == Assertion!Abs(Assertion!AsInt(a, Long) - Assertion!AsInt(e, Long))
<1>1. w \in 1 .. Long /\ e \in Nat /\ a \in Nat /\ delta \in Nat
  BY WidthsFit, LongFacts
<1>2. ASSUME kind \in {"equal", "equal unsigned", "hex"} PROVE v = same
  <2>1. CASE kind = "equal"
    <3>1. v = Assertion!EqualInt(w, e, a)
      BY <2>1 DEF Assertion!Verdicts
    <3>2. Assertion!EqualInt(w, e, a) = same
      BY <1>1, SizedAgree DEF Assertion!EqualInt
    <3> QED
      BY <3>1, <3>2, Zenon
  <2>2. CASE kind = "equal unsigned"
    <3>1. v = Assertion!EqualUint(w, e, a)
      BY <2>2 DEF Assertion!Verdicts
    <3>2. Assertion!EqualUint(w, e, a) = same
      BY <1>1, SizedAgree DEF Assertion!EqualUint
    <3> QED
      BY <3>1, <3>2, Zenon
  <2>3. CASE kind = "hex"
    <3>1. v = Assertion!SameBits(Assertion!Mask(w), e, a)
      BY <2>3 DEF Assertion!Verdicts
    <3>2. Assertion!SameBits(Assertion!Mask(w), e, a) = same
      BY <1>1, SizedAgree DEF Assertion!SameBits
    <3> QED
      BY <3>1, <3>2, Zenon
  <2> QED
    BY <1>2, <2>1, <2>2, <2>3
<1>3. ASSUME kind = "not equal" PROVE v = (e # a)
  <2>1. v = ~Assertion!EqualInt(Long, e, a)
    BY <1>3 DEF Assertion!Verdicts
  <2>2. (~Assertion!EqualInt(Long, e, a)) = (e # a)
    BY LongFacts, AsIntInjective DEF Assertion!EqualInt
  <2> QED
    BY <2>1, <2>2, Zenon
<1>4. ASSUME kind = "bits"
      PROVE  v = \A b \in Assertion!Bits(delta) :
                   b \in Assertion!Bits(e) <=> b \in Assertion!Bits(a)
  <2>1. v = Assertion!SameBits(Assertion!Bits(delta), e, a)
    BY <1>4 DEF Assertion!Verdicts
  <2>2. Assertion!SameBits(Assertion!Bits(delta), e, a) =
          \A b \in Assertion!Bits(delta) : b \in Assertion!Bits(e) <=> b \in Assertion!Bits(a)
    BY DEF Assertion!SameBits
  <2> QED
    BY <2>1, <2>2, Zenon
<1>5. ASSUME kind \in {"greater", "at least"}, small
      PROVE  v = (IF kind = "greater" THEN a > e ELSE a >= e)
  <2>1. CASE kind = "greater"
    <3>1. v = Assertion!Greater(e, a, FALSE)
      BY <2>1 DEF Assertion!Verdicts
    <3>2. Assertion!Greater(e, a, FALSE) = (a > e)
      BY <1>5, OrderAgrees, Zenon
    <3> QED
      BY <2>1, <3>1, <3>2, Zenon
  <2>2. CASE kind = "at least"
    <3>1. v = Assertion!Greater(e, a, TRUE)
      BY <2>2 DEF Assertion!Verdicts
    <3>2. Assertion!Greater(e, a, TRUE) = (a >= e)
      BY <1>5, OrderAgrees, Zenon
    <3>3. kind # "greater"
      BY <2>2
    <3> QED
      BY <3>1, <3>2, <3>3, Zenon
  <2> QED
    BY <1>5, <2>1, <2>2
<1>6. ASSUME kind \in {"less", "at most"}, small
      PROVE  v = (IF kind = "less" THEN a < e ELSE a <= e)
  <2>1. CASE kind = "less"
    <3>1. v = Assertion!Less(e, a, FALSE)
      BY <2>1 DEF Assertion!Verdicts
    <3>2. Assertion!Less(e, a, FALSE) = (a < e)
      BY <1>6, OrderAgrees, Zenon
    <3> QED
      BY <2>1, <3>1, <3>2, Zenon
  <2>2. CASE kind = "at most"
    <3>1. v = Assertion!Less(e, a, TRUE)
      BY <2>2 DEF Assertion!Verdicts
    <3>2. Assertion!Less(e, a, TRUE) = (a <= e)
      BY <1>6, OrderAgrees, Zenon
    <3>3. kind # "less"
      BY <2>2
    <3> QED
      BY <3>1, <3>2, <3>3, Zenon
  <2> QED
    BY <1>6, <2>1, <2>2
<1>7. ASSUME kind = "within", d < 2 ^ (Long - 1)
      PROVE  v = (d <= Assertion!AsInt(delta, Long))
  <2>1. v \in Assertion!WithinInt(delta, e, a)
    BY <1>7 DEF Assertion!Verdicts
  <2>2. Assertion!WithinInt(delta, e, a) = {d <= Assertion!AsInt(delta, Long)}
    BY <1>7, WithinAgrees, Zenon
  <2> QED
    BY <2>1, <2>2, Zenon
<1>8. ASSUME kind = "within unsigned" PROVE v = (a <= e + delta /\ e <= a + delta)
  <2>1. v = Assertion!WithinUint(delta, e, a)
    BY <1>8 DEF Assertion!Verdicts
  <2>2. Assertion!WithinUint(delta, e, a) = (a <= e + delta /\ e <= a + delta)
    BY WithinAgrees DEF Assertion!WithinUint
  <2> QED
    BY <2>1, <2>2, Zenon
<1> QED
  BY <1>2, <1>3, <1>4, <1>5, <1>6, <1>7, <1>8, Zenon DEF CallAgrees

LEMMA IntegerCallAgrees == Assertion!AssertInteger => IntegersAgree'
<1> SUFFICES ASSUME Assertion!AssertInteger PROVE IntegersAgree'
  OBVIOUS
<1>1. PICK w \in Widths, delta, e, a \in Assertion!Patterns(Long),
           kind \in Assertion!IntegerKinds :
        /\ call' = Assertion!Integer(kind, w, delta, e, a)
        /\ accepted' \in Assertion!Verdicts(kind, w, delta, e, a)
  BY Zenon DEF Assertion!AssertInteger
<1>2. /\ call'.kind = kind /\ call'.w = w /\ call'.delta = delta
      /\ call'.e = e /\ call'.a = a
  BY <1>1 DEF Assertion!Integer
<1>3. CallAgrees(kind, w, delta, e, a, accepted')
  BY <1>1, VerdictsAgree, Zenon
<1> QED
  BY <1>2, <1>3, Zenon DEF CallAgrees, IntegersAgree, Assertion!IntegersAgree

LEMMA OthersAreNoIntegers ==
    call'.kind \notin Assertion!IntegerKinds => IntegersAgree'
BY DEF IntegersAgree, Assertion!IntegersAgree, Assertion!IntegerKinds

LEMMA IntegersKept ==
    /\ Assertion!Init => IntegersAgree
    /\ IntegersAgree /\ [Assertion!Next]_assertion => IntegersAgree'
<1>1. Assertion!Init => IntegersAgree
  BY DEF Assertion!Init, Assertion!Idle, IntegersAgree, Assertion!IntegersAgree
<1>2. {"array", "each", "string", "memory", "float equal", "float within", "float class",
       "none"} \cap Assertion!IntegerKinds = {}
  BY DEF Assertion!IntegerKinds
<1>3. Assertion!Next => IntegersAgree'
  BY <1>2, IntegerCallAgrees, OthersAreNoIntegers, CallKinds
  DEF Assertion!Next, Assertion!Assert
<1>4. ASSUME IntegersAgree, UNCHANGED assertion PROVE IntegersAgree'
  <2>1. call' = call /\ accepted' = accepted
    BY <1>4 DEF assertion
  <2> QED
    BY <1>4, <2>1, Zenon DEF IntegersAgree, Assertion!IntegersAgree
<1> QED
  BY <1>1, <1>3, <1>4

\* Integer assertions agree with arithmetic, for every width of long long and
\* of the sized macros, and up to the ends of the range.
THEOREM IntegersHold == Spec => []IntegersAgree
<1>1. Init => Assertion!Init
  BY DEF Init
<1> QED
  BY <1>1, EachPart, IntegersKept, PTL DEF Spec
-----------------------------------------------------------------------------
(***************************************************************************)
(* Discovery, for files of any length.  Every TEST_CASE either has a test  *)
(* function with parameters behind it and is an entry, or waits in         *)
(* pending; both are in the order of the file, and those that wait are     *)
(* behind all the others.                                                  *)
(***************************************************************************)
Attached == {c \in Scan!Cases : Scan!After(c) # {}}
Waiting == {c \in Scan!Cases : Scan!After(c) = {}}

EntrySet == [name : Names, label : Nat, args : Nat]

ScanTypes ==
    /\ text \in Seq(Scan!Line) /\ pending \in Seq(Nat) /\ entries \in Seq(EntrySet)
    /\ caseCounter \in Nat

PendingWaits ==
    /\ \A i \in 1 .. Len(pending) : pending[i] \in Waiting
    /\ \A c \in Waiting : \E i \in 1 .. Len(pending) : pending[i] = c
    /\ \A i, j \in 1 .. Len(pending) : i < j => pending[i] < pending[j]

CaseEntries == {k \in 1 .. Len(entries) : entries[k].args # 0}

EntriesAttached ==
    /\ \A k \in CaseEntries : \E c \in Attached :
         entries[k].args = c /\ entries[k].name = text[Scan!Target(c)].name
    /\ \A c \in Attached : \E k \in CaseEntries : entries[k].args = c

EntriesInOrder ==
    /\ \A k \in CaseEntries : entries[k].label <= caseCounter
    /\ \A k, l \in CaseEntries : k < l =>
         entries[k].args < entries[l].args /\ entries[k].label < entries[l].label

\* The bare functions, and the entries of those that no TEST_CASE took.
BareEntries == {k \in 1 .. Len(entries) : entries[k].args = 0}
BareLines ==
    {j \in 1 .. Len(text) : Scan!Bare(text[j]) /\ \A c \in Attached : Scan!Target(c) # j}

BareOnce == Cardinality(BareEntries) = Cardinality(BareLines)

ScanInv == ScanTypes /\ PendingWaits /\ EntriesAttached /\ EntriesInOrder /\ BareOnce

\* The first function a TEST_CASE may be attached to.
LEMMA TargetIsFirst ==
    ASSUME ScanTypes, NEW c, Scan!After(c) # {}
    PROVE  /\ Scan!Target(c) \in Scan!After(c)
           /\ \A j \in Scan!After(c) : Scan!Target(c) <= j
<1>1. Scan!After(c) \in SUBSET Nat
  BY DEF ScanTypes, Scan!After
<1>2. \E j \in Scan!After(c) : \A other \in Scan!After(c) : j <= other
  BY <1>1, Least
<1> QED
  BY <1>2 DEF Scan!Target

\* A TEST_CASE that waits is behind every one that does not.
LEMMA WaitingIsBehind ==
    ASSUME ScanTypes, NEW c \in Attached, NEW d \in Waiting
    PROVE  c \in Nat /\ d \in Nat /\ 0 < c /\ c < d
<1>1. PICK j \in Scan!After(c) : TRUE
  BY DEF Attached
<1>2. c \in 1 .. Len(text) /\ d \in 1 .. Len(text) /\ Len(text) \in Nat
  BY DEF Attached, Waiting, Scan!Cases, ScanTypes
<1>3. j \in 1 .. Len(text) /\ j > c /\ Scan!Parametric(text[j])
  BY <1>1 DEF Scan!After, ScanTypes
<1>4. j \notin Scan!After(d)
  BY DEF Waiting
<1>5. ~(j > d)
  BY <1>3, <1>4 DEF Scan!After, ScanTypes
<1> QED
  BY <1>2, <1>3, <1>5

\* What a line that is read does to the lines before it.
LEMMA TextKept ==
    ASSUME ScanTypes, NEW line \in Scan!Line, text' = Append(text, line),
           NEW n, n = Len(text) + 1
    PROVE  /\ text' \in Seq(Scan!Line) /\ Len(text') = n /\ n \in Nat /\ n > 0
           /\ text'[n] = line /\ DOMAIN text = 1 .. n - 1 /\ DOMAIN text' = 1 .. n
           /\ \A k \in 1 .. n - 1 : text'[k] = text[k]
BY DEF ScanTypes

LEMMA AfterNext ==
    ASSUME ScanTypes, NEW line \in Scan!Line, text' = Append(text, line),
           NEW n, n = Len(text) + 1, NEW k \in 1 .. n
    PROVE  Scan!After(k)' = Scan!After(k)
             \cup (IF k < n /\ Scan!Parametric(line) THEN {n} ELSE {})
<1>1. /\ DOMAIN text = 1 .. n - 1 /\ DOMAIN text' = 1 .. n /\ text'[n] = line
      /\ n \in Nat /\ \A j \in 1 .. n - 1 : text'[j] = text[j]
  BY TextKept
<1>2. \A j : j \in 1 .. n <=> j \in 1 .. n - 1 \/ j = n
  BY <1>1
<1>3. ASSUME NEW j \in 1 .. n - 1
      PROVE  Scan!Parametric(text'[j]) <=> Scan!Parametric(text[j])
  BY <1>1
<1>4. n \notin 1 .. n - 1
  BY <1>1
<1>5. ASSUME NEW j
      PROVE  j \in Scan!After(k)' <=>
               j \in 1 .. n /\ j > k /\ Scan!Parametric(text'[j])
  BY <1>1 DEF Scan!After, Scan!Parametric
<1>6. ASSUME NEW j
      PROVE  j \in Scan!After(k) <=>
               j \in 1 .. n - 1 /\ j > k /\ Scan!Parametric(text[j])
  BY <1>1 DEF Scan!After
<1>7. n > k <=> k < n
  BY <1>1
<1> QED
  BY <1>1, <1>2, <1>3, <1>4, <1>5, <1>6, <1>7

\* A target stays; a TEST_CASE that waits is given a function with parameters.
LEMMA TargetNext ==
    ASSUME ScanTypes, NEW line \in Scan!Line, text' = Append(text, line),
           NEW n, n = Len(text) + 1, NEW c \in 1 .. n - 1
    PROVE  /\ Scan!After(c) # {} =>
                /\ Scan!After(c)' # {} /\ Scan!Target(c)' = Scan!Target(c)
                /\ Scan!Target(c) \in 1 .. n - 1
           /\ Scan!After(c) = {} /\ Scan!Parametric(line) =>
                Scan!After(c)' # {} /\ Scan!Target(c)' = n
           /\ Scan!After(c) = {} /\ ~Scan!Parametric(line) => Scan!After(c)' = {}
<1>1. n \in Nat /\ DOMAIN text = 1 .. n - 1 /\ c \in 1 .. n /\ c < n
  BY TextKept
<1>2. Scan!After(c)' = Scan!After(c) \cup (IF Scan!Parametric(line) THEN {n} ELSE {})
  BY <1>1, AfterNext
<1>3. \A j \in Scan!After(c) : j \in Nat /\ j < n
  BY <1>1 DEF Scan!After
<1>4. ASSUME Scan!After(c) # {}
      PROVE  /\ Scan!After(c)' # {} /\ Scan!Target(c)' = Scan!Target(c)
             /\ Scan!Target(c) \in 1 .. n - 1
  <2>1. PICK t \in Scan!After(c) : t = Scan!Target(c) /\ \A j \in Scan!After(c) : t <= j
    BY <1>4, TargetIsFirst
  <2>2. t \in Scan!After(c)' /\ \A j \in Scan!After(c)' : t <= j
    BY <1>1, <1>2, <1>3, <2>1
  <2>3. \A u \in Scan!After(c)' : (\A j \in Scan!After(c)' : u <= j) => u = t
    BY <1>1, <1>2, <1>3, <2>2
  <2>4. Scan!Target(c)' = t
    BY <2>2, <2>3 DEF Scan!Target
  <2>5. t \in 1 .. n - 1
    BY <1>1, <2>1 DEF Scan!After
  <2> QED
    BY <2>1, <2>2, <2>4, <2>5
<1>5. ASSUME Scan!After(c) = {}, Scan!Parametric(line)
      PROVE  Scan!After(c)' # {} /\ Scan!Target(c)' = n
  <2>1. Scan!After(c)' = {n}
    BY <1>2, <1>5
  <2> QED
    BY <1>1, <2>1 DEF Scan!Target
<1> QED
  BY <1>2, <1>4, <1>5

\* The TEST_CASE lines after a line is read.
LEMMA CasesNext ==
    ASSUME ScanTypes, NEW line \in Scan!Line, text' = Append(text, line),
           NEW n, n = Len(text) + 1
    PROVE  /\ Scan!Cases \subseteq 1 .. n - 1
           /\ Scan!Cases' = Scan!Cases \cup (IF line.kind = "case" THEN {n} ELSE {})
<1>1. /\ DOMAIN text = 1 .. n - 1 /\ DOMAIN text' = 1 .. n /\ text'[n] = line
      /\ n \in Nat /\ n > 0 /\ \A j \in 1 .. n - 1 : text'[j] = text[j]
  BY TextKept
<1>2. \A j : j \in 1 .. n <=> j \in 1 .. n - 1 \/ j = n
  BY <1>1
<1> QED
  BY <1>1, <1>2 DEF Scan!Cases

LEMMA NewCaseWaits ==
    ASSUME ScanTypes, NEW line \in Scan!Line, text' = Append(text, line),
           NEW n, n = Len(text) + 1
    PROVE  Scan!After(n)' = {}
<1>1. n \in 1 .. n /\ n \in Nat /\ DOMAIN text = 1 .. n - 1
  BY TextKept
<1>2. Scan!After(n) = {}
  BY <1>1 DEF Scan!After
<1> QED
  BY <1>1, <1>2, AfterNext

\* A function with parameters attaches every TEST_CASE that waits.
LEMMA ParametricAttaches ==
    ASSUME ScanTypes, NEW line \in Scan!Line, text' = Append(text, line),
           Scan!Parametric(line)
    PROVE  Attached' = Attached \cup Waiting /\ Waiting' = {}
<1>1. PICK n \in Nat : n = Len(text) + 1
  BY DEF ScanTypes
<1>2. line.kind # "case"
  BY DEF Scan!Parametric
<1>3. Scan!Cases \subseteq 1 .. n - 1 /\ Scan!Cases' = Scan!Cases
  BY <1>1, <1>2, CasesNext
<1>4. \A c \in Scan!Cases : Scan!After(c)' # {}
  BY <1>1, <1>3, TargetNext
<1> QED
  BY <1>3, <1>4 DEF Attached, Waiting

\* Any other line attaches none; a TEST_CASE waits.
LEMMA OthersAttachNone ==
    ASSUME ScanTypes, NEW line \in Scan!Line, text' = Append(text, line),
           ~Scan!Parametric(line), NEW n, n = Len(text) + 1
    PROVE  /\ Attached' = Attached
           /\ Waiting' = Waiting \cup (IF line.kind = "case" THEN {n} ELSE {})
<1>1. /\ Scan!Cases \subseteq 1 .. n - 1
      /\ Scan!Cases' = Scan!Cases \cup (IF line.kind = "case" THEN {n} ELSE {})
  BY CasesNext
<1>2. \A c \in Scan!Cases : Scan!After(c)' # {} <=> Scan!After(c) # {}
  BY <1>1, TargetNext
<1>3. Scan!After(n)' = {}
  BY NewCaseWaits
<1> QED
  BY <1>1, <1>2, <1>3 DEF Attached, Waiting

\* A line that attaches nothing: it has no parameters, or no TEST_CASE waits.
LEMMA QuietLine ==
    ASSUME ScanInv, NEW line \in Scan!Line, text' = Append(text, line),
           NEW n, n = Len(text) + 1, ~Scan!Parametric(line) \/ pending = << >>
    PROVE  /\ Attached' = Attached
           /\ Waiting' = Waiting \cup (IF line.kind = "case" THEN {n} ELSE {})
           /\ \A c \in Attached : /\ Scan!Target(c)' = Scan!Target(c)
                                  /\ Scan!Target(c) \in 1 .. n - 1
<1>1. ScanTypes /\ PendingWaits
  BY DEF ScanInv
<1>2. /\ Attached' = Attached
      /\ Waiting' = Waiting \cup (IF line.kind = "case" THEN {n} ELSE {})
  <2>1. CASE ~Scan!Parametric(line)
    BY <1>1, <2>1, OthersAttachNone
  <2>2. CASE Scan!Parametric(line)
    <3>1. line.kind # "case"
      BY <2>2 DEF Scan!Parametric
    <3>2. Len(pending) = 0
      BY <2>2
    <3>3. Waiting = {}
      BY <1>1, <3>2 DEF PendingWaits
    <3> QED
      BY <1>1, <2>2, <3>1, <3>3, ParametricAttaches
  <2> QED
    BY <2>1, <2>2
<1>3. Scan!Cases \subseteq 1 .. n - 1
  BY <1>1, CasesNext
<1> QED
  BY <1>1, <1>2, <1>3, TargetNext DEF Attached

\* Only a bare function adds a line that is run without a TEST_CASE.
LEMMA QuietBareLines ==
    ASSUME ScanInv, NEW line \in Scan!Line, text' = Append(text, line),
           NEW n, n = Len(text) + 1, ~Scan!Parametric(line) \/ pending = << >>
    PROVE  /\ BareLines' = BareLines \cup (IF Scan!Bare(line) THEN {n} ELSE {})
           /\ n \notin BareLines
<1>1. ScanTypes
  BY DEF ScanInv
<1>2. /\ Len(text) = n - 1 /\ Len(text') = n /\ text'[n] = line /\ n \in Nat /\ n > 0
      /\ \A j \in 1 .. n - 1 : text'[j] = text[j]
  BY <1>1, TextKept
<1>3. Attached' = Attached
  BY QuietLine
<1>4. \A c \in Attached : Scan!Target(c)' = Scan!Target(c) /\ Scan!Target(c) # n
  BY <1>2, QuietLine
<1>5. \A j : j \in 1 .. n <=> j \in 1 .. n - 1 \/ j = n
  BY <1>2
<1>6. ASSUME NEW j
      PROVE  j \in BareLines' <=>
               /\ j \in 1 .. n /\ Scan!Bare(text'[j])
               /\ \A c \in Attached : Scan!Target(c) # j
  BY <1>2, <1>3, <1>4 DEF BareLines, Scan!Bare
<1>7. ASSUME NEW j
      PROVE  j \in BareLines <=>
               /\ j \in 1 .. n - 1 /\ Scan!Bare(text[j])
               /\ \A c \in Attached : Scan!Target(c) # j
  BY <1>2 DEF BareLines
<1>8. n \notin 1 .. n - 1
  BY <1>2
<1> QED
  BY <1>2, <1>4, <1>5, <1>6, <1>7, <1>8

\* The entries of the TEST_CASEs stay what they are.
LEMMA QuietEntries ==
    ASSUME ScanInv, NEW line \in Scan!Line, text' = Append(text, line),
           ~Scan!Parametric(line) \/ pending = << >>, caseCounter' = caseCounter,
           CaseEntries' = CaseEntries, \A k \in CaseEntries : entries'[k] = entries[k]
    PROVE  EntriesAttached' /\ EntriesInOrder'
<1>1. ScanTypes /\ EntriesAttached /\ EntriesInOrder
  BY DEF ScanInv
<1>2. PICK n \in Nat : n = Len(text) + 1
  BY <1>1 DEF ScanTypes
<1>3. Attached' = Attached
  BY <1>2, QuietLine
<1>4. \A j \in 1 .. n - 1 : text'[j] = text[j]
  BY <1>1, <1>2, TextKept
<1>5. ASSUME NEW c \in Attached
      PROVE  /\ Scan!Target(c)' = Scan!Target(c)
             /\ text'[Scan!Target(c)] = text[Scan!Target(c)]
  BY <1>2, <1>4, QuietLine
<1>6. ASSUME NEW k \in CaseEntries
      PROVE  \E c \in Attached :
               entries'[k].args = c /\ entries'[k].name = text'[Scan!Target(c)'].name
  <2>1. PICK c \in Attached :
          entries[k].args = c /\ entries[k].name = text[Scan!Target(c)].name
    BY <1>1 DEF EntriesAttached
  <2>2. entries'[k] = entries[k]
    OBVIOUS
  <2> QED
    BY <1>5, <2>1, <2>2
<1>7. EntriesAttached'
  BY <1>1, <1>3, <1>6 DEF EntriesAttached
<1>8. EntriesInOrder'
  BY <1>1 DEF EntriesInOrder
<1> QED
  BY <1>7, <1>8

\* A line without a test changes no entry.
LEMMA QuietKeepsInv ==
    ASSUME ScanInv, NEW line \in Scan!Line, text' = Append(text, line),
           Scan!AddCase(line) \/ Scan!AddSource(line) \/ Scan!Skip(line)
    PROVE  ScanInv'
<1>1. ScanTypes /\ PendingWaits /\ BareOnce
  BY DEF ScanInv
<1>2. PICK n \in Nat : n = Len(text) + 1 /\ n > 0
  BY <1>1 DEF ScanTypes
<1>3. /\ ~Scan!Parametric(line) \/ pending = << >>
      /\ ~Scan!Bare(line)
      /\ entries' = entries /\ caseCounter' = caseCounter
  BY DEF Scan!AddCase, Scan!AddSource, Scan!Skip, Scan!Parametric, Scan!Bare
<1>4. /\ line.kind = "case" => pending' = Append(pending, n)
      /\ line.kind # "case" => pending' = pending
  BY <1>2 DEF Scan!AddCase, Scan!AddSource, Scan!Skip
<1>5. /\ text' \in Seq(Scan!Line)
      /\ Waiting' = Waiting \cup (IF line.kind = "case" THEN {n} ELSE {})
      /\ BareLines' = BareLines
  BY <1>1, <1>2, <1>3, TextKept, QuietLine, QuietBareLines
<1>6. ScanTypes'
  <2>1. pending \in Seq(Nat) /\ entries \in Seq(EntrySet) /\ caseCounter \in Nat
    BY <1>1 DEF ScanTypes
  <2>2. Append(pending, n) \in Seq(Nat)
    BY <2>1
  <2>3. pending' \in Seq(Nat)
    BY <1>4, <2>1, <2>2
  <2> QED
    BY <1>3, <1>5, <2>1, <2>3 DEF ScanTypes
<1>7. CaseEntries' = CaseEntries /\ BareEntries' = BareEntries
  BY <1>3 DEF CaseEntries, BareEntries
<1>8. EntriesAttached' /\ EntriesInOrder'
  BY <1>3, <1>7, QuietEntries
<1>9. PendingWaits'
  <2>1. CASE line.kind # "case"
    BY <1>1, <1>4, <1>5, <2>1 DEF PendingWaits
  <2>2. CASE line.kind = "case"
    <3>1. Waiting \subseteq 1 .. n - 1
      BY <1>1, <1>2, CasesNext DEF Waiting
    <3>2. PICK m \in Nat : m = Len(pending)
      BY <1>1 DEF ScanTypes
    <3>3. /\ Len(pending') = m + 1 /\ pending'[m + 1] = n
          /\ \A i \in 1 .. m : pending'[i] = pending[i]
      <4>1. pending \in Seq(Nat) /\ pending' = Append(pending, n)
        BY <1>1, <1>4, <2>2 DEF ScanTypes
      <4> QED
        BY <3>2, <4>1
    <3>4. \A i \in 1 .. m + 1 : i \in 1 .. m \/ i = m + 1
      BY <3>2
    <3>5. \A i \in 1 .. m : pending[i] \in Waiting /\ pending[i] \in Nat /\ pending[i] < n
      <4>1. \A i \in 1 .. m : pending[i] \in Waiting
        BY <1>1, <3>2 DEF PendingWaits
      <4>2. \A c \in Waiting : c \in Nat /\ c < n
        BY <3>1
      <4> QED
        BY <4>1, <4>2
    <3>6. Waiting' = Waiting \cup {n}
      BY <1>5, <2>2
    <3>7. \A i \in 1 .. Len(pending') : pending'[i] \in Waiting'
      BY <3>3, <3>4, <3>5, <3>6
    <3>8. \A c \in Waiting' : \E i \in 1 .. Len(pending') : pending'[i] = c
      <4>1. m + 1 \in 1 .. m + 1 /\ \A i \in 1 .. m : i \in 1 .. m + 1
        BY <3>2
      <4>2. \A c \in Waiting : \E i \in 1 .. m : pending[i] = c
        BY <1>1, <3>2 DEF PendingWaits
      <4> QED
        BY <3>3, <3>6, <4>1, <4>2
    <3>9. \A i, j \in 1 .. Len(pending') : i < j => pending'[i] < pending'[j]
      <4>1. \A i, j \in 1 .. m : i < j => pending[i] < pending[j]
        BY <1>1, <3>2 DEF PendingWaits
      <4> QED
        BY <3>2, <3>3, <3>4, <3>5, <4>1
    <3> QED
      BY <3>7, <3>8, <3>9 DEF PendingWaits
  <2> QED
    BY <2>1, <2>2
<1>10. BareOnce'
  BY <1>1, <1>5, <1>7 DEF BareOnce
<1> QED
  BY <1>6, <1>8, <1>9, <1>10 DEF ScanInv

\* Adding an element that is not there adds one to the size.
LEMMA OneMore ==
    ASSUME NEW m \in Nat, NEW S \in SUBSET (1 .. m), NEW x, x \notin S
    PROVE  Cardinality(S \cup {x}) = Cardinality(S) + 1 /\ Cardinality(S) \in Nat
<1>1. IsFiniteSet(1 .. m)
  BY FS_Interval
<1>2. IsFiniteSet(S)
  BY <1>1, FS_Subset
<1> QED
  BY <1>2, FS_AddElement, FS_CardinalityType

\* A bare function without a TEST_CASE is one entry and one line.
LEMMA BareKeepsInv ==
    ASSUME ScanInv, NEW line \in Scan!Line, text' = Append(text, line), Scan!AddBare(line)
    PROVE  ScanInv'
<1>1. ScanTypes /\ PendingWaits /\ BareOnce
  BY DEF ScanInv
<1>2. PICK n \in Nat, m \in Nat : n = Len(text) + 1 /\ n > 0 /\ m = Len(entries)
  BY <1>1 DEF ScanTypes
<1>3. /\ Scan!Parametric(line) /\ Scan!Bare(line) /\ pending = << >> /\ line.kind # "case"
      /\ line.name \in Names /\ caseCounter' = caseCounter /\ pending' = << >>
      /\ entries' = Append(entries, Scan!Entry(line.name, 0, 0))
  BY DEF Scan!AddBare, Scan!Parametric, Scan!Bare, Scan!Line
<1>4. text' \in Seq(Scan!Line) /\ Waiting' = Waiting
  BY <1>1, <1>2, <1>3, TextKept, QuietLine
<1>5. BareLines' = BareLines \cup {n} /\ n \notin BareLines
  BY <1>2, <1>3, QuietBareLines
<1>6. /\ Scan!Entry(line.name, 0, 0) \in EntrySet
      /\ Scan!Entry(line.name, 0, 0).args = 0
  BY <1>3 DEF Scan!Entry, EntrySet
<1>7. /\ entries' \in Seq(EntrySet) /\ Len(entries') = m + 1
      /\ entries'[m + 1].args = 0 /\ \A k \in 1 .. m : entries'[k] = entries[k]
  BY <1>1, <1>2, <1>3, <1>6 DEF ScanTypes
<1>8. ScanTypes'
  BY <1>1, <1>3, <1>4, <1>7 DEF ScanTypes
<1>9. \A k : k \in 1 .. m + 1 <=> k \in 1 .. m \/ k = m + 1
  BY <1>2
<1>10. CaseEntries' = CaseEntries /\ \A k \in CaseEntries : entries'[k] = entries[k]
  BY <1>2, <1>7, <1>9 DEF CaseEntries
<1>11. BareEntries' = BareEntries \cup {m + 1} /\ m + 1 \notin BareEntries
  BY <1>2, <1>7, <1>9 DEF BareEntries
<1>12. EntriesAttached' /\ EntriesInOrder'
  BY <1>3, <1>10, QuietEntries
<1>13. PendingWaits'
  BY <1>1, <1>3, <1>4 DEF PendingWaits
<1>14. BareOnce'
  <2>1. BareEntries \in SUBSET (1 .. m) /\ BareLines \in SUBSET (1 .. n)
    BY <1>2 DEF BareEntries, BareLines
  <2>2. Cardinality(BareEntries') = Cardinality(BareEntries) + 1
    BY <1>11, <2>1, OneMore
  <2>3. Cardinality(BareLines') = Cardinality(BareLines) + 1
    BY <1>5, <2>1, OneMore
  <2> QED
    BY <1>1, <2>2, <2>3 DEF BareOnce
<1> QED
  BY <1>8, <1>12, <1>13, <1>14 DEF ScanInv

\* The entries Attach appends.
LEMMA AttachAppends ==
    ASSUME ScanTypes, NEW line \in Scan!Line, Scan!Attach(line)
    PROVE  /\ entries' \in Seq(EntrySet) /\ Len(entries') = Len(entries) + Len(pending)
           /\ \A k \in 1 .. Len(entries) : entries'[k] = entries[k]
           /\ \A i \in 1 .. Len(pending) :
                /\ entries'[Len(entries) + i].name = line.name
                /\ entries'[Len(entries) + i].label = caseCounter + i
                /\ entries'[Len(entries) + i].args = pending[i]
<1> DEFINE added == [k \in DOMAIN pending |->
                       Scan!Entry(line.name, caseCounter + k, pending[k])]
<1>1. /\ pending \in Seq(Nat) /\ entries \in Seq(EntrySet) /\ caseCounter \in Nat
      /\ DOMAIN pending = 1 .. Len(pending) /\ Len(pending) \in Nat
      /\ Len(entries) \in Nat
  BY DEF ScanTypes
<1>2. line.name \in Names /\ entries' = entries \o added
  BY DEF Scan!Attach, Scan!Parametric, Scan!Line
<1>3. ASSUME NEW k \in 1 .. Len(pending)
      PROVE  /\ Scan!Entry(line.name, caseCounter + k, pending[k]) \in EntrySet
             /\ added[k] = Scan!Entry(line.name, caseCounter + k, pending[k])
  <2>1. k \in Nat /\ pending[k] \in Nat
    BY <1>1
  <2> QED
    BY <1>1, <1>2, <2>1 DEF EntrySet, Scan!Entry
<1>4. added \in [1 .. Len(pending) -> EntrySet]
  BY <1>1, <1>3
<1>5. \A i \in 1 .. Len(pending) :
        added[i].name = line.name /\ added[i].label = caseCounter + i
        /\ added[i].args = pending[i]
  BY <1>3 DEF Scan!Entry
<1> HIDE DEF added
<1>6. added \in Seq(EntrySet) /\ Len(added) = Len(pending)
  <2>1. added \in Seq(EntrySet)
    BY <1>1, <1>4, SeqDef
  <2>2. Len(added) \in Nat /\ DOMAIN added = 1 .. Len(added) /\ DOMAIN added = 1 .. Len(pending)
    BY <1>4, <2>1, LenProperties
  <2>3. PICK p \in Nat : p = Len(pending)
    BY <1>1
  <2>4. PICK l \in Nat : l = Len(added)
    BY <2>2
  <2>5. 1 .. l = 1 .. p
    BY <2>2, <2>3, <2>4
  <2>6. l = p
    BY <2>5
  <2> QED
    BY <2>1, <2>3, <2>4, <2>6
<1>7. /\ entries \o added \in Seq(EntrySet)
      /\ Len(entries \o added) = Len(entries) + Len(added)
      /\ \A i \in 1 .. Len(entries) + Len(added) :
           (entries \o added)[i] =
             IF i <= Len(entries) THEN entries[i] ELSE added[i - Len(entries)]
  BY <1>1, <1>6, ConcatProperties
<1>8. PICK m \in Nat, p \in Nat : m = Len(entries) /\ p = Len(pending)
  BY <1>1
<1>9. ASSUME NEW k \in 1 .. m PROVE entries'[k] = entries[k]
  BY <1>2, <1>6, <1>7, <1>8
<1>10. ASSUME NEW i \in 1 .. p PROVE entries'[m + i] = added[i]
  <2>1. m + i \in 1 .. m + p /\ ~(m + i <= m) /\ (m + i) - m = i
    BY <1>8
  <2> QED
    BY <1>2, <1>6, <1>7, <1>8, <2>1
<1> QED
  BY <1>2, <1>5, <1>6, <1>7, <1>8, <1>9, <1>10

\* A function with parameters takes every TEST_CASE that waits, in order.
LEMMA AttachKeepsInv ==
    ASSUME ScanInv, NEW line \in Scan!Line, text' = Append(text, line), Scan!Attach(line)
    PROVE  ScanInv'
<1>1. ScanTypes /\ PendingWaits /\ EntriesAttached /\ EntriesInOrder /\ BareOnce
  BY DEF ScanInv
<1>2. PICK n \in Nat, m \in Nat, p \in Nat :
        n = Len(text) + 1 /\ n > 0 /\ m = Len(entries) /\ p = Len(pending)
  BY <1>1 DEF ScanTypes
<1>3. /\ pending # << >> /\ Scan!Parametric(line) /\ pending' = << >>
      /\ caseCounter' = caseCounter + p
  BY <1>2 DEF Scan!Attach
<1>4. /\ entries' \in Seq(EntrySet) /\ Len(entries') = m + p
      /\ \A k \in 1 .. m : entries'[k] = entries[k]
      /\ \A i \in 1 .. p : /\ entries'[m + i].name = line.name
                           /\ entries'[m + i].label = caseCounter + i
                           /\ entries'[m + i].args = pending[i]
  BY <1>1, <1>2, AttachAppends
<1>5. Attached' = Attached \cup Waiting /\ Waiting' = {}
  BY <1>1, <1>3, ParametricAttaches
<1>6. /\ Attached \subseteq 1 .. n - 1 /\ Waiting \subseteq 1 .. n - 1
      /\ text' \in Seq(Scan!Line) /\ Len(text') = n /\ text'[n] = line
      /\ \A j \in 1 .. n - 1 : text'[j] = text[j]
  BY <1>1, <1>2, CasesNext, TextKept DEF Attached, Waiting
<1>7. ASSUME NEW c \in Attached
      PROVE  /\ Scan!Target(c)' = Scan!Target(c) /\ Scan!Target(c) \in 1 .. n - 1
             /\ text'[Scan!Target(c)] = text[Scan!Target(c)]
  BY <1>1, <1>2, <1>6, TargetNext DEF Attached
<1>8. ASSUME NEW c \in Waiting PROVE Scan!Target(c)' = n
  BY <1>1, <1>2, <1>3, <1>6, TargetNext DEF Waiting
<1>9. \A i \in 1 .. p : pending[i] \in Waiting /\ pending[i] \in Nat /\ pending[i] # 0
  <2>1. \A i \in 1 .. p : pending[i] \in Waiting
    BY <1>1, <1>2 DEF PendingWaits
  <2>2. \A c \in Waiting : c \in Nat /\ c # 0
    BY <1>6
  <2> QED
    BY <2>1, <2>2
<1>10. \A k : k \in 1 .. m + p <=> k \in 1 .. m \/ \E i \in 1 .. p : k = m + i
  <2>1. ASSUME NEW k \in 1 .. m + p, k \notin 1 .. m PROVE \E i \in 1 .. p : k = m + i
    <3>1. k - m \in 1 .. p /\ k = m + (k - m)
      BY <1>2, <2>1
    <3> QED
      BY <3>1
  <2>2. \A i \in 1 .. p : m + i \in 1 .. m + p
    BY <1>2
  <2>3. \A k \in 1 .. m : k \in 1 .. m + p
    BY <1>2
  <2> QED
    BY <2>1, <2>2, <2>3
<1>11. ASSUME NEW k
       PROVE  k \in CaseEntries' <=> k \in CaseEntries \/ \E i \in 1 .. p : k = m + i
  BY <1>2, <1>4, <1>9, <1>10 DEF CaseEntries
<1>12. BareEntries' = BareEntries
  <2>1. ASSUME NEW k PROVE k \in BareEntries' <=> k \in 1 .. m + p /\ entries'[k].args = 0
    BY <1>4 DEF BareEntries
  <2>2. ASSUME NEW k PROVE k \in BareEntries <=> k \in 1 .. m /\ entries[k].args = 0
    BY <1>2 DEF BareEntries
  <2>3. ASSUME NEW i \in 1 .. p PROVE entries'[m + i].args # 0
    BY <1>4, <1>9
  <2>4. ASSUME NEW k \in 1 .. m PROVE entries'[k].args = entries[k].args /\ k \in 1 .. m + p
    BY <1>4, <1>10
  <2>5. ASSUME NEW k \in BareEntries' PROVE k \in BareEntries
    <3>1. k \in 1 .. m \/ \E i \in 1 .. p : k = m + i
      BY <1>10, <2>1
    <3>2. entries'[k].args = 0
      BY <2>1
    <3>3. k \in 1 .. m
      BY <2>3, <3>1, <3>2
    <3> QED
      BY <2>2, <2>4, <3>2, <3>3
  <2>6. ASSUME NEW k \in BareEntries PROVE k \in BareEntries'
    BY <2>1, <2>2, <2>4
  <2> QED
    BY <2>5, <2>6
<1>13. ScanTypes'
  <2>1. << >> \in Seq(Nat) /\ caseCounter + p \in Nat
    BY <1>1, <1>2 DEF ScanTypes
  <2> QED
    BY <1>3, <1>4, <1>6, <2>1 DEF ScanTypes
<1>14. PendingWaits'
  <2>1. Len(pending') = 0
    BY <1>3
  <2> QED
    BY <1>5, <2>1 DEF PendingWaits
<1>15. EntriesAttached'
  <2>1. ASSUME NEW k \in CaseEntries'
        PROVE  \E c \in Attached' :
                 entries'[k].args = c /\ entries'[k].name = text'[Scan!Target(c)'].name
    <3>1. CASE k \in CaseEntries
      <4>1. PICK c \in Attached :
              entries[k].args = c /\ entries[k].name = text[Scan!Target(c)].name
        BY <1>1, <3>1 DEF EntriesAttached
      <4>2. entries'[k] = entries[k]
        BY <1>2, <1>4, <3>1 DEF CaseEntries
      <4> QED
        BY <1>5, <1>7, <4>1, <4>2
    <3>2. ASSUME NEW i \in 1 .. p, k = m + i
          PROVE  \E c \in Attached' :
                   entries'[k].args = c /\ entries'[k].name = text'[Scan!Target(c)'].name
      <4>1. PICK c \in Waiting : c = pending[i]
        BY <1>9
      <4>2. entries'[k].args = c /\ entries'[k].name = line.name
        BY <1>4, <3>2, <4>1
      <4>3. Scan!Target(c)' = n /\ c \in Attached'
        BY <1>5, <1>8
      <4> QED
        BY <1>6, <4>2, <4>3
    <3> QED
      BY <1>11, <2>1, <3>1, <3>2
  <2>2. ASSUME NEW c \in Attached' PROVE \E k \in CaseEntries' : entries'[k].args = c
    <3>1. CASE c \in Attached
      <4>1. PICK k \in CaseEntries : entries[k].args = c
        BY <1>1, <3>1 DEF EntriesAttached
      <4>2. entries'[k] = entries[k] /\ k \in CaseEntries'
        BY <1>2, <1>4, <1>11, <4>1 DEF CaseEntries
      <4> QED
        BY <4>1, <4>2
    <3>2. CASE c \in Waiting
      <4>1. PICK i \in 1 .. p : pending[i] = c
        BY <1>1, <1>2, <3>2 DEF PendingWaits
      <4>2. entries'[m + i].args = c /\ m + i \in CaseEntries'
        BY <1>4, <1>11, <4>1
      <4> QED
        BY <4>2
    <3> QED
      BY <1>5, <2>2, <3>1, <3>2
  <2> QED
    BY <2>1, <2>2 DEF EntriesAttached
<1>16. EntriesInOrder'
  <2>1. \A k \in CaseEntries :
          /\ k \in 1 .. m /\ entries'[k] = entries[k] /\ entries[k].args \in Attached
          /\ entries[k].label \in Nat /\ entries[k].label <= caseCounter
    <3>1. \A k \in 1 .. m : entries[k].label \in Nat
      <4>1. entries \in Seq(EntrySet)
        BY <1>1 DEF ScanTypes
      <4>2. \A k \in 1 .. m : entries[k] \in EntrySet
        BY <1>2, <4>1
      <4> QED
        BY <4>2 DEF EntrySet
    <3>2. \A k \in CaseEntries : k \in 1 .. m /\ entries'[k] = entries[k]
      BY <1>2, <1>4 DEF CaseEntries
    <3>3. \A k \in CaseEntries : entries[k].args \in Attached
      BY <1>1 DEF EntriesAttached
    <3>4. \A k \in CaseEntries : entries[k].label <= caseCounter
      BY <1>1 DEF EntriesInOrder
    <3> QED
      BY <3>1, <3>2, <3>3, <3>4
  <2>2. caseCounter \in Nat
    BY <1>1 DEF ScanTypes
  <2>3. ASSUME NEW k \in CaseEntries' PROVE entries'[k].label <= caseCounter'
    BY <1>2, <1>3, <1>4, <1>11, <2>1, <2>2, <2>3
  <2>4. ASSUME NEW k \in CaseEntries', NEW l \in CaseEntries', k < l
        PROVE  entries'[k].args < entries'[l].args /\ entries'[k].label < entries'[l].label
    <3>1. CASE k \in CaseEntries /\ l \in CaseEntries
      BY <1>1, <2>1, <2>4, <3>1 DEF EntriesInOrder
    <3>2. ASSUME k \in CaseEntries, NEW j \in 1 .. p, l = m + j
          PROVE  /\ entries'[k].args < entries'[l].args
                 /\ entries'[k].label < entries'[l].label
      <4>1. /\ entries'[l].args = pending[j] /\ pending[j] \in Waiting
            /\ entries'[l].label = caseCounter + j /\ j \in Nat /\ j > 0
        BY <1>4, <1>9, <3>2
      <4>2. entries'[k].args \in Attached
        BY <2>1, <3>2
      <4>3. entries'[k].args < pending[j]
        BY <1>1, <4>1, <4>2, WaitingIsBehind
      <4> QED
        BY <2>1, <2>2, <3>2, <4>1, <4>3
    <3>3. ASSUME NEW i \in 1 .. p, NEW j \in 1 .. p, k = m + i, l = m + j
          PROVE  /\ entries'[k].args < entries'[l].args
                 /\ entries'[k].label < entries'[l].label
      <4>1. i < j
        BY <1>2, <2>4, <3>3
      <4>2. pending[i] < pending[j]
        BY <1>1, <1>2, <4>1 DEF PendingWaits
      <4> QED
        BY <1>4, <2>2, <3>3, <4>1, <4>2
    <3>4. ASSUME NEW i \in 1 .. p, k = m + i, l \in CaseEntries PROVE FALSE
      BY <1>2, <2>1, <2>4, <3>4
    <3> QED
      BY <1>11, <2>4, <3>1, <3>2, <3>3, <3>4
  <2> QED
    BY <2>3, <2>4 DEF EntriesInOrder
<1>17. BareLines' = BareLines
  <2>1. PICK d : d \in Waiting
    <3>1. p # 0
      BY <1>1, <1>2, <1>3 DEF ScanTypes
    <3>2. 1 \in 1 .. p
      BY <1>2, <3>1
    <3> QED
      BY <1>9, <3>2
  <2>2. ASSUME NEW j
        PROVE  j \in BareLines' <=>
                 /\ j \in 1 .. n /\ Scan!Bare(text'[j])
                 /\ \A c \in Attached : Scan!Target(c) # j
                 /\ j # n
    <3>1. (\A c \in Attached' : Scan!Target(c)' # j) <=>
            (\A c \in Attached : Scan!Target(c) # j) /\ j # n
      BY <1>5, <1>7, <1>8, <2>1
    <3>2. j \in BareLines' <=>
            /\ j \in 1 .. n /\ Scan!Bare(text'[j])
            /\ \A c \in Attached' : Scan!Target(c)' # j
      BY <1>6 DEF BareLines, Scan!Bare
    <3> QED
      BY <3>1, <3>2
  <2>3. ASSUME NEW j
        PROVE  j \in BareLines <=>
                 /\ j \in 1 .. n - 1 /\ Scan!Bare(text[j])
                 /\ \A c \in Attached : Scan!Target(c) # j
    <3>1. Len(text) = n - 1
      BY <1>1, <1>2 DEF ScanTypes
    <3> QED
      BY <3>1 DEF BareLines
  <2>4. \A j : j \in 1 .. n /\ j # n <=> j \in 1 .. n - 1
    BY <1>2
  <2> QED
    BY <1>6, <2>2, <2>3, <2>4
<1>18. BareOnce'
  BY <1>1, <1>12, <1>17 DEF BareOnce
<1> QED
  BY <1>13, <1>14, <1>15, <1>16, <1>18 DEF ScanInv

LEMMA InitScan == Scan!Init => ScanInv
<1> SUFFICES ASSUME Scan!Init PROVE ScanInv
  OBVIOUS
<1>1. text = << >> /\ pending = << >> /\ entries = << >> /\ caseCounter = 0
  BY DEF Scan!Init
<1>2. /\ << >> \in Seq(Scan!Line) /\ << >> \in Seq(Nat) /\ << >> \in Seq(EntrySet)
      /\ Len(<< >>) = 0
  OBVIOUS
<1>3. Len(text) = 0 /\ Len(pending) = 0 /\ Len(entries) = 0 /\ DOMAIN text = {}
  BY <1>1, <1>2
<1>4. ScanTypes
  BY <1>1, <1>2 DEF ScanTypes
<1>5. Scan!Cases = {}
  BY <1>3 DEF Scan!Cases
<1>6. Attached = {} /\ Waiting = {}
  BY <1>5 DEF Attached, Waiting
<1>7. CaseEntries = {} /\ BareEntries = {} /\ BareLines = {}
  BY <1>3 DEF CaseEntries, BareEntries, BareLines
<1>8. PendingWaits
  BY <1>3, <1>6 DEF PendingWaits
<1>9. EntriesAttached /\ EntriesInOrder
  BY <1>6, <1>7 DEF EntriesAttached, EntriesInOrder
<1>10. BareOnce
  BY <1>7 DEF BareOnce
<1> QED
  BY <1>4, <1>8, <1>9, <1>10 DEF ScanInv

LEMMA ScanKept == ScanInv /\ [Scan!Next]_scan => ScanInv'
<1> SUFFICES ASSUME ScanInv, [Scan!Next]_scan PROVE ScanInv'
  OBVIOUS
<1>1. CASE UNCHANGED scan
  <2>1. /\ text' = text /\ pending' = pending /\ entries' = entries
        /\ caseCounter' = caseCounter
    BY <1>1 DEF scan
  <2>2. Scan!Cases' = Scan!Cases
    BY <2>1 DEF Scan!Cases
  <2>3. ASSUME NEW c PROVE Scan!After(c)' = Scan!After(c)
    BY <2>1 DEF Scan!After, Scan!Parametric
  <2>4. ASSUME NEW c PROVE Scan!Target(c)' = Scan!Target(c)
    BY <2>3 DEF Scan!Target
  <2>5. Attached' = Attached /\ Waiting' = Waiting
    BY <2>2, <2>3 DEF Attached, Waiting
  <2>6. CaseEntries' = CaseEntries /\ BareEntries' = BareEntries
    BY <2>1 DEF CaseEntries, BareEntries
  <2>7. BareLines' = BareLines
    BY <2>1, <2>4, <2>5 DEF BareLines, Scan!Bare
  <2>8. ScanTypes' /\ PendingWaits'
    BY <2>1, <2>5 DEF ScanInv, ScanTypes, PendingWaits
  <2>9. EntriesAttached' /\ EntriesInOrder'
    BY <2>1, <2>4, <2>5, <2>6 DEF ScanInv, EntriesAttached, EntriesInOrder
  <2>10. BareOnce'
    BY <2>6, <2>7 DEF ScanInv, BareOnce
  <2> QED
    BY <2>8, <2>9, <2>10 DEF ScanInv
<1>2. CASE Scan!Next
  <2>1. PICK line \in Scan!Line :
          /\ text' = Append(text, line)
          /\ \/ Scan!AddCase(line) \/ Scan!Attach(line) \/ Scan!AddBare(line)
             \/ Scan!AddSource(line) \/ Scan!Skip(line)
    BY <1>2, Zenon DEF Scan!Next
  <2> QED
    BY <2>1, QuietKeepsInv, BareKeepsInv, AttachKeepsInv
<1> QED
  BY <1>1, <1>2

\* Discover counts with the Cardinality of the module it extends.
LEMMA SameCount == ASSUME NEW S PROVE Scan!Cardinality(S) = Cardinality(S)
BY Zenon DEF Scan!Cardinality, Cardinality

\* The parts of the invariant are the promise.
LEMMA ScanPromise == ScanInv => EntriesAreTheTests
<1> SUFFICES ASSUME ScanInv PROVE EntriesAreTheTests
  OBVIOUS
<1> DEFINE args == {k \in DOMAIN entries : entries[k].args # 0}
           bare == {k \in DOMAIN entries : entries[k].args = 0}
           lone == {j \in DOMAIN text :
                      Scan!Bare(text[j]) /\
                      \A c \in Scan!Cases : Scan!After(c) # {} => Scan!Target(c) # j}
<1>1. ScanTypes /\ EntriesAttached /\ EntriesInOrder /\ BareOnce
  BY DEF ScanInv
<1>2. DOMAIN entries = 1 .. Len(entries) /\ DOMAIN text = 1 .. Len(text)
  BY <1>1 DEF ScanTypes
<1>3. args = CaseEntries /\ bare = BareEntries
  BY <1>2 DEF CaseEntries, BareEntries
<1>4. lone = BareLines
  BY <1>2 DEF BareLines, Attached
<1>5. {entries[k].args : k \in args} = {c \in Scan!Cases : Scan!After(c) # {}}
  BY <1>1, <1>3 DEF EntriesAttached, Attached
<1>6. \A k \in args : entries[k].name = text[Scan!Target(entries[k].args)].name
  BY <1>1, <1>3 DEF EntriesAttached
<1>7. \A k, l \in args : k < l =>
        entries[k].args < entries[l].args /\ entries[k].label # entries[l].label
  <2>1. \A k \in CaseEntries : entries[k].label \in Nat
    <3>1. entries \in Seq(EntrySet)
      BY <1>1 DEF ScanTypes
    <3>2. \A k \in CaseEntries : entries[k] \in EntrySet
      BY <3>1 DEF CaseEntries
    <3> QED
      BY <3>2 DEF EntrySet
  <2> QED
    BY <1>1, <1>3, <2>1 DEF EntriesInOrder
<1>8. Cardinality(bare) = Cardinality(lone)
  BY <1>1, <1>3, <1>4 DEF BareOnce
<1> QED
  <2>1. {entries[k].args : k \in {m \in DOMAIN entries : entries[m].args # 0}}
          = {c \in Scan!Cases : Scan!After(c) # {}}
    BY <1>5
  <2>2. \A k \in {m \in DOMAIN entries : entries[m].args # 0} :
          entries[k].name = text[Scan!Target(entries[k].args)].name
    BY <1>6
  <2>3. \A k, l \in {m \in DOMAIN entries : entries[m].args # 0} : k < l =>
          entries[k].args < entries[l].args /\ entries[k].label # entries[l].label
    BY <1>7
  <2>4. Cardinality({k \in DOMAIN entries : entries[k].args = 0}) = Cardinality(lone)
    BY <1>8
  <2>5. Scan!Cardinality({k \in DOMAIN entries : entries[k].args = 0})
          = Scan!Cardinality(lone)
    BY <2>4, SameCount
  <2> QED
    BY <2>1, <2>2, <2>3, <2>5, Zenon DEF EntriesAreTheTests, Scan!EntriesAreTheTests

\* Discovery: every TEST_CASE with a function behind it is run once, with that
\* function and in order, under a label of its own; so is every bare function
\* that no TEST_CASE took; nothing else is run.
THEOREM EntriesHold == Spec => []EntriesAreTheTests
<1>1. Init => Scan!Init
  BY DEF Init
<1> QED
  BY <1>1, EachPart, InitScan, ScanKept, ScanPromise, PTL DEF Spec
=============================================================================
