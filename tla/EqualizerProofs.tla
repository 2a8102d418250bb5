--------------------------- MODULE EqualizerProofs ---------------------------
(***************************************************************************)
(* For every set of presets, limits, rates and values, and any number of   *)
(* changes: a chain that takes itself for up to date is up to date; the    *)
(* bands stay sorted, apart and in range, and their description true; and  *)
(* a state that is saved and applied again comes back as it was.           *)
(* What normalize_equalizer_bands does to a list is proved by counting: of *)
(* the bands where it would go wrong there is a first one (LeastNumber).   *)
(***************************************************************************)
EXTENDS Equalizer, FiniteSetTheorems, SequenceTheorems, TLAPS

-----------------------------------------------------------------------------
(* What a chain was told.                                                  *)

\* What c says of the controls is of an older version, or true.
Agrees(c) ==
  /\ c.version \in Int /\ c.version <= version
  /\ c.version = version => c.bands = bands /\ c.knobs = knobs

\* A chain or a copy of the controls has what Agrees and telling look at.
IsChain(c) == {"version", "bands", "knobs", "headroom", "settling", "preamp"} \subseteq DOMAIN c

\* The published chain, the copy of the controls and the chain the callback holds.
Inv ==
  /\ version \in Nat
  /\ chain # NoChain => IsChain(chain) /\ Agrees(chain)
  /\ pc # "idle" => IsChain(held) /\ Agrees(held) /\ Agrees(snapshot)

-----------------------------------------------------------------------------
\* The invariant holds at the start.
LEMMA InvInit == Init => Inv
BY DEF Init, Inv

\* A change of the controls leaves everything told before behind.
LEMMA Bumped ==
  ASSUME Inv, version' = version + 1, UNCHANGED <<chain, callback>>
  PROVE  Inv'
<1>1. version \in Nat /\ version' \in Nat
  BY DEF Inv
<1>2. ASSUME NEW c, Agrees(c) PROVE Agrees(c)'
  BY <1>1, <1>2 DEF Agrees
<1>. QED
  BY <1>1, <1>2 DEF Inv, callback

\* A step that changes neither the controls nor what was told of them.
LEMMA Quiet ==
  ASSUME Inv, UNCHANGED <<version, bands, knobs, chain, callback>>
  PROVE  Inv'
BY DEF Inv, Agrees, callback

\* Telling a chain a copy of the controls leaves it with what the copy says.
LEMMA ToldAgrees ==
  ASSUME NEW c, NEW s, IsChain(c), Agrees(c), Agrees(s)
  PROVE  IsChain(Processed(Told(c, s))) /\ Agrees(Processed(Told(c, s)))
<1>. DEFINE t == Told(c, s)
<1>1. IsChain(t) /\ Agrees(t)
  <2>1. CASE c.version = s.version
    BY <2>1 DEF Told
  <2>2. CASE c.version # s.version
    BY <2>2 DEF Told, IsChain, Agrees
  <2>. QED
    BY <2>1, <2>2
<1>. HIDE DEF t
<1>2. /\ DOMAIN Processed(t) = DOMAIN t /\ Processed(t).version = t.version
      /\ Processed(t).bands = t.bands /\ Processed(t).knobs = t.knobs
  BY <1>1 DEF Processed, IsChain
<1>3. IsChain(Processed(t)) /\ Agrees(Processed(t))
  BY <1>1, <1>2 DEF IsChain, Agrees
<1>. QED
  BY <1>3 DEF t

-----------------------------------------------------------------------------
\* Every step keeps the published chain, the copy and the held chain in agreement.
LEMMA InvStep ==
  ASSUME Inv, [Next]_vars
  PROVE  Inv'
<1>. USE DEF control, pipeline
<1>1. ASSUME NEW v \in Volumes, SetVolumePercent(v) PROVE Inv'
  BY <1>1, Bumped DEF SetVolumePercent, Bump
<1>2. ASSUME NEW g \in Gains, SetOutputGain(g) PROVE Inv'
  BY <1>2, Bumped DEF SetOutputGain, Bump
<1>3. ASSUME NEW on \in BOOLEAN, SetEnabled(on) PROVE Inv'
  BY <1>3, Bumped DEF SetEnabled, Bump, Recompute
<1>4. ASSUME NEW p \in ToSet(Presets), SelectPreset(p) PROVE Inv'
  BY <1>4, Bumped DEF SelectPreset, Bump, SetLayout, Recompute, EditsOnlyLayout
<1>5. ASSUME NEW i \in DOMAIN bands, NEW g \in Gains, SetBandGain(i, g) PROVE Inv'
  BY <1>5, Bumped DEF SetBandGain, Bump, SetLayout, Recompute, EditsOnlyLayout
<1>6. CASE SetBandQ
  BY <1>6, Bumped DEF SetBandQ, Bump, Recompute
<1>7. ASSUME NEW f \in Frequencies, NEW g \in Gains, AddBand(f, g) PROVE Inv'
  BY <1>7, Bumped DEF AddBand, Bump, SetLayout, Recompute, EditsOnlyLayout
<1>8. ASSUME NEW i \in DOMAIN bands, RemoveBand(i) PROVE Inv'
  BY <1>8, Bumped DEF RemoveBand, Bump, SetLayout, Recompute, EditsOnlyLayout
<1>9. ASSUME NEW i \in DOMAIN bands, NEW f \in Frequencies, SetBandFrequency(i, f) PROVE Inv'
  BY <1>9, Bumped DEF SetBandFrequency, Bump, SetLayout, Recompute, EditsOnlyLayout
<1>10. ASSUME NEW asked \in States, NEW on \in BOOLEAN, NEW g \in Gains, ApplyState(asked, on, g) PROVE Inv'
  BY <1>10, Bumped DEF ApplyState, Bump, Recompute
<1>11. CASE ResetBegin
  BY <1>11, Bumped DEF ResetBegin, Bump, SetLayout, Recompute
<1>12. CASE ResetEnd
  BY <1>12, Bumped DEF ResetEnd, Bump, Recompute
<1>13. CASE Close
  BY <1>13, Quiet DEF Close, layout, metadata
<1>14. CASE EngineLost
  BY <1>14, Quiet DEF EngineLost, layout, metadata
<1>15. CASE RecoveryFails
  BY <1>15, Quiet DEF RecoveryFails, layout, metadata
<1>16. CASE EngineRecovered
  BY <1>16, Quiet DEF EngineRecovered, layout, metadata
<1>17. CASE SelectOutputDevice
  BY <1>17, Quiet DEF SelectOutputDevice, layout, metadata
<1>18. CASE WorkerTakesRate
  BY <1>18, Quiet DEF WorkerTakesRate, layout, metadata
<1>19. CASE WorkerGivesUp
  BY <1>19, Quiet DEF WorkerGivesUp, layout, metadata
<1>20. CASE PublishPipeline
  <2>1. /\ version \in Nat /\ version' = version + 1 /\ version' \in Nat
        /\ chain' = NewChain(workerRate) /\ UNCHANGED <<pc, snapshot, held>>
    BY <1>20 DEF PublishPipeline, Recompute, Bump, Inv
  <2>2. IsChain(chain') /\ chain'.version = -1
    BY <2>1 DEF NewChain, Configured, NeverTold, IsChain
  <2>3. Agrees(chain)'
    BY <2>1, <2>2 DEF Agrees
  <2>4. ASSUME NEW c, Agrees(c) PROVE Agrees(c)'
    BY <2>1, <2>4 DEF Agrees
  <2>. QED
    BY <2>1, <2>2, <2>3, <2>4 DEF Inv
<1>21. ASSUME NEW r \in Rates, RenderCopy(r) PROVE Inv'
  <2>1. UNCHANGED <<version, bands, knobs, chain>> /\ pc = "idle"
    BY <1>21 DEF RenderCopy, layout, metadata
  <2>2. CASE UNCHANGED <<pc, snapshot, held>>
    BY <2>1, <2>2 DEF Inv, Agrees
  <2>3. CASE /\ chain # NoChain /\ held' = chain
             /\ snapshot' = [version |-> version, bands |-> bands, knobs |-> knobs,
                             headroom |-> headroom]
    <3>1. Agrees(snapshot)'
      BY <2>1, <2>3 DEF Agrees, Inv
    <3>2. IsChain(held') /\ Agrees(held)'
      BY <2>1, <2>3 DEF Agrees, Inv
    <3>3. IsChain(chain') /\ Agrees(chain)'
      BY <2>1, <2>3 DEF Agrees, Inv
    <3>. QED
      BY <2>1, <3>1, <3>2, <3>3 DEF Inv
  <2>. QED
    BY <1>21, <2>2, <2>3 DEF RenderCopy
<1>22. CASE RenderNothing
  BY <1>22 DEF RenderNothing, Inv, Agrees, layout, metadata
<1>23. CASE RenderBlock
  <2>1. /\ UNCHANGED <<version, bands, knobs, snapshot>> /\ pc = "mixing"
        /\ held' = Processed(Told(held, snapshot))
        /\ chain' \in {held', chain}
    BY <1>23 DEF RenderBlock, layout, metadata
  <2>2. IsChain(held) /\ Agrees(held) /\ Agrees(snapshot)
    BY <2>1 DEF Inv
  <2>3. IsChain(held') /\ Agrees(held')
    BY <2>1, <2>2, ToldAgrees
  <2>4. Agrees(held)' /\ Agrees(snapshot)'
    BY <2>1, <2>2, <2>3 DEF Agrees
  <2>5. chain' # NoChain => IsChain(chain') /\ Agrees(chain)'
    BY <2>1, <2>3, <2>4 DEF Inv, Agrees
  <2>. QED
    BY <2>1, <2>3, <2>4, <2>5 DEF Inv
<1>24. CASE RenderReport
  BY <1>24 DEF RenderReport, Inv, Agrees, layout
<1>25. CASE UNCHANGED vars
  BY <1>25, Quiet DEF vars, layout, metadata
<1>. QED
  BY <1>1, <1>2, <1>3, <1>4, <1>5, <1>6, <1>7, <1>8, <1>9, <1>10, <1>11, <1>12,
     <1>13, <1>14, <1>15, <1>16, <1>17, <1>18, <1>19, <1>20, <1>21, <1>22, <1>23,
     <1>24, <1>25
  DEF Next, Edit, Render

\* A published chain that would be told nothing more has the session's bands, gain,
\* volume and switch, whatever was copied before and mixed late.
THEOREM ToldMeansEqual == Spec => []UpToDateMeansEqual
<1>1. Inv => UpToDateMeansEqual
  BY DEF Inv, Agrees, UpToDateMeansEqual
<1>2. Inv /\ [Next]_vars => Inv'
  BY InvStep
<1>. QED
  BY InvInit, <1>1, <1>2, PTL DEF Spec

-----------------------------------------------------------------------------
(* Layouts: what spreading, sorting and clamping make of a list.           *)

\* A set of numbers that has one has a least one.
LEMMA LeastNumber ==
  ASSUME NEW S \in SUBSET Nat, S # {}
  PROVE  \E m \in S : \A k \in S : m <= k
<1>. DEFINE T == {1..k : k \in S}
            R == StrictSubsetOrdering(Nat)
            F == FiniteSubsetsOf(Nat)
<1>1. T \subseteq F /\ T # {}
  <2>1. \A k \in Nat : IsFiniteSet(1..k) /\ 1..k \subseteq Nat
    BY FS_Interval
  <2>. QED
    BY <2>1 DEF FiniteSubsetsOf
<1>2. IsWellFoundedOn(R, F)
  BY FS_StrictSubsetOrderingWellFounded
<1>. HIDE DEF F, R
<1>3. PICK x \in T : \A y \in T : <<y, x>> \notin R
  <2>. HIDE DEF T
  <2>. QED BY <1>1, <1>2, WFMin
<1>4. PICK m \in S : x = 1..m
  OBVIOUS
<1>5. ASSUME NEW k \in S, k < m PROVE FALSE
  <2>1. 1..k \in T /\ 1..k \subseteq 1..m /\ m \in 1..m /\ m \notin 1..k
    BY <1>5
  <2>2. <<1..k, 1..m>> \in R
    BY <2>1 DEF R, StrictSubsetOrdering
  <2>. QED
    BY <2>1, <2>2, <1>3, <1>4
<1>. QED
  BY <1>5

\* The pass upwards is defined at every band by the one before it.
LEMMA PushedUpDef ==
  ASSUME NEW n \in Nat, NEW s, DOMAIN s = 1..n
  PROVE  PushedUp(s) = [i \in 1..n |-> IF i = 1 THEN s[i]
                                        ELSE Larger(s[i], PushedUp(s)[i - 1] + Spacing)]
<1>. DEFINE Next1(g, i) == IF i = 1 THEN s[i] ELSE Larger(s[i], g[i - 1] + Spacing)
            Good(g, k) == g = [i \in 1..k |-> Next1(g, i)]
            Bad == {k \in 0..n : ~ \E g : Good(g, k)}
<1>1. Bad = {}
  <2>1. SUFFICES ASSUME Bad # {} PROVE FALSE
    OBVIOUS
  <2>2. PICK m \in Bad : \A k \in Bad : m <= k
    BY <2>1, LeastNumber, Bad \in SUBSET Nat
  <2>3. m # 0
    <3>1. Good([i \in 1..0 |-> 0], 0)
      OBVIOUS
    <3>. QED
      BY <3>1
  <2>4. PICK g : Good(g, m - 1)
    <3>1. m - 1 \in 0..n /\ ~(m <= m - 1)
      BY <2>3
    <3>. QED
      BY <3>1, <2>2
  <2>5. PICK h : h = [i \in 1..m |-> Next1(g, i)]
    OBVIOUS
  <2>6. \A i \in 1..(m - 1) : h[i] = g[i]
    BY <2>4, <2>5
  <2>7. \A i \in 1..m : Next1(h, i) = Next1(g, i)
    BY <2>6, \A i \in 1..m : i = 1 \/ i - 1 \in 1..(m - 1)
  <2>8. Good(h, m)
    BY <2>5, <2>7
  <2>. QED
    BY <2>8
<1>2. PICK g : Good(g, n)
  <2>. HIDE DEF Good
  <2>. QED
    BY <1>1, n \in 0..n
<1>. QED
  BY <1>2 DEF PushedUp

\* The pass downwards is defined at every band by the one after it.
LEMMA PushedDownDef ==
  ASSUME NEW n \in Nat, NEW s, DOMAIN s = 1..n, Len(s) = n
  PROVE  PushedDown(s) =
           [i \in 1..n |-> IF i = n THEN Smaller(s[i], MaxFrequency)
              ELSE Larger(Smaller(s[i], PushedDown(s)[i + 1] - Spacing), MinFrequency)]
<1>. DEFINE At(g, i) == IF i = n THEN Smaller(s[i], MaxFrequency)
                        ELSE Larger(Smaller(s[i], g[i + 1] - Spacing), MinFrequency)
            Good(g, k) == g = [i \in (n + 1 - k)..n |-> At(g, i)]
            Bad == {k \in 0..n : ~ \E g : Good(g, k)}
<1>1. Bad = {}
  <2>1. SUFFICES ASSUME Bad # {} PROVE FALSE
    OBVIOUS
  <2>2. PICK m \in Bad : \A k \in Bad : m <= k
    BY <2>1, LeastNumber, Bad \in SUBSET Nat
  <2>3. m # 0
    <3>1. Good([i \in (n + 1)..n |-> 0], 0)
      OBVIOUS
    <3>. QED
      BY <3>1
  <2>4. PICK g : Good(g, m - 1)
    <3>1. m - 1 \in 0..n /\ ~(m <= m - 1)
      BY <2>3
    <3>. QED
      BY <3>1, <2>2
  <2>5. PICK h : h = [i \in (n + 1 - m)..n |-> At(g, i)]
    OBVIOUS
  <2>6. \A i \in (n + 2 - m)..n : h[i] = g[i]
    BY <2>4, <2>5
  <2>7. \A i \in (n + 1 - m)..n : At(h, i) = At(g, i)
    BY <2>6, \A i \in (n + 1 - m)..n : i = n \/ i + 1 \in (n + 2 - m)..n
  <2>8. Good(h, m)
    BY <2>5, <2>7
  <2>. QED
    BY <2>8
<1>2. PICK g : Good(g, n)
  <2>. HIDE DEF Good
  <2>. QED
    BY <1>1, n \in 0..n
<1>3. n + 1 - n = 1
  OBVIOUS
<1>. QED
  BY <1>2, <1>3 DEF PushedDown

\* Where band i must be at least, so that there is room for those below it.
Floor(i) == MinFrequency + (i - 1) * Spacing

\* The floors are a spacing apart, and within the limits for every band allowed.
LEMMA FloorFacts ==
  /\ Floor(1) = MinFrequency
  /\ \A i \in Int : Floor(i) \in Int /\ Floor(i + 1) = Floor(i) + Spacing
  /\ \A i \in 1..MaxBands : MinFrequency <= Floor(i) /\ Floor(i) <= MaxFrequency
<1>. USE LayoutAssumption DEF Floor
<1>1. \A i \in Int : (i - 1) * Spacing \in Int /\ (i + 1 - 1) * Spacing = (i - 1) * Spacing + Spacing
  OBVIOUS
<1>2. \A i, j \in Nat : i * Spacing >= 0 /\ (i + j) * Spacing = i * Spacing + j * Spacing
  OBVIOUS
<1>3. ASSUME NEW i \in 1..MaxBands
      PROVE  MinFrequency <= Floor(i) /\ Floor(i) <= MaxFrequency
  <2>1. i - 1 \in Nat /\ MaxBands - i \in Nat /\ (i - 1) + (MaxBands - i) = MaxBands - 1
    OBVIOUS
  <2>2. /\ (i - 1) * Spacing >= 0 /\ (MaxBands - i) * Spacing >= 0
        /\ (MaxBands - 1) * Spacing = (i - 1) * Spacing + (MaxBands - i) * Spacing
    BY <1>2, <2>1
  <2>3. /\ (i - 1) * Spacing \in Int /\ (MaxBands - i) * Spacing \in Int
        /\ (MaxBands - 1) * Spacing \in Int
    OBVIOUS
  <2>. QED
    BY <2>2, <2>3
<1>. QED
  BY <1>1, <1>3

\* Pushed up, every band is above its floor.
LEMMA PushedUpBound ==
  ASSUME NEW n \in Nat, NEW s \in [1..n -> Int], \A i \in 1..n : s[i] >= MinFrequency
  PROVE  /\ PushedUp(s) \in [1..n -> Int]
         /\ \A i \in 1..n : PushedUp(s)[i] >= Floor(i)
<1>. DEFINE u == PushedUp(s)
            Bad == {i \in 1..n : ~ (u[i] \in Int /\ u[i] >= Floor(i))}
<1>. USE LayoutAssumption
<1>0. u = [i \in 1..n |-> IF i = 1 THEN s[i] ELSE Larger(s[i], u[i - 1] + Spacing)]
  BY PushedUpDef
<1>. HIDE DEF u
<1>1. ASSUME Bad # {} PROVE FALSE
  <2>1. PICK m \in Bad : \A k \in Bad : m <= k
    BY <1>1, LeastNumber, Bad \in SUBSET Nat
  <2>2. CASE m = 1
    BY <1>0, <2>1, <2>2, FloorFacts
  <2>3. CASE m # 1
    <3>1. m - 1 \in 1..n /\ m - 1 \notin Bad
      BY <2>1, <2>3
    <3>2. u[m - 1] \in Int /\ u[m - 1] >= Floor(m - 1)
      BY <3>1
    <3>3. Floor(m - 1) \in Int /\ Floor(m) = Floor(m - 1) + Spacing
      <4>1. m - 1 \in Int /\ (m - 1) + 1 = m
        OBVIOUS
      <4>. QED
        BY <4>1, FloorFacts
    <3>4. u[m] = Larger(s[m], u[m - 1] + Spacing)
      BY <1>0, <2>3
    <3>. QED
      BY <3>2, <3>3, <3>4 DEF Larger
  <2>. QED
    BY <2>2, <2>3
<1>. QED
  BY <1>0, <1>1 DEF u

\* Pushed down, bands that are above their floors are in range and apart.
LEMMA PushedDownBound ==
  ASSUME NEW n \in Nat, n <= MaxBands, NEW s \in [1..n -> Int], \A i \in 1..n : s[i] >= Floor(i)
  PROVE  /\ PushedDown(s) \in [1..n -> MinFrequency..MaxFrequency]
         /\ \A i \in 2..n : PushedDown(s)[i] >= PushedDown(s)[i - 1] + Spacing
<1>. DEFINE d == PushedDown(s)
            Fits(i) == d[i] \in Floor(i)..MaxFrequency
            Bad == {k \in 0..(n - 1) : ~ Fits(n - k)}
<1>. USE LayoutAssumption
<1>0. d = [i \in 1..n |-> IF i = n THEN Smaller(s[i], MaxFrequency)
              ELSE Larger(Smaller(s[i], d[i + 1] - Spacing), MinFrequency)]
  BY PushedDownDef, DOMAIN s = 1..n, Len(s) = n
<1>. HIDE DEF d
<1>1. ASSUME NEW i \in 1..n, i # n, Fits(i + 1)
      PROVE  Fits(i) /\ d[i] <= d[i + 1] - Spacing
  <2>1. /\ i \in 1..MaxBands /\ Floor(i) \in Int /\ Floor(i + 1) = Floor(i) + Spacing
        /\ MinFrequency <= Floor(i) /\ Floor(i) <= s[i]
    <3>1. i \in 1..MaxBands
      OBVIOUS
    <3>2. i \in Int
      OBVIOUS
    <3>. QED
      BY <3>1, <3>2, FloorFacts
  <2>2. d[i] = Larger(Smaller(s[i], d[i + 1] - Spacing), MinFrequency)
    BY <1>0, <1>1
  <2>3. d[i + 1] - Spacing >= Floor(i) /\ d[i + 1] \in Int /\ s[i] \in Int
    BY <1>1, <2>1
  <2>. QED
    BY <1>1, <2>1, <2>2, <2>3 DEF Larger, Smaller
<1>2. ASSUME Bad # {} PROVE FALSE
  <2>1. PICK m \in Bad : \A k \in Bad : m <= k
    BY <1>2, LeastNumber, Bad \in SUBSET Nat
  <2>2. CASE m = 0
    <3>1. n \in 1..n /\ n \in 1..MaxBands /\ d[n] = Smaller(s[n], MaxFrequency)
      BY <1>0, <2>2
    <3>2. Floor(n) \in Int /\ Floor(n) <= MaxFrequency /\ s[n] >= Floor(n)
      BY <3>1, FloorFacts
    <3>. QED
      BY <2>2, <3>1, <3>2 DEF Smaller
  <2>3. CASE m # 0
    <3>1. m - 1 \in 0..(n - 1) /\ n - (m - 1) = n - m + 1
      BY <2>3
    <3>3. m - 1 \notin Bad
      BY <2>1
    <3>2. Fits(n - m + 1) /\ n - m \in 1..n /\ n - m # n
      BY <2>3, <3>1, <3>3
    <3>. QED
      BY <1>1, <3>2
  <2>. QED
    BY <2>2, <2>3
<1>3. \A i \in 1..n : Fits(i)
  <2>. SUFFICES ASSUME NEW i \in 1..n PROVE Fits(i)
    OBVIOUS
  <2>1. n - i \in 0..(n - 1) /\ n - (n - i) = i
    OBVIOUS
  <2>. QED
    BY <1>2, <2>1
<1>4. \A i \in 1..n : d[i] \in MinFrequency..MaxFrequency
  <2>. SUFFICES ASSUME NEW i \in 1..n PROVE d[i] \in MinFrequency..MaxFrequency
    OBVIOUS
  <2>1. i \in 1..MaxBands /\ i \in Int
    OBVIOUS
  <2>2. Floor(i) \in Int /\ MinFrequency <= Floor(i)
    BY <2>1, FloorFacts
  <2>. QED
    BY <1>3, <2>2
<1>5. \A i \in 2..n : d[i] >= d[i - 1] + Spacing
  <2>. SUFFICES ASSUME NEW i \in 2..n PROVE d[i] >= d[i - 1] + Spacing
    OBVIOUS
  <2>1. i - 1 \in 1..n /\ i - 1 # n /\ (i - 1) + 1 = i
    OBVIOUS
  <2>2. d[i - 1] <= d[i] - Spacing
    BY <1>1, <1>3, <2>1
  <2>. QED
    BY <1>4, <2>1, <2>2
<1>. QED
  BY <1>0, <1>4, <1>5 DEF d

-----------------------------------------------------------------------------
\* The bands before one band are fewer than the bands before a later one.
LEMMA PlaceOrder ==
  ASSUME NEW n \in Nat, NEW list, DOMAIN list = 1..n,
         \A i \in 1..n : list[i].frequency \in Int
  PROVE  /\ \A i \in 1..n : Place(list, i) \in 1..n
         /\ \A i, j \in 1..n : Before(list, i, j) => Place(list, i) < Place(list, j)
<1>. DEFINE Ahead(i) == {j \in DOMAIN list : Before(list, j, i)}
<1>1. \A i \in 1..n : IsFiniteSet(Ahead(i)) /\ Cardinality(Ahead(i)) \in 0..(n - 1)
  <2>. SUFFICES ASSUME NEW i \in 1..n
                PROVE  IsFiniteSet(Ahead(i)) /\ Cardinality(Ahead(i)) \in 0..(n - 1)
    OBVIOUS
  <2>1. IsFiniteSet(1..n) /\ Cardinality(1..n) = n
    BY FS_Interval
  <2>2. IsFiniteSet((1..n) \ {i}) /\ Cardinality((1..n) \ {i}) = n - 1
    BY <2>1, FS_RemoveElement
  <2>3. Ahead(i) \in SUBSET ((1..n) \ {i})
    BY DEF Before
  <2>. HIDE DEF Ahead
  <2>4. IsFiniteSet(Ahead(i)) /\ Cardinality(Ahead(i)) <= n - 1
    BY <2>2, <2>3, FS_Subset
  <2>5. Cardinality(Ahead(i)) \in Nat
    BY <2>4, FS_CardinalityType
  <2>. QED
    BY <2>4, <2>5
<1>2. ASSUME NEW i \in 1..n, NEW j \in 1..n, Before(list, i, j)
      PROVE  Cardinality(Ahead(i)) < Cardinality(Ahead(j))
  <2>1. Ahead(i) \in SUBSET Ahead(j) /\ i \in Ahead(j) /\ i \notin Ahead(i)
    BY <1>2 DEF Before
  <2>. HIDE DEF Ahead
  <2>2. /\ Cardinality(Ahead(i)) <= Cardinality(Ahead(j))
        /\ Cardinality(Ahead(j)) = Cardinality(Ahead(i)) => Ahead(j) = Ahead(i)
    BY <1>1, <2>1, FS_Subset
  <2>. QED
    BY <1>1, <2>1, <2>2
<1>3. \A i : Place(list, i) = 1 + Cardinality(Ahead(i))
  BY DEF Place
<1>. HIDE DEF Ahead
<1>4. ASSUME NEW i \in 1..n PROVE Place(list, i) \in 1..n
  <2>1. Cardinality(Ahead(i)) \in 0..(n - 1) /\ Place(list, i) = 1 + Cardinality(Ahead(i))
    BY <1>1, <1>3
  <2>. QED
    BY <2>1
<1>5. ASSUME NEW i \in 1..n, NEW j \in 1..n, Before(list, i, j)
      PROVE  Place(list, i) < Place(list, j)
  <2>1. /\ Cardinality(Ahead(i)) \in Int /\ Cardinality(Ahead(j)) \in Int
        /\ Cardinality(Ahead(i)) < Cardinality(Ahead(j))
    BY <1>1, <1>2, <1>5
  <2>. QED
    BY <2>1, <1>3
<1>. QED
  BY <1>4, <1>5

\* Sorting puts every band in a place of its own, and in order.
LEMMA SortedFacts ==
  ASSUME NEW n \in Nat, NEW list, DOMAIN list = 1..n,
         \A i \in 1..n : list[i].frequency \in Int
  PROVE  \E from \in Injection(1..n, 1..n) :
           /\ Sorted(list) = [k \in 1..n |-> list[from[k]]]
           /\ \A k, l \in 1..n : k < l => list[from[k]].frequency <= list[from[l]].frequency
<1>. DEFINE place == [i \in 1..n |-> Place(list, i)]
            from == [k \in 1..n |-> CHOOSE i \in 1..n : Place(list, i) = k]
<1>0. /\ \A i \in 1..n : Place(list, i) \in 1..n
      /\ \A i, j \in 1..n : Before(list, i, j) => Place(list, i) < Place(list, j)
  BY PlaceOrder
<1>1. place \in Injection(1..n, 1..n)
  <2>1. place \in [1..n -> 1..n]
    BY <1>0
  <2>2. ASSUME NEW i \in 1..n, NEW j \in 1..n, i # j PROVE Place(list, i) # Place(list, j)
    <3>1. Before(list, i, j) \/ Before(list, j, i)
      BY <2>2 DEF Before
    <3>2. Place(list, i) \in Int /\ Place(list, j) \in Int
      BY <1>0
    <3>3. Place(list, i) < Place(list, j) \/ Place(list, j) < Place(list, i)
      BY <1>0, <3>1
    <3>. QED
      BY <3>2, <3>3
  <2>. QED
    BY <2>1, <2>2 DEF Injection, IsInjective
<1>2. place \in Surjection(1..n, 1..n)
  <2>1. IsFiniteSet(1..n)
    BY FS_Interval
  <2>. HIDE DEF place
  <2>. QED
    BY <1>1, <2>1, FS_Injection
<1>3. \A k \in 1..n : from[k] \in 1..n /\ Place(list, from[k]) = k
  <2>. SUFFICES ASSUME NEW k \in 1..n PROVE from[k] \in 1..n /\ Place(list, from[k]) = k
    OBVIOUS
  <2>1. \E i \in 1..n : Place(list, i) = k
    BY <1>2 DEF Surjection
  <2>2. from[k] = CHOOSE i \in 1..n : Place(list, i) = k
    OBVIOUS
  <2>. HIDE DEF from
  <2>. QED
    BY <2>1, <2>2
<1>4. Sorted(list) = [k \in 1..n |-> list[from[k]]]
  BY DEF Sorted
<1>. HIDE DEF from
<1>5. from \in Injection(1..n, 1..n)
  BY <1>3 DEF Injection, IsInjective, from
<1>6. ASSUME NEW k \in 1..n, NEW l \in 1..n, k < l
      PROVE  list[from[k]].frequency <= list[from[l]].frequency
  <2>1. ~ Before(list, from[l], from[k])
    <3>1. /\ from[k] \in 1..n /\ from[l] \in 1..n
          /\ Place(list, from[k]) = k /\ Place(list, from[l]) = l
      BY <1>3
    <3>. QED
      BY <1>0, <1>6, <3>1
  <2>. QED
    BY <1>3, <1>6, <2>1 DEF Before
<1>. QED
  BY <1>4, <1>5, <1>6

\* What is in order stays as it is.
LEMMA SortedKeeps ==
  ASSUME NEW n \in Nat, NEW list, list = [i \in 1..n |-> list[i]],
         \A i \in 1..n : list[i].frequency \in Int,
         \A i, j \in 1..n : i < j => list[i].frequency <= list[j].frequency
  PROVE  Sorted(list) = list
<1>1. ASSUME NEW i \in 1..n PROVE Place(list, i) = i
  <2>. DEFINE ahead == {j \in DOMAIN list : Before(list, j, i)}
  <2>1. ahead = 1..(i - 1)
    BY DOMAIN list = 1..n DEF Before
  <2>2. Cardinality(1..(i - 1)) = i - 1
    <3>1. Cardinality(1..(i - 1)) = IF 1 > i - 1 THEN 0 ELSE i - 1 - 1 + 1
      BY FS_Interval
    <3>. QED
      BY <3>1
  <2>3. Place(list, i) = 1 + Cardinality(ahead)
    BY DEF Place
  <2>. HIDE DEF ahead
  <2>. QED
    BY <2>1, <2>2, <2>3
<1>2. ASSUME NEW k \in 1..n PROVE (CHOOSE i \in 1..n : Place(list, i) = k) = k
  BY <1>1
<1>. QED
  BY <1>2, DOMAIN list = 1..n DEF Sorted

-----------------------------------------------------------------------------
\* A band whose values are within the limits.
InRange == [frequency : MinFrequency..MaxFrequency, gain : (-MaxGain)..MaxGain]

\* Whatever is asked for, what comes out is a legal layout with values in range.
LEMMA NormalizeIsLegal ==
  ASSUME NEW list \in Seq([frequency : Int, gain : Int])
  PROVE  /\ Normalize(list) \in Seq(InRange)
         /\ Len(Normalize(list)) = Smaller(Len(list), MaxBands)
         /\ Legal(Normalize(list))
<1>. DEFINE n == Smaller(Len(list), MaxBands)
            c == Clamped(list)
            sorted == Sorted(c)
            f == [i \in DOMAIN sorted |-> sorted[i].frequency]
            r == Normalize(list)
<1>. USE LayoutAssumption
<1>1. n \in Nat /\ n <= MaxBands /\ n <= Len(list)
  BY DEF Smaller
<1>2. c \in [1..n -> InRange]
  <2>. SUFFICES ASSUME NEW i \in 1..n
                PROVE  Band(Clamp(list[i].frequency, MinFrequency, MaxFrequency),
                            Clamp(list[i].gain, -MaxGain, MaxGain)) \in InRange
    BY DEF Clamped
  <2>1. list[i].frequency \in Int /\ list[i].gain \in Int
    <3>1. i \in 1..Len(list)
      <4>1. Len(list) \in Nat
        OBVIOUS
      <4>. HIDE DEF n
      <4>. QED
        BY <1>1, <4>1
    <3>2. list[i] \in [frequency : Int, gain : Int]
      BY <3>1, ElementOfSeq
    <3>. QED
      BY <3>2
  <2>2. MinFrequency <= MaxFrequency
    BY FloorFacts, 1 \in 1..MaxBands
  <2>3. Clamp(list[i].frequency, MinFrequency, MaxFrequency) \in MinFrequency..MaxFrequency
    BY <2>1, <2>2 DEF Clamp, Larger, Smaller
  <2>4. Clamp(list[i].gain, -MaxGain, MaxGain) \in (-MaxGain)..MaxGain
    BY <2>1 DEF Clamp, Larger, Smaller
  <2>. QED
    BY <2>3, <2>4 DEF Band, InRange
<1>. HIDE DEF n, c
<1>3. sorted \in [1..n -> InRange]
  <2>1. \A i \in 1..n : c[i].frequency \in Int
    BY <1>2 DEF InRange
  <2>2. DOMAIN c = 1..n
    BY <1>2
  <2>3. PICK from \in Injection(1..n, 1..n) :
           /\ Sorted(c) = [k \in 1..n |-> c[from[k]]]
           /\ \A k, l \in 1..n : k < l => c[from[k]].frequency <= c[from[l]].frequency
    BY <1>1, <2>1, <2>2, SortedFacts
  <2>. QED
    BY <1>2, <2>3 DEF Injection
<1>. HIDE DEF sorted
<1>4. f \in [1..n -> Int] /\ \A i \in 1..n : f[i] >= MinFrequency
  BY <1>3 DEF InRange
<1>5. /\ Spread(f) \in [1..n -> MinFrequency..MaxFrequency]
      /\ \A i \in 2..n : Spread(f)[i] >= Spread(f)[i - 1] + Spacing
  <2>. HIDE DEF f
  <2>1. PushedUp(f) \in [1..n -> Int] /\ \A i \in 1..n : PushedUp(f)[i] >= Floor(i)
    BY <1>1, <1>4, PushedUpBound
  <2>. QED
    BY <1>1, <2>1, PushedDownBound DEF Spread
<1>6. r = [i \in 1..n |-> Band(Spread(f)[i], sorted[i].gain)]
  BY <1>3 DEF Normalize, sorted, c
<1>. HIDE DEF f, r
<1>7. /\ \A i \in 1..n : r[i] \in InRange /\ r[i].frequency = Spread(f)[i]
      /\ r = [i \in 1..n |-> r[i]]
  BY <1>3, <1>5, <1>6 DEF InRange, Band
<1>8. r \in Seq(InRange) /\ Len(r) = n
  <2>1. r \in [1..n -> InRange]
    BY <1>7
  <2>. QED
    BY <1>1, <2>1, SeqDef
<1>9. Legal(r)
  <2>1. \A i \in 1..n : r[i].frequency \in MinFrequency..MaxFrequency
    BY <1>7 DEF InRange
  <2>2. \A i \in 2..n : r[i].frequency >= r[i - 1].frequency + Spacing
    <3>1. \A i \in 2..n : i \in 1..n /\ i - 1 \in 1..n
      BY <1>1
    <3>. QED
      BY <1>5, <1>7, <3>1
  <2>3. DOMAIN r = 1..n
    BY <1>7
  <2>. QED
    BY <1>1, <1>8, <2>1, <2>2, <2>3 DEF Legal
<1>. QED
  BY <1>8, <1>9 DEF n, r

-----------------------------------------------------------------------------
\* Frequencies that are apart are in order.
LEMMA ApartAscend ==
  ASSUME NEW n \in Nat, NEW s \in [1..n -> Int],
         \A i \in 2..n : s[i] >= s[i - 1] + Spacing
  PROVE  \A i, j \in 1..n : i < j => s[i] <= s[j]
<1>. SUFFICES ASSUME NEW i \in 1..n PROVE \A j \in 1..n : i < j => s[i] <= s[j]
  OBVIOUS
<1>. DEFINE Bad == {j \in 1..n : i < j /\ ~ s[i] <= s[j]}
<1>1. ASSUME Bad # {} PROVE FALSE
  <2>1. PICK m \in Bad : \A j \in Bad : m <= j
    BY <1>1, LeastNumber, Bad \in SUBSET Nat
  <2>2. m \in 2..n /\ m - 1 \in 1..n /\ m - 1 \notin Bad /\ i <= m - 1
    BY <2>1
  <2>3. s[i] <= s[m - 1]
    BY <2>2
  <2>4. s[m] >= s[m - 1] + Spacing /\ s[m] \in Int /\ s[m - 1] \in Int /\ s[i] \in Int
    BY <2>2
  <2>. QED
    BY <2>1, <2>3, <2>4, LayoutAssumption
<1>. QED
  BY <1>1

\* Where the frequencies are apart the pass upwards finds nothing to do.
LEMMA PushedUpKeeps ==
  ASSUME NEW n \in Nat, NEW s \in [1..n -> Int],
         \A i \in 2..n : s[i] >= s[i - 1] + Spacing
  PROVE  PushedUp(s) = s
<1>. DEFINE u == PushedUp(s)
            Bad == {i \in 1..n : u[i] # s[i]}
<1>0. u = [i \in 1..n |-> IF i = 1 THEN s[i] ELSE Larger(s[i], u[i - 1] + Spacing)]
  BY PushedUpDef
<1>. HIDE DEF u
<1>1. ASSUME Bad # {} PROVE FALSE
  <2>1. PICK m \in Bad : \A i \in Bad : m <= i
    BY <1>1, LeastNumber, Bad \in SUBSET Nat
  <2>2. CASE m = 1
    BY <1>0, <2>2
  <2>3. CASE m # 1
    <3>1. m \in 2..n /\ m - 1 \in 1..n /\ m - 1 \notin Bad
      BY <2>1, <2>3
    <3>2. u[m - 1] = s[m - 1] /\ u[m] = Larger(s[m], u[m - 1] + Spacing)
      BY <1>0, <2>3, <3>1
    <3>3. s[m] >= s[m - 1] + Spacing
      BY <3>1
    <3>. QED
      BY <3>2, <3>3 DEF Larger
  <2>. QED
    BY <2>2, <2>3
<1>2. \A i \in 1..n : u[i] = s[i]
  BY <1>1
<1>3. u = s
  BY <1>0, <1>2
<1>. QED
  BY <1>3 DEF u

\* Where they are in range as well, the pass downwards finds nothing either.
LEMMA PushedDownKeeps ==
  ASSUME NEW n \in Nat, NEW s \in [1..n -> MinFrequency..MaxFrequency],
         \A i \in 2..n : s[i] >= s[i - 1] + Spacing
  PROVE  PushedDown(s) = s
<1>. DEFINE d == PushedDown(s)
            Bad == {k \in 0..(n - 1) : d[n - k] # s[n - k]}
<1>. USE LayoutAssumption
<1>0. d = [i \in 1..n |-> IF i = n THEN Smaller(s[i], MaxFrequency)
              ELSE Larger(Smaller(s[i], d[i + 1] - Spacing), MinFrequency)]
  BY PushedDownDef, DOMAIN s = 1..n, Len(s) = n
<1>. HIDE DEF d
<1>1. ASSUME NEW i \in 1..n, i # n, d[i + 1] = s[i + 1] PROVE d[i] = s[i]
  <2>1. i + 1 \in 2..n /\ (i + 1) - 1 = i
    BY <1>1
  <2>2. s[i + 1] >= s[i] + Spacing
    BY <2>1
  <2>3. d[i] = Larger(Smaller(s[i], d[i + 1] - Spacing), MinFrequency)
    BY <1>0, <1>1
  <2>4. s[i] \in Int /\ s[i + 1] \in Int /\ s[i] >= MinFrequency
    BY <2>1
  <2>. QED
    BY <1>1, <2>2, <2>3, <2>4 DEF Larger, Smaller
<1>2. ASSUME Bad # {} PROVE FALSE
  <2>1. PICK m \in Bad : \A k \in Bad : m <= k
    BY <1>2, LeastNumber, Bad \in SUBSET Nat
  <2>2. CASE m = 0
    <3>1. n \in 1..n /\ d[n] = Smaller(s[n], MaxFrequency)
      BY <1>0, <2>2
    <3>2. s[n] \in Int /\ s[n] <= MaxFrequency
      BY <3>1
    <3>. QED
      BY <2>2, <3>1, <3>2 DEF Smaller
  <2>3. CASE m # 0
    <3>1. m - 1 \in 0..(n - 1) /\ n - (m - 1) = n - m + 1
      BY <2>3
    <3>2. m - 1 \notin Bad
      <4>1. m \in Nat /\ ~ m <= m - 1
        OBVIOUS
      <4>. HIDE DEF Bad
      <4>. QED
        BY <2>1, <4>1
    <3>3. d[n - m + 1] = s[n - m + 1] /\ n - m \in 1..n /\ n - m # n
      BY <2>3, <3>1, <3>2
    <3>. QED
      BY <1>1, <3>3
  <2>. QED
    BY <2>2, <2>3
<1>3. \A i \in 1..n : d[i] = s[i]
  <2>. SUFFICES ASSUME NEW i \in 1..n PROVE d[i] = s[i]
    OBVIOUS
  <2>1. n - i \in 0..(n - 1) /\ n - (n - i) = i
    OBVIOUS
  <2>. QED
    BY <1>2, <2>1
<1>. QED
  BY <1>0, <1>3 DEF d

\* A legal layout with values in range is left as it is.
LEMMA NormalizeKeeps ==
  ASSUME NEW list \in Seq(InRange), Legal(list)
  PROVE  Normalize(list) = list
<1>. DEFINE n == Len(list)
            f == [i \in 1..n |-> list[i].frequency]
<1>. USE LayoutAssumption
<1>1. /\ n \in Nat /\ n <= MaxBands /\ Smaller(n, MaxBands) = n
      /\ list \in [1..n -> InRange]
  BY DEF Legal, Smaller
<1>. HIDE DEF n
<1>2. \A i \in 1..n : /\ list[i].frequency \in MinFrequency..MaxFrequency
                      /\ list[i].gain \in (-MaxGain)..MaxGain
                      /\ list[i] = Band(list[i].frequency, list[i].gain)
  BY <1>1 DEF InRange, Band
<1>3. Clamped(list) = list
  <2>1. \A i \in 1..n : /\ Clamp(list[i].frequency, MinFrequency, MaxFrequency) = list[i].frequency
                        /\ Clamp(list[i].gain, -MaxGain, MaxGain) = list[i].gain
    BY <1>2 DEF Clamp, Larger, Smaller
  <2>. QED
    BY <1>1, <1>2, <2>1 DEF Clamped, n
<1>4. /\ f \in [1..n -> MinFrequency..MaxFrequency] /\ f \in [1..n -> Int]
      /\ \A i \in 2..n : f[i] >= f[i - 1] + Spacing
  <2>1. \A i \in 2..n : i \in 1..n /\ i - 1 \in 1..n
    BY <1>1
  <2>. QED
    BY <1>2, <2>1 DEF Legal, n
<1>5. Sorted(list) = list
  <2>1. \A i, j \in 1..n : i < j => f[i] <= f[j]
    <3>. HIDE DEF f
    <3>. QED
      BY <1>1, <1>4, ApartAscend
  <2>2. \A i, j \in 1..n : i < j => list[i].frequency <= list[j].frequency
    BY <2>1
  <2>. QED
    BY <1>1, <1>2, <2>2, SortedKeeps
<1>6. Spread(f) = f
  <2>. HIDE DEF f
  <2>. QED
    BY <1>1, <1>4, PushedUpKeeps, PushedDownKeeps DEF Spread
<1>7. DOMAIN list = 1..n
  BY <1>1
<1>8. Normalize(list) = [i \in 1..n |-> Band(Spread(f)[i], list[i].gain)]
  BY <1>3, <1>5, <1>7 DEF Normalize
<1>9. \A i \in 1..n : Band(Spread(f)[i], list[i].gain) = list[i]
  BY <1>2, <1>6
<1>. HIDE DEF f
<1>. QED
  BY <1>1, <1>8, <1>9

-----------------------------------------------------------------------------
\* A band that is moved to where its neighbours leave room leaves the layout legal.
LEMMA MovedIsLegal ==
  ASSUME NEW list \in Seq(InRange), Len(list) <= MaxBands, NEW i \in 1..Len(list),
         NEW x \in Int, Lowest(list, i) <= Highest(list, i),
         \A k \in 2..Len(list) :
           k # i /\ k - 1 # i => list[k].frequency >= list[k - 1].frequency + Spacing
  PROVE  LET moved == [list EXCEPT ![i].frequency =
                         Clamp(x, Lowest(list, i), Highest(list, i))]
         IN  moved \in Seq(InRange) /\ Len(moved) = Len(list) /\ Legal(moved)
<1>. DEFINE n == Len(list)
            low == Lowest(list, i)
            high == Highest(list, i)
            to == Clamp(x, low, high)
            moved == [list EXCEPT ![i].frequency = to]
<1>. USE LayoutAssumption
<1>1. n \in Nat /\ list \in [1..n -> InRange]
  BY LenProperties
<1>. HIDE DEF n
<1>2. \A k \in 1..n : list[k].frequency \in Int /\ list[k].frequency \in MinFrequency..MaxFrequency
  BY <1>1 DEF InRange
<1>3. /\ low \in Int /\ MinFrequency <= low
      /\ i # 1 => low >= list[i - 1].frequency + Spacing
  <2>1. i # 1 => i - 1 \in 1..n
    BY <1>1 DEF n
  <2>. QED
    BY <1>2, <2>1 DEF Lowest, Larger
<1>4. /\ high \in Int /\ high <= MaxFrequency
      /\ i # n => high <= list[i + 1].frequency - Spacing
  <2>1. i # n => i + 1 \in 1..n
    <3>1. i \in 1..n
      BY DEF n
    <3>. QED
      BY <1>1, <3>1
  <2>. QED
    BY <1>2, <2>1 DEF Highest, Smaller, n
<1>5. to \in Int /\ low <= to /\ to <= high
  <2>1. low <= high
    OBVIOUS
  <2>. HIDE DEF low, high
  <2>. QED
    BY <1>3, <1>4, <2>1 DEF Clamp, Larger, Smaller
<1>. HIDE DEF low, high, to
<1>6. /\ moved \in [1..n -> InRange]
      /\ moved[i].frequency = to /\ \A k \in 1..n : k # i => moved[k] = list[k]
  <2>1. to \in MinFrequency..MaxFrequency
    BY <1>3, <1>4, <1>5
  <2>2. i \in 1..n /\ list[i] \in InRange
    BY <1>1 DEF n
  <2>3. [list[i] EXCEPT !.frequency = to] \in InRange
    BY <2>1, <2>2 DEF InRange
  <2>4. moved = [list EXCEPT ![i] = [list[i] EXCEPT !.frequency = to]]
    OBVIOUS
  <2>5. [list[i] EXCEPT !.frequency = to].frequency = to
    BY <2>2 DEF InRange
  <2>. QED
    BY <1>1, <2>2, <2>3, <2>4, <2>5
<1>. HIDE DEF moved
<1>7. moved \in Seq(InRange) /\ Len(moved) = n /\ DOMAIN moved = 1..n
  BY <1>1, <1>6, SeqDef
<1>8. ASSUME NEW k \in 2..n PROVE moved[k].frequency >= moved[k - 1].frequency + Spacing
  <2>1. k \in 1..n /\ k - 1 \in 1..n /\ k \in Int
    BY <1>1
  <2>2. CASE k = i
    BY <1>2, <1>3, <1>5, <1>6, <2>1, <2>2
  <2>3. CASE k - 1 = i
    <3>1. i # n /\ i + 1 = k
      BY <2>1, <2>3
    <3>2. moved[k] = list[k] /\ high <= list[k].frequency - Spacing
      BY <1>4, <1>6, <2>1, <3>1
    <3>. QED
      BY <1>2, <1>4, <1>5, <1>6, <2>1, <2>3, <3>2
  <2>4. CASE k # i /\ k - 1 # i
    BY <1>6, <2>1, <2>4 DEF n
  <2>. QED
    BY <2>2, <2>3, <2>4
<1>9. \A k \in 1..n : moved[k].frequency \in MinFrequency..MaxFrequency
  BY <1>6 DEF InRange
<1>10. Legal(moved)
  BY <1>7, <1>8, <1>9 DEF Legal, n
<1>. QED
  BY <1>7, <1>10 DEF moved, to, low, high, n

\* Where an inserted element stands, and where the others have moved to.
LEMMA InsertFacts ==
  ASSUME NEW S, NEW s \in Seq(S), NEW i \in 1..(Len(s) + 1), NEW e \in S
  PROVE  /\ InsertAt(s, i, e) \in Seq(S)
         /\ Len(InsertAt(s, i, e)) = Len(s) + 1
         /\ \A k \in 1..(Len(s) + 1) :
              InsertAt(s, i, e)[k] = IF k < i THEN s[k] ELSE IF k = i THEN e ELSE s[k - 1]
<1>. DEFINE n == Len(s)
            a == SubSeq(s, 1, i - 1)
            b == SubSeq(s, i, n)
<1>1. n \in Nat /\ i \in Int /\ \A k \in 1..n : s[k] \in S
  BY LenProperties
<1>. HIDE DEF n
<1>2. i \in 1..(n + 1)
  BY DEF n
<1>3. /\ a \in Seq(S) /\ Len(a) = i - 1 /\ \A k \in 1..(i - 1) : a[k] = s[k]
  <2>1. \A k \in 1..(i - 1) : s[k] \in S
    BY <1>1, <1>2
  <2>2. /\ a \in Seq(S) /\ Len(a) = IF 1 <= i - 1 THEN i - 1 - 1 + 1 ELSE 0
        /\ \A k \in 1..(i - 1 - 1 + 1) : a[k] = s[1 + k - 1]
    BY <1>1, <2>1, SubSeqProperties
  <2>. QED
    BY <1>1, <1>2, <2>2
<1>4. /\ b \in Seq(S) /\ Len(b) = n - i + 1 /\ \A k \in 1..(n - i + 1) : b[k] = s[i + k - 1]
  <2>1. \A k \in i..n : s[k] \in S
    BY <1>1, <1>2
  <2>2. /\ b \in Seq(S) /\ Len(b) = IF i <= n THEN n - i + 1 ELSE 0
        /\ \A k \in 1..(n - i + 1) : b[k] = s[i + k - 1]
    BY <1>1, <2>1, SubSeqProperties
  <2>. QED
    BY <1>1, <1>2, <2>2
<1>5. <<e>> \in Seq(S) /\ Len(<<e>>) = 1 /\ <<e>>[1] = e
  OBVIOUS
<1>6. InsertAt(s, i, e) = a \o <<e>> \o b
  BY DEF InsertAt, n
<1>. HIDE DEF a, b
<1>7. /\ a \o <<e>> \in Seq(S) /\ Len(a \o <<e>>) = i
      /\ \A k \in 1..i : (a \o <<e>>)[k] = IF k <= i - 1 THEN a[k] ELSE <<e>>[k - (i - 1)]
  BY <1>1, <1>3, <1>5, ConcatProperties
<1>8. /\ a \o <<e>> \o b \in Seq(S) /\ Len(a \o <<e>> \o b) = n + 1
      /\ \A k \in 1..(n + 1) :
           (a \o <<e>> \o b)[k] = IF k <= i THEN (a \o <<e>>)[k] ELSE b[k - i]
  BY <1>1, <1>2, <1>4, <1>7, ConcatProperties
<1>9. ASSUME NEW k \in 1..(n + 1)
      PROVE  InsertAt(s, i, e)[k] = IF k < i THEN s[k] ELSE IF k = i THEN e ELSE s[k - 1]
  <2>1. CASE k < i
    <3>1. k \in 1..i /\ k \in 1..(i - 1) /\ k <= i /\ k <= i - 1
      BY <1>1, <2>1
    <3>. QED
      BY <1>3, <1>6, <1>7, <1>8, <2>1, <3>1
  <2>2. CASE k = i
    <3>1. k \in 1..i /\ k <= i /\ ~ k <= i - 1 /\ k - (i - 1) = 1
      BY <1>1, <2>2
    <3>. QED
      BY <1>5, <1>6, <1>7, <1>8, <2>2, <3>1
  <2>3. CASE k > i
    <3>1. /\ ~ k <= i /\ ~ k < i /\ k # i /\ k - i \in 1..(n - i + 1)
          /\ i + (k - i) - 1 = k - 1
      BY <1>1, <2>3
    <3>2. (a \o <<e>> \o b)[k] = b[k - i] /\ b[k - i] = s[k - 1]
      BY <1>4, <1>8, <3>1
    <3>. QED
      BY <1>6, <3>1, <3>2
  <2>. QED
    BY <1>1, <2>1, <2>2, <2>3
<1>. QED
  BY <1>6, <1>8, <1>9 DEF n

\* Where the elements that stay stand after one was removed.
LEMMA RemoveFacts ==
  ASSUME NEW S, NEW s \in Seq(S), NEW i \in 1..Len(s)
  PROVE  /\ RemoveAt(s, i) \in Seq(S)
         /\ Len(RemoveAt(s, i)) = Len(s) - 1
         /\ \A k \in 1..(Len(s) - 1) : RemoveAt(s, i)[k] = IF k < i THEN s[k] ELSE s[k + 1]
<1>. DEFINE n == Len(s)
            a == SubSeq(s, 1, i - 1)
            b == SubSeq(s, i + 1, n)
<1>1. n \in Nat /\ i \in Int /\ \A k \in 1..n : s[k] \in S
  BY LenProperties
<1>. HIDE DEF n
<1>2. i \in 1..n
  BY DEF n
<1>3. /\ a \in Seq(S) /\ Len(a) = i - 1 /\ \A k \in 1..(i - 1) : a[k] = s[k]
  <2>1. \A k \in 1..(i - 1) : s[k] \in S
    BY <1>1, <1>2
  <2>2. /\ a \in Seq(S) /\ Len(a) = IF 1 <= i - 1 THEN i - 1 - 1 + 1 ELSE 0
        /\ \A k \in 1..(i - 1 - 1 + 1) : a[k] = s[1 + k - 1]
    BY <1>1, <2>1, SubSeqProperties
  <2>. QED
    BY <1>1, <1>2, <2>2
<1>4. /\ b \in Seq(S) /\ Len(b) = n - i /\ \A k \in 1..(n - i) : b[k] = s[i + k]
  <2>1. \A k \in (i + 1)..n : s[k] \in S
    BY <1>1, <1>2
  <2>2. /\ b \in Seq(S) /\ Len(b) = IF i + 1 <= n THEN n - (i + 1) + 1 ELSE 0
        /\ \A k \in 1..(n - (i + 1) + 1) : b[k] = s[(i + 1) + k - 1]
    BY <1>1, <2>1, SubSeqProperties
  <2>. QED
    BY <1>1, <1>2, <2>2
<1>5. RemoveAt(s, i) = a \o b
  BY DEF RemoveAt, n
<1>. HIDE DEF a, b
<1>6. /\ a \o b \in Seq(S) /\ Len(a \o b) = n - 1
      /\ \A k \in 1..(n - 1) : (a \o b)[k] = IF k <= i - 1 THEN a[k] ELSE b[k - (i - 1)]
  <2>1. /\ a \o b \in Seq(S) /\ Len(a \o b) = Len(a) + Len(b)
        /\ \A k \in 1..(Len(a) + Len(b)) :
             (a \o b)[k] = IF k <= Len(a) THEN a[k] ELSE b[k - Len(a)]
    BY <1>3, <1>4, ConcatProperties
  <2>2. Len(a) + Len(b) = n - 1
    BY <1>1, <1>3, <1>4
  <2>. QED
    BY <1>3, <2>1, <2>2
<1>7. ASSUME NEW k \in 1..(n - 1)
      PROVE  RemoveAt(s, i)[k] = IF k < i THEN s[k] ELSE s[k + 1]
  <2>1. CASE k < i
    <3>1. k \in 1..(i - 1) /\ k <= i - 1
      BY <1>1, <2>1
    <3>. QED
      BY <1>3, <1>5, <1>6, <2>1, <3>1
  <2>2. CASE k >= i
    <3>1. /\ ~ k <= i - 1 /\ ~ k < i /\ k - (i - 1) \in 1..(n - i)
          /\ i + (k - (i - 1)) = k + 1
      BY <1>1, <1>2, <2>2
    <3>. QED
      BY <1>4, <1>5, <1>6, <3>1
  <2>. QED
    BY <1>1, <2>1, <2>2
<1>. QED
  BY <1>5, <1>6, <1>7 DEF n

-----------------------------------------------------------------------------
\* What the description says of a layout.
Described(preset, list) ==
  /\ preset = "custom" <=> \A p \in ToSet(Presets) : ~IsPreset(p, list)
  /\ preset # "custom" => IsPreset(preset, list)

\* Gains remembered for a layout: one for each band, in range.
GainsInRange(gains, list) == gains \in [1..Len(list) -> (-MaxGain)..MaxGain]

\* Layout, description and remembered gains; inductive as it stands.
LayoutInv ==
  /\ bands \in Seq(InRange) /\ Legal(bands)
  /\ Described(activePreset, bands)
  /\ GainsInRange(lastNonflat, bands)
  /\ ~IsFlat(bands) => lastNonflat = BandGains(bands)

\* The recognised preset is the first that fits, and custom only if none does.
LEMMA RecognisedDescribes ==
  ASSUME NEW list
  PROVE  Described(Recognised(list), list)
<1>. DEFINE I == {i \in 1..Len(Presets) : IsPreset(Presets[i], list)}
<1>1. Presets \in Seq(STRING) /\ Len(Presets) \in Nat /\ DOMAIN Presets = 1..Len(Presets)
  BY PresetAssumption, LenProperties
<1>2. ToSet(Presets) = {Presets[i] : i \in 1..Len(Presets)}
  BY <1>1 DEF ToSet
<1>3. "custom" \notin ToSet(Presets)
  BY PresetAssumption
<1>4. CASE I = {}
  <2>1. Recognised(list) = "custom"
    BY <1>4 DEF Recognised, SelectInSeq
  <2>2. \A p \in ToSet(Presets) : ~IsPreset(p, list)
    BY <1>2, <1>4
  <2>. QED
    BY <2>1, <2>2 DEF Described
<1>5. CASE I # {}
  <2>1. Min(I) \in I
    <3>1. \E m \in I : \A k \in I : m <= k
      BY <1>5, LeastNumber, I \in SUBSET Nat
    <3>. QED
      BY <3>1 DEF Min
  <2>. DEFINE m == Min(I)
  <2>2. Recognised(list) = Presets[m]
    <3>1. SelectInSeq(Presets, LAMBDA p : IsPreset(p, list)) = m
      BY <1>5 DEF SelectInSeq
    <3>2. m # 0
      BY <2>1
    <3>. QED
      BY <3>1, <3>2 DEF Recognised
  <2>. HIDE DEF m
  <2>3. Presets[m] \in ToSet(Presets) /\ IsPreset(Presets[m], list)
    BY <1>2, <2>1 DEF m
  <2>. QED
    BY <1>3, <2>2, <2>3 DEF Described
<1>. QED
  BY <1>4, <1>5

\* Whether a layout is legal is a matter of its frequencies.
LEMMA SameFrequencies ==
  ASSUME NEW list \in Seq(InRange), Legal(list),
         NEW other \in Seq(InRange), Len(other) = Len(list),
         \A i \in 1..Len(list) : other[i].frequency = list[i].frequency
  PROVE  Legal(other)
<1>. DEFINE n == Len(list)
<1>1. n \in Nat /\ DOMAIN list = 1..n /\ DOMAIN other = 1..n
  BY LenProperties
<1>2. \A i \in 2..n : i \in 1..n /\ i - 1 \in 1..n
  BY <1>1
<1>. QED
  BY <1>1, <1>2 DEF Legal

\* Bringing a preset to the bands leaves them where they are, and described by it.
LEMMA ShapedFacts ==
  ASSUME bands \in Seq(InRange), Legal(bands), NEW p \in ToSet(Presets)
  PROVE  /\ Shaped(p) \in Seq(InRange) /\ Len(Shaped(p)) = Len(bands) /\ Legal(Shaped(p))
         /\ Described(p, Shaped(p))
<1>. DEFINE n == Len(bands)
            list == Shaped(p)
<1>1. n \in Nat /\ bands \in [1..n -> InRange] /\ DOMAIN bands = 1..n
  BY LenProperties
<1>. HIDE DEF n
<1>2. \A i \in 1..n : bands[i].frequency \in MinFrequency..MaxFrequency
  BY <1>1 DEF InRange
<1>3. list = [i \in 1..n |-> Band(bands[i].frequency, Curve[p][bands[i].frequency])]
  BY <1>1 DEF Shaped, Projected
<1>4. \A i \in 1..n : Curve[p][bands[i].frequency] \in (-MaxGain)..MaxGain
  BY <1>2, PresetAssumption
<1>. HIDE DEF list
<1>5. /\ list \in [1..n -> InRange]
      /\ \A i \in 1..n : /\ list[i].frequency = bands[i].frequency
                          /\ list[i].gain = Curve[p][bands[i].frequency]
  BY <1>2, <1>3, <1>4 DEF InRange, Band
<1>6. list \in Seq(InRange) /\ Len(list) = n /\ DOMAIN list = 1..n
  BY <1>1, <1>5, SeqDef
<1>7. Legal(list)
  BY <1>5, <1>6, SameFrequencies DEF n
<1>8. IsPreset(p, list)
  BY <1>5, <1>6 DEF IsPreset, BandGains, Projected
<1>9. p # "custom"
  BY PresetAssumption
<1>. QED
  BY <1>6, <1>7, <1>8, <1>9 DEF Described, n, list

\* What is remembered fits the bands and is their gains unless they are flat.
LEMMA RememberedFacts ==
  ASSUME NEW list \in Seq(InRange), NEW old,
         Len(old) = Len(list) => GainsInRange(old, list)
  PROVE  /\ GainsInRange(Remembered(old, list), list)
         /\ ~IsFlat(list) => Remembered(old, list) = BandGains(list)
<1>1. list \in [1..Len(list) -> InRange] /\ DOMAIN list = 1..Len(list)
  BY LenProperties
<1>2. BandGains(list) \in [1..Len(list) -> (-MaxGain)..MaxGain]
  BY <1>1 DEF BandGains, InRange
<1>3. [i \in DOMAIN list |-> 0] \in [1..Len(list) -> (-MaxGain)..MaxGain]
  BY <1>1, LayoutAssumption
<1>. QED
  BY <1>2, <1>3 DEF Remembered, GainsInRange

\* A layout that is legal and described is all that an operation has to leave.
LEMMA LayoutKept ==
  ASSUME LayoutInv, NEW list \in Seq(InRange), Legal(list), NEW preset,
         Described(preset, list), SetLayout(list, preset)
  PROVE  LayoutInv'
<1>1. Len(lastNonflat) = Len(list) => GainsInRange(lastNonflat, list)
  <2>1. Len(bands) \in Nat /\ lastNonflat \in [1..Len(bands) -> (-MaxGain)..MaxGain]
    BY LenProperties DEF LayoutInv, GainsInRange
  <2>2. Len(lastNonflat) = Len(bands)
    BY <2>1, SeqDef
  <2>. QED
    BY <2>1, <2>2 DEF GainsInRange
<1>2. /\ GainsInRange(lastNonflat, list)'
      /\ ~IsFlat(list) => lastNonflat' = BandGains(list)
  BY <1>1, RememberedFacts DEF SetLayout, GainsInRange
<1>3. bands' = list /\ activePreset' = preset
  BY DEF SetLayout
<1>. QED
  BY <1>2, <1>3 DEF LayoutInv, GainsInRange, Legal, Described, IsPreset, IsFlat, BandGains, Projected

\* What leaves the layout alone keeps the invariant.
LEMMA LayoutQuiet ==
  ASSUME LayoutInv, UNCHANGED layout
  PROVE  LayoutInv'
BY DEF LayoutInv, GainsInRange, Legal, Described, IsPreset, IsFlat, BandGains, Projected, layout

\* Gains an application brings along fit the layout once they are cut and clamped.
LEMMA BroughtFacts ==
  ASSUME NEW gains \in Seq(Int), NEW list \in Seq(InRange)
  PROVE  GainsInRange(Brought(gains, list), list)
<1>1. DOMAIN list = 1..Len(list)
  BY LenProperties
<1>2. \A i \in DOMAIN gains : gains[i] \in Int
  BY LenProperties
<1>3. \A g \in Int : Clamp(g, -MaxGain, MaxGain) \in (-MaxGain)..MaxGain
  BY LayoutAssumption DEF Clamp, Larger, Smaller
<1>4. ASSUME NEW i \in 1..Len(list) PROVE Brought(gains, list)[i] \in (-MaxGain)..MaxGain
  <2>1. CASE i \in DOMAIN gains
    BY <1>1, <1>2, <1>3, <2>1 DEF Brought
  <2>2. CASE i \notin DOMAIN gains
    BY <1>1, <2>2, LayoutAssumption DEF Brought
  <2>. QED
    BY <2>1, <2>2
<1>. QED
  BY <1>1, <1>4 DEF Brought, GainsInRange

\* A gain that was asked for is in range once it is clamped.
LEMMA GainsFit ==
  ASSUME NEW g \in Gains
  PROVE  Clamp(g, -MaxGain, MaxGain) \in (-MaxGain)..MaxGain
BY LayoutAssumption, ArgumentAssumption DEF Clamp, Larger, Smaller

-----------------------------------------------------------------------------
\* A session starts with the default layout, or with one an application brought.
LEMMA LayoutInit == Init => LayoutInv
<1>. USE LayoutAssumption
<1>1. ASSUME bands = DefaultBands, activePreset = "flat",
             lastNonflat = [i \in DOMAIN bands |-> 0]
      PROVE  LayoutInv
  <2>1. /\ Len(DefaultFrequencies) \in Nat /\ DOMAIN DefaultFrequencies = 1..Len(DefaultFrequencies)
        /\ Legal(DefaultBands)
    BY DefaultAssumption, LenProperties
  <2>2. /\ DOMAIN bands = 1..Len(DefaultFrequencies)
        /\ \A i \in DOMAIN bands : bands[i].frequency \in MinFrequency..MaxFrequency
    BY <1>1, <2>1 DEF Legal, DefaultBands
  <2>3. bands = [i \in 1..Len(DefaultFrequencies) |-> Band(DefaultFrequencies[i], 0)]
    BY <1>1, <2>1 DEF DefaultBands
  <2>4. \A i \in DOMAIN bands : bands[i] \in InRange /\ bands[i].gain = 0
    BY <2>2, <2>3 DEF Band, InRange
  <2>5. bands \in [1..Len(DefaultFrequencies) -> InRange]
    BY <2>2, <2>3, <2>4
  <2>6. bands \in Seq(InRange) /\ DOMAIN bands = 1..Len(bands)
    BY <2>1, <2>5, SeqDef
  <2>7. IsPreset("flat", bands)
    BY <2>2, <2>4, PresetAssumption DEF IsPreset, BandGains, Projected
  <2>8. "flat" \in ToSet(Presets)
    BY PresetAssumption
  <2>. QED
    BY <1>1, <2>1, <2>4, <2>6, <2>7, <2>8 DEF LayoutInv, Described, GainsInRange, IsFlat
<1>2. ASSUME NEW asked \in States, bands = Normalize(asked.bands),
             activePreset = Recognised(bands),
             lastNonflat = Remembered(Brought(asked.lastNonflat, bands), bands)
      PROVE  LayoutInv
  <2>1. asked.bands \in Seq([frequency : Int, gain : Int]) /\ asked.lastNonflat \in Seq(Int)
    BY ArgumentAssumption
  <2>2. bands \in Seq(InRange) /\ Legal(bands)
    BY <1>2, <2>1, NormalizeIsLegal
  <2>. QED
    BY <1>2, <2>1, <2>2, BroughtFacts, RememberedFacts, RecognisedDescribes DEF LayoutInv
<1>. QED
  BY <1>1, <1>2 DEF Init

\* A new gain moves no band, and the preset is recognised anew.
LEMMA SetBandGainKeeps ==
  ASSUME LayoutInv, NEW i \in DOMAIN bands, NEW g \in Gains, SetBandGain(i, g)
  PROVE  LayoutInv'
<1>. DEFINE to == Clamp(g, -MaxGain, MaxGain)
            list == [bands EXCEPT ![i].gain = to]
<1>1. bands \in [1..Len(bands) -> InRange] /\ Len(bands) \in Nat /\ DOMAIN bands = 1..Len(bands)
  BY LenProperties DEF LayoutInv
<1>2. to \in (-MaxGain)..MaxGain
  BY GainsFit
<1>. HIDE DEF to
<1>3. /\ list \in [1..Len(bands) -> InRange]
      /\ \A k \in 1..Len(bands) : list[k].frequency = bands[k].frequency
  BY <1>1, <1>2 DEF InRange
<1>. HIDE DEF list
<1>4. list \in Seq(InRange) /\ Len(list) = Len(bands) /\ DOMAIN list = DOMAIN bands
  BY <1>1, <1>3, SeqDef
<1>5. Legal(list)
  BY <1>3, <1>4, SameFrequencies DEF LayoutInv
<1>6. SetLayout(list, Recognised(list))
  BY DEF SetBandGain, list, to
<1>. QED
  BY <1>4, <1>5, <1>6, LayoutKept, RecognisedDescribes

\* A band is added where it belongs, and only where its neighbours leave it room.
LEMMA AddBandKeeps ==
  ASSUME LayoutInv, NEW frequency \in Frequencies, NEW g \in Gains, AddBand(frequency, g)
  PROVE  LayoutInv'
<1>. DEFINE n == Len(bands)
            f == Clamp(frequency, MinFrequency, MaxFrequency)
            below == {k \in DOMAIN bands : bands[k].frequency < f}
            i == 1 + Cardinality(below)
            band == Band(f, Clamp(g, -MaxGain, MaxGain))
            inserted == InsertAt(bands, i, band)
            list == [inserted EXCEPT ![i].frequency =
                       Clamp(f, Lowest(inserted, i), Highest(inserted, i))]
<1>1. /\ n < MaxBands /\ Lowest(inserted, i) <= Highest(inserted, i)
      /\ SetLayout(list, Recognised(list))
  BY DEF AddBand
<1>2. n \in Nat /\ bands \in Seq(InRange) /\ DOMAIN bands = 1..n
  BY LenProperties DEF LayoutInv
<1>3. f \in Int /\ band \in InRange
  <2>1. frequency \in Int /\ MinFrequency <= MaxFrequency
    BY FloorFacts, LayoutAssumption, ArgumentAssumption, 1 \in 1..MaxBands
  <2>2. f \in MinFrequency..MaxFrequency
    BY <2>1, LayoutAssumption DEF Clamp, Larger, Smaller
  <2>. HIDE DEF f
  <2>. QED
    BY <2>2, LayoutAssumption, GainsFit DEF Band, InRange
<1>. HIDE DEF band, f
<1>4. i \in 1..(n + 1)
  <2>1. IsFiniteSet(1..n) /\ Cardinality(1..n) = n
    BY <1>2, FS_Interval
  <2>2. below \in SUBSET (1..n)
    BY <1>2
  <2>. HIDE DEF below
  <2>3. IsFiniteSet(below) /\ Cardinality(below) <= n
    BY <2>1, <2>2, FS_Subset
  <2>4. Cardinality(below) \in Nat
    BY <2>3, FS_CardinalityType
  <2>. QED
    BY <1>2, <2>3, <2>4
<1>. HIDE DEF i
<1>5. /\ inserted \in Seq(InRange) /\ Len(inserted) = n + 1
      /\ \A k \in 1..(n + 1) :
           inserted[k] = IF k < i THEN bands[k] ELSE IF k = i THEN band ELSE bands[k - 1]
  BY <1>2, <1>3, <1>4, InsertFacts
<1>. HIDE DEF inserted, n
<1>6. ASSUME NEW k \in 2..Len(inserted), k # i, k - 1 # i
      PROVE  inserted[k].frequency >= inserted[k - 1].frequency + Spacing
  <2>1. \A m \in 2..n : bands[m].frequency >= bands[m - 1].frequency + Spacing
    BY DEF LayoutInv, Legal, n
  <2>2. k \in 1..(n + 1) /\ k - 1 \in 1..(n + 1) /\ k \in Int /\ i \in Int
    BY <1>2, <1>4, <1>5
  <2>3. CASE k < i
    <3>1. inserted[k] = bands[k] /\ inserted[k - 1] = bands[k - 1]
      BY <1>5, <2>2, <2>3
    <3>2. k \in 2..n
      BY <1>2, <1>4, <1>5, <2>2, <2>3
    <3>. QED
      BY <2>1, <3>1, <3>2
  <2>4. CASE k > i
    <3>1. inserted[k] = bands[k - 1] /\ inserted[k - 1] = bands[(k - 1) - 1]
      BY <1>5, <1>6, <2>2, <2>4
    <3>2. k - 1 \in 2..n
      BY <1>2, <1>4, <1>5, <1>6, <2>2, <2>4
    <3>. QED
      BY <2>1, <3>1, <3>2
  <2>. QED
    BY <1>6, <2>2, <2>3, <2>4
<1>7. Len(inserted) <= MaxBands /\ i \in 1..Len(inserted)
  BY <1>1, <1>2, <1>4, <1>5, LayoutAssumption
<1>8. list \in Seq(InRange) /\ Legal(list)
  BY <1>1, <1>3, <1>5, <1>6, <1>7, MovedIsLegal
<1>. QED
  BY <1>1, <1>8, LayoutKept, RecognisedDescribes

\* The neighbours of a band that goes are further apart than they had to be.
LEMMA RemoveBandKeeps ==
  ASSUME LayoutInv, NEW i \in DOMAIN bands, RemoveBand(i)
  PROVE  LayoutInv'
<1>. DEFINE n == Len(bands)
            list == RemoveAt(bands, i)
<1>1. SetLayout(list, Recognised(list))
  BY DEF RemoveBand
<1>2. /\ n \in Nat /\ bands \in Seq(InRange) /\ DOMAIN bands = 1..n
      /\ \A k \in 1..n : bands[k].frequency \in Int
                         /\ bands[k].frequency \in MinFrequency..MaxFrequency
  <2>1. n \in Nat /\ bands \in [1..n -> InRange] /\ bands \in Seq(InRange)
    BY LenProperties DEF LayoutInv
  <2>. HIDE DEF n
  <2>2. \A k \in 1..n : bands[k].frequency \in MinFrequency..MaxFrequency
    BY <2>1 DEF InRange
  <2>. QED
    BY <2>1, <2>2
<1>3. /\ list \in Seq(InRange) /\ Len(list) = n - 1
      /\ \A k \in 1..(n - 1) : list[k] = IF k < i THEN bands[k] ELSE bands[k + 1]
  BY <1>2, RemoveFacts
<1>4. n <= MaxBands /\ \A k \in 2..n : bands[k].frequency >= bands[k - 1].frequency + Spacing
  BY DEF LayoutInv, Legal
<1>. HIDE DEF list, n
<1>5. ASSUME NEW k \in 2..(n - 1)
      PROVE  list[k].frequency >= list[k - 1].frequency + Spacing
  <2>1. /\ k \in 1..(n - 1) /\ k - 1 \in 1..(n - 1) /\ (k - 1) + 1 = k /\ (k + 1) - 1 = k
        /\ k \in 2..n /\ k + 1 \in 2..n /\ i \in Int
    BY <1>2
  <2>2. CASE k < i
    BY <1>3, <1>4, <2>1, <2>2
  <2>3. CASE k = i
    <3>1. list[k] = bands[k + 1] /\ list[k - 1] = bands[k - 1]
      BY <1>3, <2>1, <2>3
    <3>2. /\ bands[k + 1].frequency >= bands[k].frequency + Spacing
          /\ bands[k].frequency >= bands[k - 1].frequency + Spacing
      BY <1>4, <2>1
    <3>3. /\ bands[k + 1].frequency \in Int /\ bands[k].frequency \in Int
          /\ bands[k - 1].frequency \in Int
      BY <1>2, <2>1
    <3>. QED
      BY <3>1, <3>2, <3>3, LayoutAssumption
  <2>4. CASE k > i
    <3>1. list[k] = bands[k + 1] /\ list[k - 1] = bands[k]
      BY <1>3, <2>1, <2>4
    <3>. QED
      BY <1>4, <2>1, <3>1
  <2>. QED
    BY <2>1, <2>2, <2>3, <2>4
<1>6. Legal(list)
  <2>1. DOMAIN list = 1..(n - 1) /\ n - 1 <= MaxBands
    BY <1>2, <1>3, <1>4, LenProperties, LayoutAssumption
  <2>2. \A k \in 1..(n - 1) : list[k].frequency \in MinFrequency..MaxFrequency
    BY <1>2, <1>3
  <2>. QED
    BY <1>3, <1>5, <2>1, <2>2 DEF Legal
<1>. QED
  BY <1>1, <1>3, <1>6, LayoutKept, RecognisedDescribes

\* A band moves no further than its neighbours let it.
LEMMA SetBandFrequencyKeeps ==
  ASSUME LayoutInv, NEW i \in DOMAIN bands, NEW f \in Frequencies, SetBandFrequency(i, f)
  PROVE  LayoutInv'
<1>. DEFINE list == [bands EXCEPT ![i].frequency = Clamp(f, Lowest(bands, i), Highest(bands, i))]
<1>1. Lowest(bands, i) <= Highest(bands, i) /\ SetLayout(list, Recognised(list))
  BY DEF SetBandFrequency
<1>2. /\ bands \in Seq(InRange) /\ Len(bands) <= MaxBands /\ i \in 1..Len(bands) /\ f \in Int
      /\ \A k \in 2..Len(bands) : bands[k].frequency >= bands[k - 1].frequency + Spacing
  BY LenProperties, ArgumentAssumption DEF LayoutInv, Legal
<1>3. list \in Seq(InRange) /\ Legal(list)
  BY <1>1, <1>2, MovedIsLegal
<1>. QED
  BY <1>1, <1>3, LayoutKept, RecognisedDescribes

\* Bands that are brought along are normalized and the preset is recognised in the result.
LEMMA ApplyStateKeeps ==
  ASSUME LayoutInv, NEW asked \in States, NEW on \in BOOLEAN, NEW g \in Gains,
         ApplyState(asked, on, g)
  PROVE  LayoutInv'
<1>. DEFINE list == Normalize(asked.bands)
<1>1. asked.bands \in Seq([frequency : Int, gain : Int]) /\ asked.lastNonflat \in Seq(Int)
  BY ArgumentAssumption
<1>2. list \in Seq(InRange) /\ Legal(list)
  BY <1>1, NormalizeIsLegal
<1>3. /\ bands' = list /\ activePreset' = Recognised(list)
      /\ lastNonflat' = Remembered(Brought(asked.lastNonflat, list), list)
  BY DEF ApplyState
<1>. HIDE DEF list
<1>4. /\ GainsInRange(lastNonflat', list)
      /\ ~IsFlat(list) => lastNonflat' = BandGains(list)
  BY <1>1, <1>2, <1>3, BroughtFacts, RememberedFacts
<1>5. Described(Recognised(list), list)
  BY RecognisedDescribes
<1>. QED
  BY <1>2, <1>3, <1>4, <1>5
  DEF LayoutInv, GainsInRange, Legal, Described, IsPreset, IsFlat, BandGains, Projected

-----------------------------------------------------------------------------
\* Every operation leaves a legal layout and a true description of it.
LEMMA LayoutStep ==
  ASSUME LayoutInv, [Next]_vars
  PROVE  LayoutInv'
<1>1. ASSUME NEW p \in ToSet(Presets), SelectPreset(p) PROVE LayoutInv'
  BY <1>1, ShapedFacts, LayoutKept DEF SelectPreset, LayoutInv
<1>2. CASE ResetBegin
  BY <1>2, ShapedFacts, LayoutKept, PresetAssumption DEF ResetBegin, LayoutInv
<1>3. ASSUME NEW i \in DOMAIN bands, NEW g \in Gains, SetBandGain(i, g) PROVE LayoutInv'
  BY <1>3, SetBandGainKeeps
<1>4. ASSUME NEW f \in Frequencies, NEW g \in Gains, AddBand(f, g) PROVE LayoutInv'
  BY <1>4, AddBandKeeps
<1>5. ASSUME NEW i \in DOMAIN bands, RemoveBand(i) PROVE LayoutInv'
  BY <1>5, RemoveBandKeeps
<1>6. ASSUME NEW i \in DOMAIN bands, NEW f \in Frequencies, SetBandFrequency(i, f)
      PROVE  LayoutInv'
  BY <1>6, SetBandFrequencyKeeps
<1>7. ASSUME NEW asked \in States, NEW on \in BOOLEAN, NEW g \in Gains,
             ApplyState(asked, on, g)
      PROVE  LayoutInv'
  BY <1>7, ApplyStateKeeps
<1>8. ASSUME NEW v \in Volumes, SetVolumePercent(v) PROVE LayoutInv'
  BY <1>8, LayoutQuiet DEF SetVolumePercent
<1>9. ASSUME NEW g \in Gains, SetOutputGain(g) PROVE LayoutInv'
  BY <1>9, LayoutQuiet DEF SetOutputGain
<1>10. ASSUME NEW on \in BOOLEAN, SetEnabled(on) PROVE LayoutInv'
  BY <1>10, LayoutQuiet DEF SetEnabled
<1>11. CASE SetBandQ
  BY <1>11, LayoutQuiet DEF SetBandQ
<1>12. CASE ResetEnd
  BY <1>12, LayoutQuiet DEF ResetEnd
<1>13. CASE Close \/ EngineLost \/ RecoveryFails \/ EngineRecovered \/ SelectOutputDevice
  BY <1>13, LayoutQuiet
  DEF Close, EngineLost, RecoveryFails, EngineRecovered, SelectOutputDevice
<1>14. CASE WorkerTakesRate \/ WorkerGivesUp \/ PublishPipeline
  BY <1>14, LayoutQuiet DEF WorkerTakesRate, WorkerGivesUp, PublishPipeline
<1>15. CASE Render
  BY <1>15, LayoutQuiet DEF Render, RenderCopy, RenderNothing, RenderBlock, RenderReport
<1>16. CASE UNCHANGED vars
  BY <1>16, LayoutQuiet DEF vars
<1>. QED
  BY <1>1, <1>2, <1>3, <1>4, <1>5, <1>6, <1>7, <1>8, <1>9, <1>10, <1>11, <1>12, <1>13,
     <1>14, <1>15, <1>16
  DEF Next, Edit

\* Whatever bands an application asks for, adds, moves and removes, in whatever order,
\* there are never too many, and they stay sorted, apart and in range.
THEOREM LayoutStaysLegal == Spec => []LayoutIsLegal
<1>1. LayoutInv => LayoutIsLegal
  BY DEF LayoutInv, LayoutIsLegal
<1>2. LayoutInv /\ [Next]_vars => LayoutInv'
  BY LayoutStep
<1>. QED
  BY LayoutInit, <1>1, <1>2, PTL DEF Spec

\* The preset an application is shown is one the gains follow, or none is, and the
\* gains remembered for coming back from flat fit the bands.
THEOREM DescriptionStaysTrue == Spec => []DescriptionIsTrue
<1>1. LayoutInv => DescriptionIsTrue
  <2>. SUFFICES ASSUME LayoutInv PROVE DescriptionIsTrue
    OBVIOUS
  <2>1. Len(bands) \in Nat /\ lastNonflat \in [1..Len(bands) -> (-MaxGain)..MaxGain]
    BY LenProperties DEF LayoutInv, GainsInRange
  <2>2. Len(lastNonflat) = Len(bands)
    BY <2>1, SeqDef
  <2>. QED
    BY <2>2 DEF LayoutInv, Described, DescriptionIsTrue
<1>2. LayoutInv /\ [Next]_vars => LayoutInv'
  BY LayoutStep
<1>. QED
  BY LayoutInit, <1>1, <1>2, PTL DEF Spec

\* The equalizer state an application reads and applies again, in this session or a
\* later one, changes neither the bands nor the gains remembered for them; and a curve
\* drawn or a preview played from it is of the very bands of the session.
SavedStateComesBack ==
  /\ Normalize(bands) = bands
  /\ Remembered(Brought(lastNonflat, bands), bands) = lastNonflat

\* Normalizing and clamping again finds nothing to do, whatever edits came before.
THEOREM RestoringChangesNothing == Spec => []SavedStateComesBack
<1>1. LayoutInv => SavedStateComesBack
  <2>. SUFFICES ASSUME LayoutInv PROVE SavedStateComesBack
    OBVIOUS
  <2>1. Normalize(bands) = bands
    BY NormalizeKeeps DEF LayoutInv
  <2>2. /\ Len(bands) \in Nat /\ DOMAIN bands = 1..Len(bands)
        /\ lastNonflat \in [1..Len(bands) -> (-MaxGain)..MaxGain]
    BY LenProperties DEF LayoutInv, GainsInRange
  <2>3. \A g \in (-MaxGain)..MaxGain : Clamp(g, -MaxGain, MaxGain) = g
    BY LayoutAssumption DEF Clamp, Larger, Smaller
  <2>4. Brought(lastNonflat, bands) = lastNonflat
    BY <2>2, <2>3 DEF Brought
  <2>5. Len(lastNonflat) = Len(bands)
    BY <2>2, SeqDef
  <2>. QED
    BY <2>1, <2>4, <2>5 DEF SavedStateComesBack, Remembered, LayoutInv
<1>2. LayoutInv /\ [Next]_vars => LayoutInv'
  BY LayoutStep
<1>. QED
  BY LayoutInit, <1>1, <1>2, PTL DEF Spec
=============================================================================
