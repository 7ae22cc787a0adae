---------------------------- MODULE ShardsProofs ----------------------------
(***************************************************************************)
(* Merged reports are whole and comparable, for campaigns of any size, any *)
(* number of roots and any shares.                                         *)
(***************************************************************************)
EXTENDS Shards, FiniteSetTheorems, SequenceTheorems, TLAPS

Parts ==
    [definition : Definitions, shard : Shards,
     results : UNION {[Share(shard) -> Verdicts] : shard \in Shards}]

(* What a run and a merge know of the roots: a held root has a manifest,   *)
(* and what was read is the report of some share.                          *)
IInv ==
    /\ TypeOK
    /\ ReportsArePinned
    /\ \A r \in lock : manifest[r] # Nothing
    /\ merging \in [campaign : SUBSET Definitions, roots : Seq(Roots), loaded : Seq(Parts)]

LEMMA PairIsSomething == \A a, b : <<a, b>> # Nothing
<1> SUFFICES ASSUME NEW a, NEW b, <<a, b>> = Nothing PROVE FALSE
  OBVIOUS
<1>1. Len(<<a, b>>) = 2 /\ Len(Nothing) = 0
  BY DEF Nothing
<1> QED BY <1>1

LEMMA SingleIsSomething == \A a : <<a>> # Nothing
<1> SUFFICES ASSUME NEW a, <<a>> = Nothing PROVE FALSE
  OBVIOUS
<1>1. Len(<<a>>) = 1 /\ Len(Nothing) = 0
  BY DEF Nothing
<1> QED BY <1>1

LEMMA InitIInv == Init => IInv
<1> SUFFICES ASSUME Init PROVE IInv
  OBVIOUS
<1>1. /\ manifest \in [Roots -> {Nothing} \union (Definitions \X Shards)]
      /\ \A r \in Roots : report[r] = Nothing
      /\ retried = {} /\ lock = {}
  BY DEF Init
<1>2. merging = [campaign |-> {}, roots |-> <<>>, loaded |-> <<>>]
  BY DEF Init, Idle
<1> QED BY <1>1, <1>2 DEF IInv, TypeOK, ReportsArePinned

-----------------------------------------------------------------------------
(* One step of a run or of a merge.                                        *)
LEMMA BeginIInv ==
    ASSUME IInv, NEW r \in Roots, NEW definition \in Definitions, NEW shard \in Shards,
           NEW retry \in BOOLEAN, Begin(r, definition, shard, retry)
    PROVE  IInv'
<1> USE DEF IInv, TypeOK, ReportsArePinned
<1>1. /\ manifest' = [manifest EXCEPT ![r] = <<definition, shard>>]
      /\ manifest[r] \in {Nothing, <<definition, shard>>}
      /\ lock' = lock \union {r} /\ retried' \subseteq retried \union {r}
      /\ UNCHANGED <<report, merging>>
  BY DEF Begin
<1>2. manifest' \in [Roots -> {Nothing} \union (Definitions \X Shards)]
  BY <1>1
<1>3. ASSUME NEW q \in Roots, report'[q] # Nothing
      PROVE  manifest'[q] # Nothing /\ report'[q][1] \in [Share(manifest'[q][2]) -> Verdicts]
  <2>1. manifest[q] # Nothing /\ report[q][1] \in [Share(manifest[q][2]) -> Verdicts]
    BY <1>1, <1>3
  <2>2. manifest'[q] = manifest[q]
    BY <1>1, <2>1
  <2> QED BY <1>1, <2>1, <2>2
<1>4. \A q \in lock' : manifest'[q] # Nothing
  BY <1>1, PairIsSomething
<1> QED BY <1>1, <1>2, <1>3, <1>4

LEMMA FinishIInv == ASSUME IInv, NEW r \in Roots, Finish(r) PROVE IInv'
<1> USE DEF IInv, TypeOK, ReportsArePinned
<1>1. PICK results \in [Share(manifest[r][2]) -> Verdicts] :
          report' = [report EXCEPT ![r] = <<results>>]
  BY DEF Finish
<1>2. /\ r \in lock /\ retried' = retried \ {r} /\ lock' = lock \ {r}
      /\ UNCHANGED <<manifest, merging>>
  BY DEF Finish
<1>3. ASSUME NEW q \in Roots, report'[q] # Nothing
      PROVE  manifest'[q] # Nothing /\ report'[q][1] \in [Share(manifest'[q][2]) -> Verdicts]
  BY <1>1, <1>2, <1>3
<1> QED BY <1>1, <1>2, <1>3

LEMMA ReadShardIInv == ASSUME IInv, ReadShard PROVE IInv'
<1> USE DEF IInv, TypeOK, ReportsArePinned
<1> DEFINE r == merging.roots[Len(merging.loaded) + 1]
           part == [definition |-> manifest[r][1], shard |-> manifest[r][2],
                    results |-> report[r][1]]
<1>1. /\ Len(merging.loaded) < Len(merging.roots)
      /\ report[r] # Nothing
      /\ merging' = [merging EXCEPT !.loaded = Append(@, part)]
      /\ UNCHANGED <<manifest, report, retried, lock>>
  BY DEF ReadShard
<1>2. r \in Roots
  BY <1>1
<1>3. manifest[r] \in Definitions \X Shards /\ report[r][1] \in [Share(manifest[r][2]) -> Verdicts]
  BY <1>1, <1>2
<1>4. part \in Parts
  BY <1>3 DEF Parts
<1> HIDE DEF r, part
<1>5. merging' = [campaign |-> merging.campaign, roots |-> merging.roots,
                  loaded |-> Append(merging.loaded, part)]
  BY <1>1
<1>6. merging'.loaded \in Seq(Parts) /\ Len(merging'.loaded) = Len(merging.loaded) + 1
  BY <1>4, <1>5
<1>7. merging' \in [campaign : SUBSET Definitions, roots : Seq(Roots), loaded : Seq(Parts)]
  BY <1>5, <1>6
<1>8. Len(merging'.loaded) <= Len(merging'.roots)
  BY <1>1, <1>5, <1>6
<1> QED BY <1>1, <1>7, <1>8

LEMMA NextIInv == IInv /\ [Next]_vars => IInv'
<1> SUFFICES ASSUME IInv, [Next]_vars PROVE IInv'
  OBVIOUS
<1>1. CASE UNCHANGED vars
  BY <1>1 DEF IInv, TypeOK, ReportsArePinned, vars
<1>2. ASSUME NEW r \in Roots, Run(r) PROVE IInv'
  <2>1. CASE Finish(r)
    BY <2>1, FinishIInv
  <2>2. CASE Stop(r)
    BY <2>2 DEF Stop, IInv, TypeOK, ReportsArePinned
  <2>3. CASE \E definition \in Definitions, shard \in Shards, retry \in BOOLEAN :
                 Begin(r, definition, shard, retry)
    BY <2>3, BeginIInv
  <2> QED BY <1>2, <2>1, <2>2, <2>3 DEF Run
<1>3. CASE Merges
  <2>1. CASE ReadShard
    BY <2>1, ReadShardIInv
  <2>2. CASE EndMerge
    BY <2>2 DEF EndMerge, Idle, IInv, TypeOK, ReportsArePinned
  <2>3. ASSUME NEW definition \in Definitions, NEW n \in 1..Cardinality(Roots),
               NEW roots \in [1..n -> Roots], AskMerge(definition, roots)
        PROVE  IInv'
    <3>1. roots \in Seq(Roots) /\ Len(roots) >= 0
      BY <2>3
    <3> QED BY <2>3, <3>1 DEF AskMerge, IInv, TypeOK, ReportsArePinned
  <2> QED BY <1>3, <2>1, <2>2, <2>3 DEF Merges
<1> QED BY <1>1, <1>2, <1>3 DEF Next

(* Roots hold what their manifests say, whatever runs there.               *)
THEOREM RootsHoldShares == Spec => []IInv
<1> QED BY InitIInv, NextIInv, PTL DEF Spec

(* A root's report has exactly the results of its manifest's share.        *)
THEOREM ReportsKeepTheirShare == Spec => []ReportsArePinned
<1>1. IInv => ReportsArePinned
  BY DEF IInv
<1> QED BY RootsHoldShares, <1>1, PTL

-----------------------------------------------------------------------------
(* The shares of a count deal out the trials: every trial has one owner,   *)
(* and all the trials of a pair have the same.                             *)
LEMMA Owner ==
    ASSUME NEW count \in Nat \ {0}, NEW t \in Trials
    PROVE  PairIndex(t) \in Nat /\ PairIndex(t) % count \in 0..(count - 1)
<1>1. t[1] \in 1..Cases /\ t[2] \in 1..Samples
  BY DEF Trials
<1>2. (t[1] - 1) \in Nat /\ Samples \in Nat
  BY <1>1, ShardsAssumption
<1>3. (t[1] - 1) * Samples \in Nat
  BY <1>2
<1>4. PairIndex(t) \in Nat
  BY <1>1, <1>3 DEF PairIndex
<1> QED BY <1>4

(* As many shards with distinct indices as their count are all of them.    *)
LEMMA AllIndices ==
    ASSUME NEW loaded \in Seq(Parts), loaded # <<>>, Complete(loaded)
    PROVE  LET count == loaded[1].shard.count
           IN  /\ count \in Nat \ {0}
               /\ \A i \in 1..Len(loaded) :
                      /\ loaded[i].shard \in Shards /\ loaded[i].shard # NoShard
                      /\ loaded[i].shard.count = count
               /\ \A k \in 0..(count - 1) : \E i \in 1..Len(loaded) : loaded[i].shard.index = k
<1> DEFINE count == loaded[1].shard.count
           index == [i \in 1..Len(loaded) |-> loaded[i].shard.index]
<1>1. \A i \in 1..Len(loaded) : loaded[i] \in Parts /\ loaded[i].shard \in Shards
  <2>1. \A i \in 1..Len(loaded) : loaded[i] \in Parts
    OBVIOUS
  <2> QED BY <2>1 DEF Parts
<1>2. 1 \in 1..Len(loaded)
  BY EmptySeq, LenProperties
<1>3. count \in Nat \ {0} /\ count = Len(loaded)
  BY <1>1, <1>2, ShardsAssumption DEF Complete, NoShard
<1>4. ASSUME NEW i \in 1..Len(loaded)
      PROVE  /\ loaded[i].shard # NoShard /\ loaded[i].shard.count = count
             /\ loaded[i].shard.index \in 0..(count - 1)
  <2>1. loaded[i].shard.count = count
    BY DEF Complete
  <2> QED BY <1>1, <1>3, <2>1, ShardsAssumption DEF NoShard
<1>5. index \in Injection(1..Len(loaded), 0..(count - 1))
  <2>1. index \in [1..Len(loaded) -> 0..(count - 1)]
    BY <1>4
  <2>2. \A i, j \in 1..Len(loaded) : index[i] = index[j] => i = j
    BY DEF Complete
  <2> QED BY <2>1, <2>2 DEF Injection, IsInjective
<1>6. IsFiniteSet(0..(count - 1)) /\ Cardinality(0..(count - 1)) = count
  <2>1. \A k \in Int : IsFiniteSet(0..k) /\ Cardinality(0..k) = IF 0 > k THEN 0 ELSE k - 0 + 1
    BY FS_Interval
  <2> HIDE DEF count
  <2> QED BY <1>3, <2>1
<1>7. Cardinality(1..Len(loaded)) = count
  BY <1>3, FS_Interval
<1>8. index \in Surjection(1..Len(loaded), 0..(count - 1))
  BY <1>5, <1>6, <1>7, FS_Injection
<1>9. \A k \in 0..(count - 1) : \E i \in 1..Len(loaded) : index[i] = k
  BY <1>8 DEF Surjection
<1> QED BY <1>1, <1>3, <1>4, <1>9

(* A merge that is accepted has every trial, in exactly one of its parts.  *)
LEMMA WholeUnion ==
    ASSUME NEW loaded \in Seq(Parts), loaded # <<>>, Complete(loaded), Exact(loaded)
    PROVE  /\ \A t \in Trials : \E i \in 1..Len(loaded) : t \in DOMAIN loaded[i].results
           /\ \A i \in 1..Len(loaded) : \A t \in DOMAIN loaded[i].results :
                  t \in Trials /\ Union(loaded)[t] = loaded[i].results[t]
           /\ DOMAIN Union(loaded) = Trials
<1> DEFINE count == loaded[1].shard.count
<1>1. /\ count \in Nat \ {0}
      /\ \A i \in 1..Len(loaded) : loaded[i].shard # NoShard /\ loaded[i].shard.count = count
      /\ \A k \in 0..(count - 1) : \E i \in 1..Len(loaded) : loaded[i].shard.index = k
  BY AllIndices
<1>2. \A i \in 1..Len(loaded) :
          DOMAIN loaded[i].results = {t \in Trials : PairIndex(t) % count = loaded[i].shard.index}
  BY <1>1 DEF Exact, Share, Owns
<1> HIDE DEF count
<1>3. ASSUME NEW t \in Trials PROVE \E i \in 1..Len(loaded) : t \in DOMAIN loaded[i].results
  <2>1. PICK i \in 1..Len(loaded) : loaded[i].shard.index = PairIndex(t) % count
    BY <1>1, Owner
  <2> QED BY <1>2, <2>1
<1>4. ASSUME NEW i \in 1..Len(loaded), NEW j \in 1..Len(loaded),
             NEW t \in DOMAIN loaded[i].results, t \in DOMAIN loaded[j].results
      PROVE  i = j
  BY <1>2, <1>4 DEF Complete
<1>5. DOMAIN Union(loaded) = Trials
  <2>1. UNION {DOMAIN loaded[i].results : i \in 1..Len(loaded)} = Trials
    BY <1>2, <1>3
  <2> QED BY <2>1 DEF Union
<1>6. ASSUME NEW i \in 1..Len(loaded), NEW t \in DOMAIN loaded[i].results
      PROVE  t \in Trials /\ Union(loaded)[t] = loaded[i].results[t]
  <2>1. t \in UNION {DOMAIN loaded[k].results : k \in 1..Len(loaded)}
    OBVIOUS
  <2>2. (CHOOSE k \in 1..Len(loaded) : t \in DOMAIN loaded[k].results) = i
    BY <1>4
  <2>3. t \in Trials
    BY <1>2
  <2> QED BY <2>1, <2>2, <2>3 DEF Union
<1> QED BY <1>3, <1>5, <1>6

(* ExitCode by what the results contain.                                   *)
Bad(results) == \E t \in DOMAIN results : results[t] \in {"failed", "interrupted"}
Poor(results) == \E t \in DOMAIN results : results[t] \in {"rejected"}

LEMMA ExitCodes ==
    \A results : ExitCode(results) = IF Bad(results) THEN 2 ELSE IF Poor(results) THEN 1 ELSE 0
  BY DEF ExitCode, Bad, Poor

LEMMA WholeMerge == IInv => MergedIsWhole
<1> DEFINE parts == merging.loaded
           merged == Union(parts)
<1> SUFFICES ASSUME IInv, Accepts(parts)
             PROVE  /\ DOMAIN merged = Trials
                    /\ \A i \in 1..Len(parts) :
                           /\ {parts[i].definition} = merging.campaign
                           /\ \A t \in DOMAIN parts[i].results : merged[t] = parts[i].results[t]
                           /\ ExitCode(merged) >= ExitCode(parts[i].results)
                    /\ \E i \in 1..Len(parts) : ExitCode(merged) = ExitCode(parts[i].results)
  BY DEF MergedIsWhole
<1>1. /\ parts \in Seq(Parts) /\ parts # <<>> /\ Complete(parts) /\ Exact(parts)
      /\ \A i \in 1..Len(parts) : {parts[i].definition} = merging.campaign
  BY DEF IInv, Accepts, OfCampaign
<1> HIDE DEF parts
<1>2. /\ \A t \in Trials : \E i \in 1..Len(parts) : t \in DOMAIN parts[i].results
      /\ \A i \in 1..Len(parts) : \A t \in DOMAIN parts[i].results :
             t \in Trials /\ merged[t] = parts[i].results[t]
      /\ DOMAIN merged = Trials
  BY <1>1, WholeUnion
<1> HIDE DEF merged
<1>3. 1 \in 1..Len(parts)
  BY <1>1, EmptySeq
<1>4. ASSUME NEW i \in 1..Len(parts)
      PROVE  /\ Bad(parts[i].results) => Bad(merged)
             /\ Poor(parts[i].results) => Poor(merged)
  BY <1>2 DEF Bad, Poor
<1>5. \A i \in 1..Len(parts) : ExitCode(merged) >= ExitCode(parts[i].results)
  BY <1>4, ExitCodes
<1>6. \E i \in 1..Len(parts) : ExitCode(merged) = ExitCode(parts[i].results)
  <2>1. CASE Bad(merged)
    <3>1. PICK i \in 1..Len(parts) : Bad(parts[i].results)
      BY <1>2, <2>1 DEF Bad
    <3> QED BY <2>1, <3>1, ExitCodes
  <2>2. CASE ~Bad(merged) /\ Poor(merged)
    <3>1. PICK i \in 1..Len(parts) : Poor(parts[i].results)
      BY <1>2, <2>2 DEF Poor
    <3>2. ~Bad(parts[i].results)
      BY <1>4, <2>2
    <3> QED BY <2>2, <3>1, <3>2, ExitCodes
  <2>3. CASE ~Bad(merged) /\ ~Poor(merged)
    BY <1>3, <1>4, <2>3, ExitCodes
  <2> QED BY <2>1, <2>2, <2>3
<1> QED BY <1>1, <1>2, <1>5, <1>6

(* A merge that is not rejected has every trial once, of its own campaign, *)
(* with the results and the exit code of its parts.                        *)
THEOREM MergesAreWhole == Spec => []MergedIsWhole
<1> QED BY RootsHoldShares, WholeMerge, PTL

-----------------------------------------------------------------------------
(* Results that have every variant of a pair if they have one can be       *)
(* compared.                                                               *)
Mated(results) ==
    /\ DOMAIN results \subseteq Trials
    /\ \A t \in DOMAIN results : \A v \in Variants : <<t[1], t[2], v>> \in DOMAIN results

LEMMA MatedIsComparable ==
    ASSUME NEW results, Mated(results), DOMAIN results # {},
           NEW left \in Variants, NEW right \in Variants
    PROVE  Comparable(results, left, right)
<1>1. ASSUME NEW p \in Pairs(results, left, right)
      PROVE  {<<p[1], p[2], left>>, <<p[1], p[2], right>>} \subseteq DOMAIN results
  <2>1. PICK t \in DOMAIN results : p = <<t[1], t[2]>>
    BY DEF Pairs
  <2>2. p[1] = t[1] /\ p[2] = t[2]
    BY <2>1
  <2> QED BY <2>2 DEF Mated
<1>2. Pairs(results, left, right) # {}
  <2>1. PICK t : t \in DOMAIN results
    OBVIOUS
  <2>2. <<t[1], t[2], left>> \in DOMAIN results
    BY <2>1 DEF Mated
  <2>3. <<t[1], t[2], left>>[3] \in {left, right}
    OBVIOUS
  <2> QED BY <2>2, <2>3 DEF Pairs
<1> QED BY <1>1, <1>2 DEF Comparable

(* The trials of a part come with all the variants of their pairs.         *)
LEMMA PartsAreMated ==
    ASSUME NEW loaded \in Seq(Parts), loaded # <<>>, Complete(loaded), Exact(loaded),
           NEW i \in 1..Len(loaded)
    PROVE  Mated(loaded[i].results)
<1> DEFINE shard == loaded[i].shard
<1>1. shard # NoShard
  BY AllIndices
<1>2. DOMAIN loaded[i].results = {t \in Trials : Owns(shard, t)}
  BY <1>1 DEF Exact, Share
<1>3. ASSUME NEW t \in Trials, NEW v \in Variants
      PROVE  /\ <<t[1], t[2], v>> \in Trials
             /\ PairIndex(<<t[1], t[2], v>>) = PairIndex(t)
  BY DEF Trials, PairIndex
<1> QED BY <1>2, <1>3 DEF Mated, Owns

LEMMA Comparisons == IInv => ComparisonsAgree
<1> DEFINE loaded == merging.loaded
           merged == Union(loaded)
           parts == {part \in Range(loaded) : DOMAIN part.results # {}}
<1> SUFFICES ASSUME IInv, Accepts(loaded), NEW left \in Variants, NEW right \in Variants
             PROVE  /\ Comparable(merged, left, right)
                    /\ \A part \in parts : Comparable(part.results, left, right)
                    /\ OnlyPassed(merged, left, right) =
                           UNION {OnlyPassed(part.results, left, right) : part \in parts}
  BY DEF ComparisonsAgree
<1>1. loaded \in Seq(Parts) /\ loaded # <<>> /\ Complete(loaded) /\ Exact(loaded)
  BY DEF IInv, Accepts
<1>2. parts = {loaded[i] : i \in {k \in 1..Len(loaded) : DOMAIN loaded[k].results # {}}}
  BY <1>1 DEF Range
<1> HIDE DEF loaded, parts
<1>3. /\ \A t \in Trials : \E i \in 1..Len(loaded) : t \in DOMAIN loaded[i].results
      /\ \A i \in 1..Len(loaded) : \A t \in DOMAIN loaded[i].results :
             t \in Trials /\ merged[t] = loaded[i].results[t]
      /\ DOMAIN merged = Trials
  BY <1>1, WholeUnion
<1>4. \A i \in 1..Len(loaded) : Mated(loaded[i].results)
  BY <1>1, PartsAreMated
<1> HIDE DEF merged
<1>5. Comparable(merged, left, right)
  <2>1. Mated(merged)
    BY <1>3 DEF Mated, Trials
  <2>2. <<1, 1, left>> \in Trials
    BY ShardsAssumption DEF Trials
  <2> QED BY <1>3, <2>1, <2>2, MatedIsComparable
<1>6. \A part \in parts : Comparable(part.results, left, right)
  BY <1>2, <1>4, MatedIsComparable
<1>7. ASSUME NEW p \in OnlyPassed(merged, left, right)
      PROVE  \E part \in parts : p \in OnlyPassed(part.results, left, right)
  <2> DEFINE l == <<p[1], p[2], left>>
             r == <<p[1], p[2], right>>
  <2>1. p \in Pairs(merged, left, right) /\ merged[l] = "passed" /\ merged[r] # "passed"
    BY DEF OnlyPassed
  <2>2. l \in Trials
    BY <1>3, <1>5, <2>1 DEF Comparable
  <2>3. PICK i \in 1..Len(loaded) : l \in DOMAIN loaded[i].results
    BY <1>3, <2>2
  <2>4. r \in DOMAIN loaded[i].results
    BY <1>4, <2>3 DEF Mated
  <2>5. loaded[i].results[l] = "passed" /\ loaded[i].results[r] # "passed"
    BY <1>3, <2>1, <2>3, <2>4
  <2>6. p \in Pairs(loaded[i].results, left, right)
    <3>1. p = <<l[1], l[2]>> /\ l[3] = left
      BY <2>1 DEF Pairs
    <3> QED BY <2>3, <3>1 DEF Pairs
  <2>7. loaded[i] \in parts
    BY <1>2, <2>3
  <2> QED BY <2>5, <2>6, <2>7 DEF OnlyPassed
<1>8. ASSUME NEW part \in parts, NEW p \in OnlyPassed(part.results, left, right)
      PROVE  p \in OnlyPassed(merged, left, right)
  <2>1. PICK i \in 1..Len(loaded) : part = loaded[i]
    BY <1>2
  <2>2. p \in Pairs(part.results, left, right)
    BY DEF OnlyPassed
  <2>3. {<<p[1], p[2], left>>, <<p[1], p[2], right>>} \subseteq DOMAIN part.results
    BY <1>6, <2>2 DEF Comparable
  <2>4. p \in Pairs(merged, left, right)
    BY <1>3, <2>1, <2>2 DEF Pairs
  <2> QED BY <1>3, <2>1, <2>3, <2>4 DEF OnlyPassed
<1> QED BY <1>5, <1>6, <1>7, <1>8

(* Comparing two variants in a merged report is comparing them in its      *)
(* parts, and is never refused.                                            *)
THEOREM ComparisonsAreKept == Spec => []ComparisonsAgree
<1> QED BY RootsHoldShares, Comparisons, PTL
=============================================================================
