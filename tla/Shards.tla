------------------------------- MODULE Shards -------------------------------
(***************************************************************************)
(* shards.py and the parts of campaign.py it rests on: a campaign is run   *)
(* in several roots, each a static share of its case/sample pairs, by      *)
(* processes that may fail at any point; another process merges the roots  *)
(* into one report and compares two variants.  A root is one campaign      *)
(* directory (module CampaignRun), here without its attempts.              *)
(***************************************************************************)
EXTENDS Integers, Sequences, FiniteSets, Functions

CONSTANTS
    Cases,       \* number of cases
    Samples,     \* samples of each case
    Variants,    \* names of the variants
    Definitions, \* campaign definitions somebody may run or merge
    Shards,      \* shares somebody may ask for: [index, count], or NoShard
    Verdicts,    \* what a terminal receipt may say of its trial
    Roots        \* run directories

ASSUME ShardsAssumption ==
    /\ Cases \in Nat \ {0}
    /\ Samples \in Nat \ {0}
    /\ \A shard \in Shards :
           \/ shard = [index |-> 0, count |-> 0]
           \/ shard \in [index : Nat, count : Nat] /\ shard.index < shard.count
    /\ Verdicts \subseteq {"passed", "rejected", "failed", "interrupted"}

VARIABLES
    manifest, \* root -> campaign.json: <<definition, shard>>, or Nothing
    report,   \* root -> the results of report.json, trial -> verdict, or Nothing
    retried,  \* roots whose interrupted trials were given up since their report
    lock,     \* roots a run holds
    merging   \* the merge in progress: its campaign, its roots, what it read

vars == <<manifest, report, retried, lock, merging>>

Trials == (1..Cases) \X (1..Samples) \X Variants

(* The campaign as a whole.                                                *)
NoShard == [index |-> 0, count |-> 0]

(* A manifest, a report or a merge that is not there.                      *)
Nothing == <<>>

PairIndex(trial) == (trial[1] - 1) * Samples + trial[2] - 1

(* Mutant of Owns: the trials are dealt out, not the pairs.                *)
OwnsTrial(shard, trial) ==
    LET second == IF trial[3] = CHOOSE variant \in Variants : TRUE THEN 0 ELSE 1
    IN  (PairIndex(trial) + second) % shard.count = shard.index

Owns(shard, trial) == PairIndex(trial) % shard.count = shard.index

(* _trials.                                                                *)
Share(shard) == {t \in Trials : shard = NoShard \/ Owns(shard, t)}

ExitCode(results) ==
    LET Some(verdicts) == \E t \in DOMAIN results : results[t] \in verdicts
    IN  IF Some({"failed", "interrupted"}) THEN 2 ELSE IF Some({"rejected"}) THEN 1 ELSE 0

Pairs(results, left, right) ==
    {<<t[1], t[2]>> : t \in {u \in DOMAIN results : u[3] \in {left, right}}}

(* Report.compare refuses a pair with one side only.                       *)
Comparable(results, left, right) ==
    /\ Pairs(results, left, right) # {}
    /\ \A p \in Pairs(results, left, right) :
           {<<p[1], p[2], left>>, <<p[1], p[2], right>>} \subseteq DOMAIN results

(* only_left_passed; only_right_passed with the sides exchanged.           *)
OnlyPassed(results, left, right) ==
    {p \in Pairs(results, left, right) :
        /\ results[<<p[1], p[2], left>>] = "passed"
        /\ results[<<p[1], p[2], right>>] # "passed"}

Idle == [campaign |-> {}, roots |-> <<>>, loaded |-> <<>>]

TypeOK ==
    /\ manifest \in [Roots -> {Nothing} \union (Definitions \X Shards)]
    /\ retried \subseteq Roots
    /\ lock \subseteq Roots
    /\ Len(merging.loaded) <= Len(merging.roots)

Init ==
    /\ manifest = [r \in Roots |-> Nothing]
    /\ report = [r \in Roots |-> Nothing]
    /\ retried = {}
    /\ lock = {}
    /\ merging = Idle

(* Mutant of Begin: the directory's manifest is not compared.              *)
BeginAnew(r, definition, shard, retry) ==
    /\ r \notin lock
    /\ manifest' = [manifest EXCEPT ![r] = <<definition, shard>>]
    /\ retried' = IF retry /\ report[r] # Nothing THEN retried \union {r} ELSE retried
    /\ lock' = lock \union {r}
    /\ UNCHANGED <<report, merging>>

(* run takes the lock and finds its own manifest, or pins it; a retry      *)
(* gives up the receipts of interrupted trials.                            *)
Begin(r, definition, shard, retry) ==
    /\ r \notin lock
    /\ manifest[r] \in {Nothing, <<definition, shard>>}
    /\ manifest' = [manifest EXCEPT ![r] = <<definition, shard>>]
    /\ retried' = IF retry /\ report[r] # Nothing THEN retried \union {r} ELSE retried
    /\ lock' = lock \union {r}
    /\ UNCHANGED <<report, merging>>

(* A result of this root's report that a later run finds again.            *)
Final(r, t) == report[r] # Nothing /\ (r \in retried => report[r][1][t] # "interrupted")

(* Every trial of the share has its result, from this run or an earlier    *)
(* one: report.json, and the end.                                          *)
Finish(r) ==
    /\ r \in lock
    /\ \E results \in [Share(manifest[r][2]) -> Verdicts] :
          /\ \A t \in DOMAIN results : Final(r, t) => results[t] = report[r][1][t]
          /\ report' = [report EXCEPT ![r] = <<results>>]
    /\ retried' = retried \ {r}
    /\ lock' = lock \ {r}
    /\ UNCHANGED <<manifest, merging>>

(* An exception, a cancellation or the death of the process.  The report   *)
(* of an earlier run stays.                                                *)
Stop(r) ==
    /\ r \in lock
    /\ lock' = lock \ {r}
    /\ UNCHANGED <<manifest, report, retried, merging>>

AskMerge(definition, roots) ==
    /\ merging = Idle
    /\ merging' = [campaign |-> {definition}, roots |-> roots, loaded |-> <<>>]
    /\ UNCHANGED <<manifest, report, retried, lock>>

(* _read_closed_shard: one root after the other, each under its lock.      *)
ReadShard ==
    /\ Len(merging.loaded) < Len(merging.roots)
    /\ LET r == merging.roots[Len(merging.loaded) + 1]
       IN  /\ r \notin lock
           /\ report[r] # Nothing
           /\ merging' = [merging EXCEPT !.loaded = Append(@,
                  [definition |-> manifest[r][1], shard |-> manifest[r][2],
                   results |-> report[r][1]])]
    /\ UNCHANGED <<manifest, report, retried, lock>>

OfCampaign(part) == {part.definition} = merging.campaign

(* Mutant of Complete: the roots are only counted.                         *)
Counted(loaded) ==
    /\ loaded[1].shard # NoShard
    /\ Len(loaded) = loaded[1].shard.count
    /\ \A i \in 1..Len(loaded) : loaded[i].shard.count = loaded[1].shard.count

Complete(loaded) ==
    /\ loaded[1].shard # NoShard
    /\ Len(loaded) = loaded[1].shard.count
    /\ \A i \in 1..Len(loaded) : loaded[i].shard.count = loaded[1].shard.count
    /\ \A i, j \in 1..Len(loaded) : loaded[i].shard.index = loaded[j].shard.index => i = j

(* What each root has to report is its share.                              *)
Exact(loaded) == \A i \in 1..Len(loaded) : DOMAIN loaded[i].results = Share(loaded[i].shard)

Union(loaded) ==
    [t \in UNION {DOMAIN loaded[i].results : i \in 1..Len(loaded)} |->
        loaded[CHOOSE i \in 1..Len(loaded) : t \in DOMAIN loaded[i].results].results[t]]

Accepts(loaded) ==
    /\ loaded # <<>>
    /\ Len(loaded) = Len(merging.roots)
    /\ \A i \in 1..Len(loaded) : OfCampaign(loaded[i])
    /\ Complete(loaded)
    /\ Exact(loaded)

(* The merged report is printed, and nothing is kept of it; or a root that *)
(* is locked, empty or without a report, or anything else, is rejected.    *)
EndMerge ==
    /\ merging # Idle
    /\ merging' = Idle
    /\ UNCHANGED <<manifest, report, retried, lock>>

Run(r) ==
    \/ \E definition \in Definitions, shard \in Shards, retry \in BOOLEAN :
           Begin(r, definition, shard, retry)
    \/ Finish(r)
    \/ Stop(r)

Merges ==
    \/ \E definition \in Definitions, n \in 1..Cardinality(Roots) :
           \E roots \in [1..n -> Roots] : AskMerge(definition, roots)
    \/ ReadShard
    \/ EndMerge

Next == (\E r \in Roots : Run(r)) \/ Merges

Spec == Init /\ [][Next]_vars

-----------------------------------------------------------------------------
(* Properties.                                                             *)

(* Whoever runs in a root, with whatever definition and share, fails there *)
(* or is refused: its report has one verdict for each trial of the share   *)
(* that the root's manifest pins, and for no other.                        *)
ReportsArePinned ==
    \A r \in Roots : report[r] # Nothing =>
        manifest[r] # Nothing /\ report[r][1] \in [Share(manifest[r][2]) -> Verdicts]

(* A merge that is not rejected has every trial of the campaign, none of   *)
(* another definition, and the exit code a single run would have: the      *)
(* worst of its parts.                                                     *)
MergedIsWhole ==
    LET parts == merging.loaded
        merged == Union(parts)
    IN  Accepts(parts) =>
            /\ DOMAIN merged = Trials
            /\ \A i \in 1..Len(parts) :
                   /\ {parts[i].definition} = merging.campaign
                   /\ \A t \in DOMAIN parts[i].results : merged[t] = parts[i].results[t]
                   /\ ExitCode(merged) >= ExitCode(parts[i].results)
            /\ \E i \in 1..Len(parts) : ExitCode(merged) = ExitCode(parts[i].results)

(* Both variants of a pair are in one root: whatever two variants are      *)
(* compared, a merged report can be compared, and it counts what its       *)
(* shards count, each pair once.                                           *)
ComparisonsAgree ==
    LET merged == Union(merging.loaded)
        parts == {part \in Range(merging.loaded) : DOMAIN part.results # {}}
    IN  Accepts(merging.loaded) =>
            \A left, right \in Variants :
                /\ Comparable(merged, left, right)
                /\ \A part \in parts : Comparable(part.results, left, right)
                /\ OnlyPassed(merged, left, right) =
                       UNION {OnlyPassed(part.results, left, right) : part \in parts}
=============================================================================
