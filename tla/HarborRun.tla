----------------------------- MODULE HarborRun -----------------------------
(***************************************************************************)
(* adapters/harbor.py and _harbor_trajectory.py: one Harbor job runs as a  *)
(* child process; afterwards, without waiting for anything, the adapter    *)
(* reads its result and the agent's trajectory, a chain of files in which  *)
(* a later one may replay the end of an earlier one, and imports it.       *)
(* What Harbor writes is external; a file is chosen when it is read.       *)
(***************************************************************************)
EXTENDS AdapterTrial, SequencesExt

CONSTANTS
    Sources,     \* the steps of the agent's conversation: who speaks
    MaxSegments  \* _MAX_TRAJECTORY_SEGMENTS

VARIABLES
    native,   \* what Harbor's result.json says
    chain,    \* the segments read, in continuation order
    current,  \* the file to read next
    imported, \* segments whose import is done
    position  \* steps of the next one that are imported

progress == <<imported, position>>
harbor == <<native, chain, current, progress>>

(* Not a result of this version, or one of another task, agent or model.   *)
Unusable == {"damaged", "foreign"}

(* Whether the reward that decides is in the result.                       *)
Rewarded == {"ungraded", "graded"}

Natives == {"unknown", "missing", "many", "exception"} \union Unusable \union Rewarded

(* What a file of the chain may be: a trajectory; no trajectory; one with  *)
(* values that the facts of a trace do not accept.                         *)
Contents == {"sound", "invalid", "refused"}

(* Steps from + 1 to until are new, the copied ones before them flagged.   *)
Segments ==
    [file : 1..MaxSegments, copied : 0..Len(Sources), from : 0..Len(Sources),
     until : 0..Len(Sources), content : Contents]

HarborTypeOK ==
    /\ native \in Natives
    /\ chain \in Seq(Segments) /\ Len(chain) <= MaxSegments
    /\ current \in 0..MaxSegments + 1
    /\ imported \in 0..MaxSegments
    /\ position \in 0..Len(Sources)

HarborInit ==
    /\ native = "unknown"
    /\ chain = <<>>
    /\ current = 1
    /\ imported = 0
    /\ position = 0

Start ==
    /\ at = "start"
    /\ \/ Waits("job") /\ UNCHANGED <<dialogue, receipts>>
       \/ Fails("start", FALSE) /\ UNCHANGED <<dialogue, receipts>>
    /\ UNCHANGED <<resource, harbor>>

(* HarnessErrors that carry no evidence: timeout_seconds, too much output, *)
(* more than one result.                                                   *)
JobFails ==
    /\ at = "job"
    /\ \/ Fails("limit", FALSE) /\ UNCHANGED native
       \/ Fails("many", FALSE) /\ native' = "many"
    /\ UNCHANGED <<resource, dialogue, receipts, chain, current, progress>>

(* There is one agent/trajectory.json, or there is nothing to import.      *)
FindTrajectory == Waits("chain") \/ Waits("import")

(* The result decides before the trajectory is looked at.  A result whose  *)
(* exception is Harbor's own, or none at all, is only supplemented by it.  *)
ReadNative ==
    /\ at = "job"
    /\ native' \in Natives \ {"unknown", "many"}
    /\ IF native' \in Unusable
       THEN Fails(native', TRUE) /\ UNCHANGED <<dialogue, receipts>>
       ELSE FindTrajectory
    /\ UNCHANGED <<resource, chain, current, progress>>

Supplements == native \in {"missing", "exception"}

(* The steps of the conversation that the segments read so far cover.      *)
Covered == IF chain = <<>> THEN 0 ELSE Last(chain).until

(* _read_trajectory_chain gives up; what was read before stays in chain.   *)
ChainFails ==
    IF Supplements
    THEN Waits("import")
    ELSE Fails("chain", TRUE) /\ UNCHANGED <<dialogue, receipts>>

(* A cycle, too many segments, a file that is missing, linked or too long. *)
Unreadable ==
    /\ at = "chain"
    /\ ChainFails
    /\ UNCHANGED <<resource, harbor>>

MayRead == current \notin {chain[i].file : i \in 1..Len(chain)} /\ Len(chain) < MaxSegments

(* The next file; that facts refuse its values only the import finds out.  *)
ReadSegment ==
    /\ at = "chain"
    /\ MayRead
    /\ \E copied \in 0..Covered, fresh \in 0..(Len(Sources) - Covered),
          content \in Contents, next \in 0..Len(chain) + 2 :
          /\ copied + fresh > 0
          /\ chain' = Append(chain, [file |-> current, copied |-> copied, from |-> Covered,
                                     until |-> Covered + fresh, content |-> content])
          /\ IF content = "invalid"
             THEN ChainFails /\ UNCHANGED current
             ELSE /\ Waits(IF next = 0 THEN "import" ELSE "chain")
                  /\ current' = next
    /\ UNCHANGED <<resource, native, progress>>

Segment == chain[imported + 1]

Steps(segment) == segment.copied + segment.until - segment.from

(* The number that a step of the segment has in the conversation.          *)
StepAt(segment, number) == segment.from - segment.copied + number

(* Mutant of Skipped: copied steps are taken for new ones.                 *)
SkippedSystem(segment, number) == Sources[StepAt(segment, number)] = "system"

(* The system's steps, and those copied from an earlier segment.           *)
Skipped(segment, number) ==
    number <= segment.copied \/ Sources[StepAt(segment, number)] = "system"

(* Mutant of Call: the path of the file is not part of the name.           *)
CallByNumber(segment, number) == <<0, number>>

(* Model calls are named by the file and the step's number in it.          *)
Call(segment, number) == <<segment.file, number>>

Importing(content) ==
    /\ at = "import"
    /\ imported < Len(chain)
    /\ Segment.content = content

(* import_trajectory, for one step.                                        *)
ImportStep ==
    /\ Importing("sound")
    /\ position < Steps(Segment)
    /\ position' = position + 1
    /\ IF Skipped(Segment, position')
       THEN UNCHANGED <<dialogue, receipts>>
       ELSE LET step == StepAt(Segment, position')
            IN  /\ dialogue' = Append(dialogue, step)
                /\ IF Sources[step] = "agent"
                   THEN receipts' = receipts \union {Call(Segment, position')}
                   ELSE UNCHANGED receipts
    /\ UNCHANGED <<at, outcome, cancels, cause, kept, resource, native, chain, current, imported>>

(* A file without a trajectory is passed over.                             *)
NextSegment ==
    /\ Importing("invalid") \/ (Importing("sound") /\ position = Steps(Segment))
    /\ imported' = imported + 1
    /\ position' = 0
    /\ UNCHANGED <<control, resource, native, chain, current>>

(* Nothing is recorded of a segment with a value that facts refuse.  This  *)
(* exception is nobody's: it replaces what the result says.                *)
ImportFails ==
    /\ Importing("refused")
    /\ Fails("refused", FALSE)
    /\ UNCHANGED <<resource, harbor, dialogue, receipts>>

(* The trial ends as the result says.                                      *)
Imported ==
    /\ at = "import"
    /\ imported = Len(chain)
    /\ \/ native # "graded" /\ Fails(native, TRUE) /\ UNCHANGED <<dialogue, receipts>>
       \/ native = "graded" /\ Fails("write", FALSE) /\ UNCHANGED <<dialogue, receipts>>
       \/ native = "graded" /\ Goes("over", "evidence")
    /\ UNCHANGED <<resource, harbor>>

HarborInterrupted ==
    /\ at = "job"
    /\ Interrupts("over", "cancelled")
    /\ UNCHANGED <<resource, harbor>>

HarborSteps ==
    \/ Start \/ JobFails \/ ReadNative \/ Unreadable \/ ReadSegment
    \/ ImportStep \/ NextSegment \/ ImportFails \/ Imported

HarborNext == HarborSteps \/ HarborInterrupted
=============================================================================
