-------------------------- MODULE ScreenAdaptation --------------------------
(***************************************************************************)
(* The adaptation of a shared screen (web/js/screen-share-adaptation.js):  *)
(* a timer samples what the sender sends; after two samples over the       *)
(* budget, first the frame rate and then the resolution is lowered.  The   *)
(* profile, the layout and the operator give it budgets at any time, also  *)
(* while a sample awaits its statistics or the sender its parameters.      *)
(***************************************************************************)
EXTENDS Integers, Sequences, FiniteSetsExt, SequencesExt

CONSTANTS Budgets,      \* what update may be given: [bits, fps]
          MinFrameRate, \* minimumFrameRate
          MaxScale,     \* maximumResolutionScale, in quarters
          MaxUpdates,   \* bound on the budgets that are given
          MaxHitches   \* bound on statistics and parameters that fail

ASSUME ScreenAdaptationAssumptions ==
  /\ \A b \in Budgets : b.bits \in Nat \ {0} /\ b.fps \in Nat \ {0}
  /\ MinFrameRate \in Nat \ {0} /\ MaxScale \in Nat /\ MaxScale >= 4
  /\ MaxUpdates \in Nat /\ MaxHitches \in Nat

VARIABLES
  budget,        \* maxBitrate and maxFrameRate
  rate, scale,   \* frameRate, and resolutionScale in quarters
  over,          \* overLimitSamples
  previous,      \* the generation of previousBytes, 0 for none
  sampling,      \* the running sample: idle, stats or applying; its generation
  generation, stopped, timer,
  calls,         \* the setParameters calls of the sender that have not answered
  applied,       \* what the sender encodes with
  refused,       \* the last of them was rejected
  heavy,         \* the content exceeds every budget, whatever is done
  hitches

adaptVars == <<budget, rate, scale, over, previous, sampling, generation, stopped,
               timer, calls, applied, refused, heavy, hitches>>

NoBudget == [bits |-> 0, fps |-> 0]
NoSample == [pc |-> "idle", generation |-> 0]

AdaptInit ==
  /\ budget = NoBudget /\ rate = 0 /\ scale = 4 /\ over = 0 /\ previous = 0
  /\ sampling = NoSample /\ generation = 0 /\ stopped = FALSE /\ timer = FALSE
  /\ calls = <<>> /\ applied = [bits |-> 0, rate |-> 0, scale |-> 4]
  /\ refused = FALSE /\ heavy \in BOOLEAN /\ hitches = 0

Hitch == hitches < MaxHitches /\ hitches' = hitches + 1

\* applyParameters, called by "update" or "sample", up to its await.
Apply(who) ==
  calls' = Append(calls, [who |-> who, bits |-> budget'.bits, rate |-> rate',
                          scale |-> scale'])

\* update: the same budget keeps what was learned, another one starts anew.
Update ==
  \E b \in Budgets :
    /\ ~stopped /\ generation < MaxUpdates /\ generation' = generation + 1
    /\ IF b = budget THEN UNCHANGED <<budget, rate, scale, over>>
       ELSE budget' = b /\ rate' = b.fps /\ scale' = 4 /\ over' = 0
    /\ previous' = 0 /\ Apply("update")
    /\ UNCHANGED <<sampling, stopped, timer, applied, refused, heavy, hitches>>

\* The timer fires: the sender is asked for its statistics.
Tick ==
  /\ timer /\ ~stopped /\ sampling = NoSample
  /\ sampling' = [pc |-> "stats", generation |-> generation]
  /\ UNCHANGED <<budget, rate, scale, over, previous, generation, stopped, timer,
                 calls, applied, refused, heavy, hitches>>

\* One step down: of the frame rate, or else of the resolution.
StepDown ==
  /\ rate' = IF rate > MinFrameRate THEN Max({MinFrameRate, (rate * 4) \div 5}) ELSE rate
  /\ scale' = IF rate > MinFrameRate \/ scale = MaxScale THEN scale ELSE scale + 1

JudgeUnapplied(tooMuch) ==
  IF tooMuch /\ over = 1 /\ previous # 0
    THEN /\ over' = 0 /\ StepDown
         /\ sampling' = NoSample /\ previous' = generation /\ UNCHANGED calls
    ELSE /\ over' = (IF tooMuch THEN 1 ELSE 0) /\ previous' = generation
         /\ sampling' = NoSample /\ UNCHANGED <<rate, scale, calls>>

Judge(tooMuch) ==
  IF previous = 0
    THEN UNCHANGED <<rate, scale, over, calls>> /\ previous' = generation /\ sampling' = NoSample
  ELSE IF tooMuch /\ over = 1
    THEN /\ over' = 0 /\ StepDown /\ Apply("sample")
         /\ sampling' = [sampling EXCEPT !.pc = "applying"] /\ UNCHANGED previous
  ELSE /\ over' = (IF tooMuch THEN over + 1 ELSE 0) /\ previous' = generation
       /\ sampling' = NoSample /\ UNCHANGED <<rate, scale, calls>>

\* They arrive.  A sample that a new budget or the end of the share overtook
\* is dropped; otherwise the bytes since the last one are judged.
Stats ==
  /\ sampling.pc = "stats"
  /\ IF stopped \/ sampling.generation # generation
       THEN sampling' = NoSample
            /\ UNCHANGED <<budget, rate, scale, over, previous, calls>>
       ELSE /\ UNCHANGED budget
            /\ \E tooMuch \in BOOLEAN : (heavy => tooMuch) /\ Judge(tooMuch)
  /\ UNCHANGED <<generation, stopped, timer, applied, refused, heavy, hitches>>

\* They cannot be read, or nothing is sent yet.
NoStats ==
  /\ sampling.pc = "stats" /\ Hitch /\ sampling' = NoSample
  /\ UNCHANGED <<budget, rate, scale, over, previous, generation, stopped, timer,
                 calls, applied, refused, heavy>>

AnsweredUntimed ==
  /\ calls # <<>> /\ calls' = Tail(calls)
  /\ applied' = [bits |-> Head(calls).bits, rate |-> Head(calls).rate,
                 scale |-> Head(calls).scale]
  /\ previous' = 0 /\ sampling' = NoSample
  /\ UNCHANGED <<budget, rate, scale, over, generation, stopped, timer, refused, heavy,
                 hitches>>

\* A setParameters call answers, well or (swallowed) not: an update starts the
\* timer, even after the share has ended; a sample keeps its bytes.
Answered ==
  /\ calls # <<>> /\ calls' = Tail(calls)
  /\ \/ /\ applied' = [bits |-> Head(calls).bits, rate |-> Head(calls).rate,
                       scale |-> Head(calls).scale]
        /\ refused' = FALSE /\ UNCHANGED hitches
     \/ Hitch /\ refused' = TRUE /\ UNCHANGED applied
  /\ IF Head(calls).who = "update"
       THEN timer' = TRUE /\ UNCHANGED <<sampling, previous>>
       ELSE /\ previous' = sampling.generation
            /\ sampling' = NoSample /\ UNCHANGED timer
  /\ UNCHANGED <<budget, rate, scale, over, generation, stopped, heavy>>

\* stop: the share has ended.
StopAdaptation ==
  /\ ~stopped /\ stopped' = TRUE /\ timer' = FALSE /\ generation' = generation + 1
  /\ UNCHANGED <<budget, rate, scale, over, previous, sampling, calls, applied, refused,
                 heavy, hitches>>

AdaptNext ==
  Update \/ Tick \/ Stats \/ NoStats \/ Answered \/ StopAdaptation

AdaptSpec == AdaptInit /\ [][AdaptNext]_adaptVars

\* The interval timer fires, and the browser answers.
FairAdaptSpec == AdaptSpec /\ WF_adaptVars(Tick) /\ WF_adaptVars(Stats) /\ WF_adaptVars(Answered)

(***************************************************************************)
(* Properties.                                                             *)
(***************************************************************************)
\* Every variable has its type; only a running sample applies parameters.
AdaptTypeOK ==
  /\ budget \in Budgets \union {NoBudget} /\ rate \in 0 .. budget.fps
  /\ scale \in 4 .. MaxScale /\ over \in 0 .. 1 /\ previous \in 0 .. generation
  /\ {stopped, timer, refused, heavy} \subseteq BOOLEAN
  /\ (sampling.pc = "applying") <=> (\E i \in DOMAIN calls : calls[i].who = "sample")

\* The sender encodes with what was decided last, once its calls have
\* answered, unless the last one was rejected: an update that arrives during
\* a sample's call is not overwritten by it.
AppliedIsCurrent ==
  calls = <<>> /\ ~refused =>
    applied = [bits |-> budget.bits, rate |-> rate, scale |-> scale]

\* What was learned is kept: while the budget stays the same, nothing raises
\* the frame rate or the resolution again, and neither passes its floor.
LearnedIsKept ==
  [][budget' = budget =>
       /\ rate' <= rate /\ scale' >= scale
       /\ rate' < rate => rate' >= MinFrameRate /\ scale' = scale]_adaptVars

\* Content that stays over its budget is brought down to the floor, unless
\* the share ends first.
FloorIsReached ==
  heavy /\ budget # NoBudget ~> stopped \/ (rate <= MinFrameRate /\ scale = MaxScale)
=============================================================================
