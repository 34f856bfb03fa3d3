----------------------- MODULE GenerationStagesProofs -----------------------
(***************************************************************************)
(* Proofs about GenerationStages, for any number of generations, planner   *)
(* invocations and VAE windows: the lifetimes of the weights never         *)
(* overlap, and what a generation does to its output is what AceBackend    *)
(* says.                                                                   *)
(***************************************************************************)
EXTENDS GenerationStages, TLAPS

Places == {"idle", "retry", "load", "create", "run", "write", "destroy", "fetch", "begin",
           "commit", "settle", "rollback", "release"}

\* An executor exists from the end of its uploads to the end of its stage.
AnExecutorIsAt ==
  /\ place \in {"idle", "retry", "fetch", "begin", "commit", "rollback", "release"} =>
       executor \in {"none", "destroyed"}
  /\ place = "create" => executor = "none"
  /\ place \in {"run", "write"} => executor # "none"
  /\ place = "destroy" => executor \in {"destroying", "destroyed"}
  /\ place = "settle" => executor # "live"

\* An upload is the stage's first, with no executor yet, or a later phase's
\* of the conditioning executor, under its lease.
AnUploadIsAt ==
  place = "load" =>
    /\ ~lease => executor = "none" /\ passes = 0
    /\ lease => stage = "conditioning"
    /\ stage = "dit" <=> loading \in {"dit", "dense"}

\* A lease is held by a run, and a pass is submitted under it if it needs one.
AWorkIsAt ==
  /\ lease => place \in {"run", "load"} /\ executor \in {"live", "destroying"}
  /\ submitted => place = "run" /\ (lease \/ ~NeedsLease)
  /\ place = "write" => stage = "vae"
  /\ place \in {"load", "create", "run"} /\ stage \in {"conditioning", "dit"} => passes < Passes

\* Which weights are on the GPU.
TheWeightsAre ==
  /\ resident \subseteq Reads
  /\ executor = "live" \/ lease => resident = Reads
  /\ executor = "none" => resident = {} \/ place \in {"load", "create"}
  /\ executor = "destroyed" => resident = {}
  /\ place = "create" => resident = Reads
  /\ place = "load" => resident = IF loading = "dit" THEN {"dit"} ELSE Reads

Stages == {"planner", "conditioning", "dit", "vae"}

RunTypes ==
  /\ planned \in BOOLEAN /\ place \in Places /\ stage \in Stages
  /\ {loading} \cup resident \subseteq
       {"none", "planner", "text", "semantic", "conditioner", "dit", "dense", "vae"}
  /\ executor \in {"none", "live", "destroying", "destroyed"}
  /\ lease \in BOOLEAN /\ submitted \in BOOLEAN /\ passes \in Nat

WeightsInv == AnExecutorIsAt /\ AnUploadIsAt /\ AWorkIsAt /\ TheWeightsAre

\* Where an audio transaction can be open, or committed and on its way out.
AudioMatchesPlace ==
  /\ stage # "vae" \/ place \in {"idle", "retry", "fetch", "begin"} => audio = "none"
  /\ stage = "vae" /\ place \in {"load", "create", "run", "write", "destroy"} => audio = "open"
  /\ place \in {"commit", "rollback"} => audio = "open"
  /\ place = "release" => audio = "committed"
  /\ place \in {"write", "fetch", "begin", "commit"} => stage = "vae"
  /\ audio = "committed" => place \in {"settle", "release"}

\* What OPFS and the books hold of the generation that runs.
BooksMatchAudio ==
  /\ place # "idle" => job \in Jobs
  /\ place \notin {"idle", "retry"} => outputs.rollback = {} /\ outputs.release = {}
  /\ place # "idle" /\ audio = "none" => job \notin outputs.stored
  /\ audio # "none" => job \in outputs.stored
  /\ place # "idle" /\ audio # "committed" => job \notin outputs.committed
  /\ outputs.stored \cup outputs.committed \subseteq 1..job

OutputsInv == AudioMatchesPlace /\ BooksMatchAudio

BookTypes ==
  /\ job \in 0..MaxJobs /\ signalAborted \in BOOLEAN /\ failure \in {"none", "error", "lost"}
  /\ audio \in {"none", "open", "committed"}
  /\ outputs \in [committed : SUBSET Jobs, rollback : SUBSET Jobs,
                  release : SUBSET Jobs, stored : SUBSET Jobs]

GenerationInv == RunTypes /\ BookTypes /\ WeightsInv /\ OutputsInv

-----------------------------------------------------------------------------
(* What a stage reads, as a function of planned, stage and passes.          *)

ReadsAt(p, s, n) ==
  CASE s = "planner" -> {"planner"}
    [] s = "conditioning" -> IF n = 0 THEN {"text"}
                             ELSE IF p /\ n = 1 THEN {"semantic"}
                             ELSE IF n = IF p THEN 2 ELSE 1 THEN {"conditioner"}
                             ELSE {}
    [] s = "dit" -> IF n = 0 THEN {"dit", "dense"} ELSE {}
    [] s = "vae" -> {"vae"}

LEMMA WeightsAre ==
  ASSUME RunTypes
  PROVE  WeightsOf(stage) = IF stage = "planner" THEN {"planner"}
                            ELSE IF stage = "vae" THEN {"vae"}
                            ELSE IF stage = "dit" THEN {"dit", "dense"}
                            ELSE IF planned THEN {"text", "semantic", "conditioner"}
                            ELSE {"text", "conditioner"}
<1>1. CASE stage = "planner"
  BY <1>1 DEF WeightsOf, Lifetimes
<1>2. CASE stage = "vae"
  BY <1>2 DEF WeightsOf, Lifetimes
<1>3. CASE stage = "dit"
  BY <1>3 DEF WeightsOf, Lifetimes
<1>4. CASE stage = "conditioning" /\ planned
  BY <1>4 DEF WeightsOf, Lifetimes
<1>5. CASE stage = "conditioning" /\ ~planned
  BY <1>5 DEF WeightsOf, Lifetimes
<1> QED
  BY <1>1, <1>2, <1>3, <1>4, <1>5 DEF RunTypes, Stages

ReadsFacts ==
  /\ Reads = ReadsAt(planned, stage, passes)
  /\ Reads \subseteq WeightsOf(stage)
  /\ stage = "conditioning" => \A a, b \in Reads : a = b
  /\ NeedsLease <=> (stage = "dit" => passes = 0)
  /\ stage = "conditioning" => Passes = IF planned THEN 4 ELSE 3
  /\ stage = "dit" => Passes = 2

LEMMA ReadsAre == RunTypes => ReadsFacts
<1> SUFFICES ASSUME RunTypes
             PROVE  ReadsFacts
  OBVIOUS
<1> USE DEF RunTypes
<1>1. CASE stage # "conditioning"
  BY <1>1, WeightsAre DEF ReadsFacts, Reads, ReadsAt, Stages, NeedsLease, Passes
<1>2. CASE stage = "conditioning" /\ planned
  <2>1. Lifetimes(stage) = <<"text", "semantic", "conditioner">>
    BY <1>2 DEF Lifetimes
  <2>2. DOMAIN Lifetimes(stage) = 1..3 /\ Len(Lifetimes(stage)) = 3
    BY <2>1
  <2>3. Lifetimes(stage)[1] = "text" /\ Lifetimes(stage)[2] = "semantic" /\ Lifetimes(stage)[3] = "conditioner"
    BY <2>1
  <2>4. Reads = ReadsAt(planned, stage, passes)
    <3>1. CASE passes = 0
      <4>1. {passes + 1} \cap DOMAIN Lifetimes(stage) = {1}
        BY <2>2, <3>1
      <4> QED
        BY <1>2, <3>1, <2>3, <4>1 DEF Reads, ReadsAt
    <3>2. CASE passes = 1
      <4>1. {passes + 1} \cap DOMAIN Lifetimes(stage) = {2}
        BY <2>2, <3>2
      <4> QED
        BY <1>2, <3>2, <2>3, <4>1 DEF Reads, ReadsAt
    <3>3. CASE passes = 2
      <4>1. {passes + 1} \cap DOMAIN Lifetimes(stage) = {3}
        BY <2>2, <3>3
      <4> QED
        BY <1>2, <3>3, <2>3, <4>1 DEF Reads, ReadsAt
    <3>4. CASE passes > 2
      <4>1. {passes + 1} \cap DOMAIN Lifetimes(stage) = {}
        BY <2>2, <3>4
      <4> QED
        BY <1>2, <3>4, <4>1 DEF Reads, ReadsAt
    <3> QED
      BY <3>1, <3>2, <3>3, <3>4 DEF RunTypes
  <2>5. Passes = 4
    <3>1. Passes = Len(Lifetimes(stage)) + 1
      BY <1>2 DEF Passes
    <3> QED
      BY <2>2, <3>1
  <2> QED
    BY <1>2, <2>4, <2>5, WeightsAre DEF ReadsFacts, ReadsAt, NeedsLease
<1>3. CASE stage = "conditioning" /\ ~planned
  <2>1. Lifetimes(stage) = <<"text", "conditioner">>
    BY <1>3 DEF Lifetimes
  <2>2. DOMAIN Lifetimes(stage) = 1..2 /\ Len(Lifetimes(stage)) = 2
    BY <2>1
  <2>3. Lifetimes(stage)[1] = "text" /\ Lifetimes(stage)[2] = "conditioner"
    BY <2>1
  <2>4. Reads = ReadsAt(planned, stage, passes)
    <3>1. CASE passes = 0
      <4>1. {passes + 1} \cap DOMAIN Lifetimes(stage) = {1}
        BY <2>2, <3>1
      <4> QED
        BY <1>3, <3>1, <2>3, <4>1 DEF Reads, ReadsAt
    <3>2. CASE passes = 1
      <4>1. {passes + 1} \cap DOMAIN Lifetimes(stage) = {2}
        BY <2>2, <3>2
      <4> QED
        BY <1>3, <3>2, <2>3, <4>1 DEF Reads, ReadsAt
    <3>3. CASE passes > 1
      <4>1. {passes + 1} \cap DOMAIN Lifetimes(stage) = {}
        BY <2>2, <3>3
      <4> QED
        BY <1>3, <3>3, <4>1 DEF Reads, ReadsAt
    <3> QED
      BY <3>1, <3>2, <3>3 DEF RunTypes
  <2>5. Passes = 3
    <3>1. Passes = Len(Lifetimes(stage)) + 1
      BY <1>3 DEF Passes
    <3> QED
      BY <2>2, <3>1
  <2> QED
    BY <1>3, <2>4, <2>5, WeightsAre DEF ReadsFacts, ReadsAt, NeedsLease
<1> QED
  BY <1>1, <1>2, <1>3

LEMMA ReadsWillBe == RunTypes' => ReadsFacts'
BY ReadsAre, PTL

-----------------------------------------------------------------------------
(* The moves of generate() and of its executors keep WeightsInv.            *)

LEMMA SettleKeeps ==
  ASSUME RunTypes, WeightsInv, Settle, ~lease, ~submitted
  PROVE  RunTypes' /\ WeightsInv'
<1>1. RunTypes'
  BY DEF RunTypes, Places, Settle
<1>2. ReadsFacts /\ ReadsFacts'
  BY <1>1, ReadsAre, ReadsWillBe
<1> QED
  BY <1>1, <1>2 DEF Settle, RunTypes, ReadsFacts, WeightsInv, AnExecutorIsAt, AnUploadIsAt,
     AWorkIsAt, TheWeightsAre

LEMMA RunThrowsKeeps ==
  ASSUME RunTypes, WeightsInv, RunThrows, submitted' = FALSE,
         place \in {"run", "load"}, place = "load" => lease
  PROVE  RunTypes' /\ WeightsInv'
<1>1. RunTypes'
  BY DEF RunTypes, Places, RunThrows
<1>2. ReadsFacts /\ ReadsFacts'
  BY <1>1, ReadsAre, ReadsWillBe
<1> QED
  BY <1>1, <1>2 DEF RunThrows, RunTypes, ReadsFacts, WeightsInv, AnExecutorIsAt, AnUploadIsAt,
     AWorkIsAt, TheWeightsAre

FirstWeights == [planner |-> "planner", conditioning |-> "text", dit |-> "dit", vae |-> "vae"]

LEMMA EnterKeeps ==
  ASSUME RunTypes, WeightsInv, NEW s \in Stages, Enter(s, FirstWeights[s]),
         place \in {"retry", "destroy", "begin"}, executor \in {"none", "destroyed"},
         ~lease, ~submitted
  PROVE  RunTypes' /\ WeightsInv'
<1>1. CASE Settle
  BY <1>1, SettleKeeps
<1>2. CASE /\ Load(s, FirstWeights[s])
           /\ executor' = "none" /\ passes' = 0 /\ UNCHANGED lease
  <2>1. RunTypes'
    BY <1>2 DEF RunTypes, Places, Stages, Load, FirstWeights
  <2>2. ReadsFacts /\ ReadsFacts'
    BY <2>1, ReadsAre, ReadsWillBe
  <2>3. resident = {}
    BY DEF WeightsInv, AnExecutorIsAt, TheWeightsAre
  <2> QED
    BY <1>2, <2>1, <2>2, <2>3 DEF Load, RunTypes, Stages, FirstWeights, ReadsFacts, ReadsAt,
       WeightsInv, AnExecutorIsAt, AnUploadIsAt, AWorkIsAt, TheWeightsAre
<1> QED
  BY <1>1, <1>2 DEF Enter

LEMMA ContinueKeeps ==
  ASSUME RunTypes, WeightsInv,
         NEW p \in {"idle", "fetch", "begin", "commit", "rollback", "release"}, Continue(p),
         place \notin {"load", "create"}, executor \in {"none", "destroyed"}, ~lease, ~submitted
  PROVE  RunTypes' /\ WeightsInv'
<1>1. RunTypes'
  BY DEF RunTypes, Places, Continue
<1>2. ReadsFacts /\ ReadsFacts'
  BY <1>1, ReadsAre, ReadsWillBe
<1> QED
  BY <1>1, <1>2 DEF Continue, RunTypes, ReadsFacts, WeightsInv, AnExecutorIsAt, AnUploadIsAt,
     AWorkIsAt, TheWeightsAre

LEMMA UnchangedKeeps ==
  ASSUME RunTypes, WeightsInv, UNCHANGED runVars
  PROVE  RunTypes' /\ WeightsInv'
<1>1. RunTypes'
  BY DEF RunTypes, runVars
<1>2. ReadsFacts /\ ReadsFacts'
  BY <1>1, ReadsAre, ReadsWillBe
<1> QED
  BY <1>1, <1>2 DEF runVars, RunTypes, ReadsFacts, WeightsInv, AnExecutorIsAt, AnUploadIsAt,
     AWorkIsAt, TheWeightsAre

LEMMA PhasesOfConditioning ==
  ASSUME RunTypes, stage = "conditioning"
  PROVE  /\ Len(Lifetimes(stage)) = IF planned THEN 3 ELSE 2
         /\ passes + 1 < Len(Lifetimes(stage)) =>
              /\ ReadsAt(planned, stage, passes + 1) = {Lifetimes(stage)[passes + 2]}
              /\ Lifetimes(stage)[passes + 2] \in {"semantic", "conditioner"}
<1>1. CASE planned
  <2>1. Lifetimes(stage) = <<"text", "semantic", "conditioner">>
    BY <1>1 DEF Lifetimes
  <2>2. Len(Lifetimes(stage)) = 3 /\ Lifetimes(stage)[2] = "semantic" /\ Lifetimes(stage)[3] = "conditioner"
    BY <2>1
  <2>3. passes + 1 < 3 => passes = 0 \/ passes = 1
    BY DEF RunTypes
  <2>4. CASE passes = 0
    BY <1>1, <2>2, <2>4 DEF ReadsAt
  <2>5. CASE passes = 1
    BY <1>1, <2>2, <2>5 DEF ReadsAt
  <2> QED
    BY <1>1, <2>2, <2>3, <2>4, <2>5
<1>2. CASE ~planned
  <2>1. Lifetimes(stage) = <<"text", "conditioner">>
    BY <1>2 DEF Lifetimes
  <2>2. Len(Lifetimes(stage)) = 2 /\ Lifetimes(stage)[2] = "conditioner"
    BY <2>1
  <2>3. passes + 1 < 2 => passes = 0
    BY DEF RunTypes
  <2>4. CASE passes = 0
    BY <1>2, <2>2, <2>4 DEF ReadsAt
  <2> QED
    BY <1>2, <2>2, <2>3, <2>4
<1> QED
  BY <1>1, <1>2

LEMMA LoadReturnsKeeps ==
  ASSUME RunTypes, WeightsInv, LoadReturns
  PROVE  RunTypes' /\ WeightsInv'
<1> USE DEF WeightsInv, AnExecutorIsAt, AnUploadIsAt, AWorkIsAt
<1>0. place = "load" /\ submitted = FALSE /\ (~lease => executor = "none" /\ passes = 0)
  BY DEF LoadReturns, RunTypes
<1>1. CASE lease /\ Continue("run")
  <2>1. RunTypes'
    BY <1>1 DEF RunTypes, Places, Continue
  <2>2. ReadsFacts /\ ReadsFacts'
    BY <2>1, ReadsAre, ReadsWillBe
  <2> QED
    BY <1>0, <1>1, <2>1, <2>2 DEF Continue, RunTypes, ReadsFacts, TheWeightsAre, ReadsAt
<1>2. CASE Settle /\ ~lease
  BY <1>0, <1>2, SettleKeeps
<1>3. CASE /\ stage = "dit" /\ loading = "dit" /\ ~lease
           /\ Load("dit", "dense") /\ UNCHANGED <<executor, lease, passes>>
  <2>1. RunTypes'
    BY <1>3 DEF RunTypes, Places, Stages, Load
  <2>2. ReadsFacts /\ ReadsFacts'
    BY <2>1, ReadsAre, ReadsWillBe
  <2> QED
    BY <1>0, <1>3, <2>1, <2>2 DEF Load, RunTypes, ReadsFacts, TheWeightsAre, ReadsAt
<1>4. CASE ~lease /\ loading # "dit" /\ Continue("create")
  <2>1. RunTypes'
    BY <1>4 DEF RunTypes, Places, Continue
  <2>2. ReadsFacts /\ ReadsFacts'
    BY <2>1, ReadsAre, ReadsWillBe
  <2> QED
    BY <1>0, <1>4, <2>1, <2>2 DEF Continue, RunTypes, ReadsFacts, TheWeightsAre, ReadsAt
<1>5. CASE /\ ~lease /\ loading # "dit" /\ place' = "run" /\ executor' = "live"
           /\ UNCHANGED <<planned, stage, loading, resident, lease, submitted, passes>>
  <2>1. RunTypes'
    BY <1>5 DEF RunTypes, Places
  <2>2. ReadsFacts /\ ReadsFacts'
    BY <2>1, ReadsAre, ReadsWillBe
  <2> QED
    BY <1>0, <1>5, <2>1, <2>2 DEF RunTypes, ReadsFacts, TheWeightsAre, ReadsAt
<1>6. CASE lease /\ RunThrows /\ UNCHANGED submitted
  BY <1>0, <1>6, RunThrowsKeeps
<1>7. stage # "dit" => loading # "dit"
  BY <1>0
<1> QED
  BY <1>1, <1>2, <1>3, <1>4, <1>5, <1>6, <1>7 DEF LoadReturns

LEMMA CreateReturnsKeeps ==
  ASSUME RunTypes, WeightsInv, CreateReturns
  PROVE  RunTypes' /\ WeightsInv'
<1> USE DEF WeightsInv, AnExecutorIsAt, AnUploadIsAt, AWorkIsAt
<1>0. place = "create" /\ executor = "none" /\ ~lease /\ ~submitted
  BY DEF CreateReturns
<1>1. CASE Settle
  BY <1>0, <1>1, SettleKeeps
<1>2. CASE ~Settle
  <2>1. RunTypes'
    BY <1>2 DEF RunTypes, Places, CreateReturns
  <2>2. ReadsFacts /\ ReadsFacts'
    BY <2>1, ReadsAre, ReadsWillBe
  <2> QED
    BY <1>0, <1>2, <2>1, <2>2 DEF CreateReturns, RunTypes, ReadsFacts, TheWeightsAre
<1> QED
  BY <1>1, <1>2

LEMMA AcquireLeaseKeeps ==
  ASSUME RunTypes, WeightsInv, AcquireLease
  PROVE  RunTypes' /\ WeightsInv'
<1> USE DEF WeightsInv, AnExecutorIsAt, AnUploadIsAt, AWorkIsAt
<1>0. place = "run" /\ submitted = FALSE
  BY DEF AcquireLease, RunTypes
<1>1. CASE executor = "live"
  <2>1. RunTypes'
    BY <1>1 DEF RunTypes, Places, AcquireLease
  <2>2. ReadsFacts /\ ReadsFacts'
    BY <2>1, ReadsAre, ReadsWillBe
  <2> QED
    BY <1>0, <1>1, <2>1, <2>2 DEF AcquireLease, RunTypes, ReadsFacts, TheWeightsAre
<1>2. CASE executor # "live"
  BY <1>0, <1>2, RunThrowsKeeps DEF AcquireLease
<1> QED
  BY <1>1, <1>2

LEMMA SubmitKeeps ==
  ASSUME RunTypes, WeightsInv, Submit
  PROVE  RunTypes' /\ WeightsInv'
<1> USE DEF WeightsInv, AnExecutorIsAt, AnUploadIsAt, AWorkIsAt
<1>1. CASE RunThrows /\ UNCHANGED submitted
  BY <1>1, RunThrowsKeeps DEF Submit, RunTypes
<1>2. CASE executor = "live" /\ submitted' = TRUE /\
           UNCHANGED <<planned, place, stage, loading, resident, executor, lease, passes>>
  <2>1. RunTypes'
    BY <1>2 DEF RunTypes, Places
  <2>2. ReadsFacts /\ ReadsFacts'
    BY <2>1, ReadsAre, ReadsWillBe
  <2> QED
    BY <1>2, <2>1, <2>2 DEF Submit, RunTypes, ReadsFacts, TheWeightsAre
<1> QED
  BY <1>1, <1>2 DEF Submit

\* What the proof of a pass needs to know of the state it leaves.
LEMMA PassKeeps ==
  ASSUME RunTypes', place' \in {"run", "load", "write", "destroy"}, submitted' = FALSE,
         executor' = IF place' = "destroy" /\ stage' = "conditioning" THEN "destroyed"
                     ELSE IF place' = "destroy" THEN "destroying" ELSE "live",
         resident' = Reads',
         executor' = "destroyed" => resident' = {},
         lease' => place' \in {"run", "load"},
         place' = "load" => lease' /\ stage' = "conditioning" /\ loading' \notin {"dit", "dense"},
         place' = "write" => stage' = "vae",
         place' \in {"load", "run"} /\ stage' \in {"conditioning", "dit"} => passes' < Passes'
  PROVE  WeightsInv'
<1>1. AnExecutorIsAt'
  BY DEF AnExecutorIsAt
<1>2. AnUploadIsAt'
  BY DEF AnUploadIsAt
<1>3. AWorkIsAt'
  BY DEF AWorkIsAt
<1>4. TheWeightsAre'
  BY DEF TheWeightsAre
<1> QED
  BY <1>1, <1>2, <1>3, <1>4 DEF WeightsInv

\* A pass that is done leaves a state of the right types.
LEMMA PassTypes ==
  ASSUME RunTypes, planned' = planned, stage' = stage, passes' = passes + 1, submitted' = FALSE,
         place' \in Places, loading' \in {loading, "semantic", "conditioner"},
         \A w \in resident' : w \in resident \/ w = loading',
         executor' \in {executor, "destroying", "destroyed"}, lease' \in {lease, TRUE, FALSE}
  PROVE  RunTypes'
<1>1. (planned \in BOOLEAN /\ place \in Places /\ stage \in Stages)'
  BY DEF RunTypes
<1>2. ({loading} \cup resident \subseteq
         {"none", "planner", "text", "semantic", "conditioner", "dit", "dense", "vae"})'
  BY DEF RunTypes
<1>3. (executor \in {"none", "live", "destroying", "destroyed"} /\ lease \in BOOLEAN)'
  BY DEF RunTypes
<1>4. (passes \in Nat)'
  BY DEF RunTypes
<1> QED
  BY <1>1, <1>2, <1>3, <1>4 DEF RunTypes

LEMMA FenceSettlesKeeps ==
  ASSUME RunTypes, WeightsInv, FenceSettles
  PROVE  RunTypes' /\ WeightsInv'
<1>a. submitted' = FALSE
  BY DEF FenceSettles
<1>0. /\ submitted /\ submitted' = FALSE /\ place = "run"
      /\ lease \/ ~NeedsLease
      /\ stage \in {"conditioning", "dit"} => passes < Passes
      /\ executor = "live" => resident = Reads
      /\ ReadsFacts
  BY ReadsAre DEF FenceSettles, WeightsInv, AWorkIsAt, TheWeightsAre
<1>1. CASE RunThrows
  BY <1>0, <1>1, RunThrowsKeeps
<1> SUFFICES ASSUME executor = "live", ~RunThrows
             PROVE  RunTypes' /\ WeightsInv'
  BY <1>1 DEF FenceSettles
<1>2. CASE stage = "planner" /\ PlannerPassDone
  <2>1. RunTypes'
    BY <1>a, <1>2, PassTypes DEF Places, PlannerPassDone, RunEnds, NextPass
  <2>2. Reads = {"planner"} /\ Reads' = {"planner"}
    BY <1>0, <1>2, <2>1, ReadsWillBe DEF ReadsFacts, ReadsAt, PlannerPassDone, RunEnds, NextPass
  <2>3. /\ stage' = "planner" /\ resident' = resident /\ lease' = FALSE
        /\ \/ place' = "destroy" /\ executor' = "destroying"
           \/ place' = "run" /\ executor' = "live"
    BY <1>2 DEF PlannerPassDone, RunEnds, NextPass
  <2> QED
    BY <1>0, <2>1, <2>2, <2>3, PassKeeps
<1>3. CASE stage = "conditioning" /\ ConditioningPassDone
  <2> DEFINE phases == Len(Lifetimes(stage))
             next == Lifetimes(stage)[passes + 2]
  <2>1. /\ phases = IF planned THEN 3 ELSE 2
        /\ passes + 1 < phases => /\ ReadsAt(planned, stage, passes + 1) = {next}
                                  /\ next \in {"semantic", "conditioner"}
    BY <1>3, PhasesOfConditioning
  <2>2. /\ passes \in Nat /\ phases \in Nat /\ phases > 1 /\ Passes = phases + 1
        /\ passes < Passes /\ planned \in BOOLEAN
    <3>1. passes \in Nat /\ planned \in BOOLEAN
      BY DEF RunTypes
    <3>2. passes < Passes /\ Passes = IF planned THEN 4 ELSE 3
      BY <1>0, <1>3 DEF ReadsFacts
    <3> QED
      BY <2>1, <3>1, <3>2
  <2> HIDE DEF phases, next
  <2>3. CASE LastPass
    <3>1. passes = phases
      BY <2>2, <2>3 DEF LastPass
    <3>2. RunEnds("destroyed") /\ UNCHANGED resident
      BY <1>3, <2>3 DEF ConditioningPassDone
    <3>3. RunTypes'
      BY <1>a, <3>2, PassTypes DEF Places, RunEnds
    <3>4. Reads = {}
      BY <1>0, <1>3, <2>1, <2>2, <3>1 DEF ReadsFacts, ReadsAt
    <3>5. Reads' = ReadsAt(planned, stage, passes + 1)
      BY <3>2, <3>3, ReadsWillBe DEF ReadsFacts, RunEnds
    <3>6. ReadsAt(planned, stage, passes + 1) = {}
      BY <1>3, <2>1, <2>2, <3>1 DEF ReadsAt
    <3> QED
      BY <1>0, <1>3, <3>2, <3>3, <3>4, <3>5, <3>6, PassKeeps DEF RunEnds
  <2>4. CASE ~LastPass /\ passes + 1 = phases
    <3>1. NextPass(TRUE) /\ resident' = resident \ Reads
      BY <1>3, <2>4 DEF ConditioningPassDone, phases
    <3>2. RunTypes'
      BY <1>a, <3>1, PassTypes DEF Places, NextPass
    <3>3. Reads' = ReadsAt(planned, stage, passes + 1) /\ Passes' = phases + 1
      BY <1>3, <2>1, <3>1, <3>2, ReadsWillBe DEF ReadsFacts, NextPass
    <3>4. ReadsAt(planned, stage, passes + 1) = {}
      BY <1>3, <2>1, <2>2, <2>4 DEF ReadsAt
    <3>5. passes' < Passes'
      BY <2>2, <2>4, <3>1, <3>3 DEF NextPass
    <3> QED
      BY <1>0, <1>3, <3>1, <3>2, <3>3, <3>4, <3>5, PassKeeps DEF NextPass
  <2>5. CASE ~LastPass /\ passes + 1 # phases
    <3>1. /\ place' = "load" /\ loading' = next
          /\ resident' = (resident \ Reads) \cup {next}
          /\ passes' = passes + 1
          /\ UNCHANGED <<planned, stage, executor, lease>>
      BY <1>3, <2>5 DEF ConditioningPassDone, phases, next
    <3>2. passes + 1 < phases
      BY <2>2, <2>5 DEF LastPass
    <3>3. RunTypes'
      BY <1>a, <2>1, <3>1, <3>2, PassTypes DEF Places
    <3>4. Reads' = ReadsAt(planned, stage, passes + 1) /\ Passes' = phases + 1
      BY <1>3, <2>1, <3>1, <3>3, ReadsWillBe DEF ReadsFacts
    <3>5. resident' = Reads'
      BY <1>0, <2>1, <3>1, <3>2, <3>4
    <3>6. lease'
      BY <1>0, <1>3, <3>1 DEF ReadsFacts
    <3>7. passes' < Passes'
      BY <2>2, <3>1, <3>2, <3>4
    <3> QED
      BY <1>0, <1>3, <2>1, <3>1, <3>2, <3>3, <3>5, <3>6, <3>7, PassKeeps
  <2> QED
    BY <2>3, <2>4, <2>5
<1>4. CASE stage = "dit" /\ DitPassDone
  <2>1. RunTypes'
    BY <1>a, <1>4, PassTypes DEF Places, DitPassDone, RunEnds, NextPass
  <2>2. stage' = "dit" /\ passes' = passes + 1 /\ lease' = FALSE /\ planned' = planned
    BY <1>4 DEF DitPassDone, RunEnds, NextPass
  <2>3. Reads' = {} /\ Passes' = 2
    BY <2>1, <2>2, ReadsWillBe DEF ReadsFacts, ReadsAt, RunTypes
  <2>4. resident' = {}
    BY <1>0, <1>4 DEF DitPassDone
  <2>5. \/ place' = "destroy" /\ executor' = "destroying"
        \/ place' = "run" /\ executor' = "live" /\ passes' < 2
    BY <1>0, <1>4, <2>2 DEF DitPassDone, LastPass, RunEnds, NextPass, RunTypes, ReadsFacts
  <2> QED
    BY <1>0, <2>1, <2>2, <2>3, <2>4, <2>5, PassKeeps
<1>5. CASE stage = "vae" /\ VaePassDone
  <2>1. RunTypes'
    BY <1>a, <1>5, PassTypes DEF Places, VaePassDone
  <2>2. Reads = {"vae"} /\ Reads' = {"vae"}
    BY <1>0, <1>5, <2>1, ReadsWillBe DEF ReadsFacts, ReadsAt, VaePassDone
  <2> QED
    BY <1>0, <1>5, <2>1, <2>2, PassKeeps DEF VaePassDone
<1> QED
  BY <1>2, <1>3, <1>4, <1>5 DEF FenceSettles, RunTypes, Stages

LEMMA WriteReturnsKeeps ==
  ASSUME RunTypes, WeightsInv, WriteReturns
  PROVE  RunTypes' /\ WeightsInv'
<1>0. /\ place = "write" /\ stage = "vae" /\ executor # "none" /\ ~lease /\ ~submitted
  BY DEF WriteReturns, WeightsInv, AnExecutorIsAt, AWorkIsAt
<1>1. CASE Settle
  BY <1>0, <1>1, SettleKeeps
<1>2. CASE ~Settle
  <2>1. /\ place' \in {"run", "destroy"}
        /\ executor' \in {executor, "destroying"}
        /\ place' = "destroy" => executor' # "live"
        /\ executor' # executor => executor = "live"
        /\ UNCHANGED <<planned, stage, loading, resident, lease, submitted, passes>>
    <3>1. CASE passes < Passes
      BY <1>2, <3>1 DEF WriteReturns
    <3>2. CASE ~(passes < Passes)
      BY <1>2, <3>2 DEF WriteReturns
    <3> QED
      BY <3>1, <3>2
  <2>2. RunTypes'
    BY <2>1 DEF RunTypes, Places
  <2>3. ReadsFacts /\ ReadsFacts'
    BY <2>2, ReadsAre, ReadsWillBe
  <2> QED
    BY <1>0, <2>1, <2>2, <2>3 DEF RunTypes, ReadsFacts, ReadsAt, WeightsInv, AnExecutorIsAt, AnUploadIsAt,
       AWorkIsAt, TheWeightsAre
<1> QED
  BY <1>1, <1>2

LEMMA DestroyedKeeps ==
  ASSUME RunTypes, WeightsInv, Destroyed
  PROVE  RunTypes' /\ WeightsInv'
<1>1. RunTypes'
  BY DEF RunTypes, Destroyed, Gone
<1>2. ReadsFacts /\ ReadsFacts'
  BY <1>1, ReadsAre, ReadsWillBe
<1>3. Reads' = Reads /\ NeedsLease' = NeedsLease /\ Passes' = Passes
  BY DEF Destroyed, Gone, Reads, NeedsLease, Passes, Lifetimes, WeightsOf
<1>4. resident' = {}
  BY <1>2 DEF Destroyed, Gone, WeightsInv, TheWeightsAre, ReadsFacts
<1> QED
  BY <1>1, <1>2, <1>3, <1>4 DEF Destroyed, Gone, RunTypes, WeightsInv, AnExecutorIsAt, AnUploadIsAt,
     AWorkIsAt, TheWeightsAre

\* The listeners of an executor, at any await.
LEMMA InterruptedKeeps ==
  ASSUME RunTypes, WeightsInv, Interrupted
  PROVE  RunTypes' /\ WeightsInv'
<1>1. RunTypes'
  BY DEF RunTypes, Interrupted
<1>2. ReadsFacts /\ ReadsFacts'
  BY <1>1, ReadsAre, ReadsWillBe
<1> QED
  BY <1>1, <1>2 DEF Interrupted, RunTypes, ReadsFacts, WeightsInv, AnExecutorIsAt, AnUploadIsAt,
     AWorkIsAt, TheWeightsAre

\* The awaits of generate() at which no stage has an executor.
LEMMA BetweenStages ==
  ASSUME RunTypes, WeightsInv,
         place \in {"idle", "retry", "destroy", "fetch", "begin", "commit", "settle", "rollback", "release"}
  PROVE  /\ ~lease /\ ~submitted
         /\ executor \in {"none", "destroyed"} => resident = {}
         /\ place \in {"idle", "retry", "fetch", "begin", "commit", "rollback", "release"} =>
              executor \in {"none", "destroyed"}
BY DEF WeightsInv, AnExecutorIsAt, AWorkIsAt, TheWeightsAre

\* A stage is about to begin: nothing is left of the one before.
LEMMA FreshStageKeeps ==
  ASSUME RunTypes', place' \in {"retry", "fetch"}, executor' = "none", resident' = {},
         lease' = FALSE, submitted' = FALSE
  PROVE  WeightsInv'
BY DEF WeightsInv, AnExecutorIsAt, AnUploadIsAt, AWorkIsAt, TheWeightsAre

LEMMA GenerateKeeps ==
  ASSUME RunTypes, WeightsInv, Generate
  PROVE  RunTypes' /\ WeightsInv'
<1>1. RunTypes'
  BY DEF RunTypes, Places, Stages, Generate
<1>2. resident = {} /\ lease = FALSE /\ submitted = FALSE
  BY BetweenStages DEF Generate, RunTypes
<1> QED
  BY <1>1, <1>2, FreshStageKeeps DEF Generate

LEMMA DestroyReturnsKeeps ==
  ASSUME RunTypes, WeightsInv, DestroyReturns
  PROVE  RunTypes' /\ WeightsInv'
<1>0. place = "destroy" /\ executor = "destroyed" /\ lease = FALSE /\ submitted = FALSE /\ resident = {}
  BY BetweenStages DEF DestroyReturns, RunTypes
<1>1. CASE Settle
  BY <1>0, <1>1, SettleKeeps
<1>2. CASE Enter("conditioning", "text")
  BY <1>0, <1>2, EnterKeeps DEF FirstWeights, Stages
<1>3. CASE Enter("dit", "dit")
  BY <1>0, <1>3, EnterKeeps DEF FirstWeights, Stages
<1>4. CASE /\ place' = "fetch" /\ stage' = "vae" /\ executor' = "none" /\ passes' = 0
           /\ UNCHANGED <<planned, loading, resident, lease, submitted>>
  <2>1. RunTypes'
    BY <1>4 DEF RunTypes, Places, Stages
  <2> QED
    BY <1>0, <1>4, <2>1, FreshStageKeeps
<1>5. CASE Continue("commit")
  BY <1>0, <1>5, ContinueKeeps
<1>6. stage \in {"planner", "conditioning", "dit", "vae"}
  BY DEF RunTypes, Stages
<1> QED
  BY <1>1, <1>2, <1>3, <1>4, <1>5, <1>6 DEF DestroyReturns

LEMMA WeightsStep ==
  ASSUME RunTypes, WeightsInv, audio \in {"none", "open", "committed"},
         [GenerationNext]_generationVars
  PROVE  RunTypes' /\ WeightsInv'
<1>1. CASE UNCHANGED runVars
  BY <1>1, UnchangedKeeps
<1>2. CASE Generate
  BY <1>2, GenerateKeeps
<1>3. CASE RetryReturns
  <2>1. /\ place = "retry" /\ executor \in {"none", "destroyed"} /\ ~lease /\ ~submitted
    BY <1>3, BetweenStages DEF RetryReturns
  <2>2. CASE Enter("planner", "planner")
    BY <2>1, <2>2, EnterKeeps DEF FirstWeights, Stages
  <2>3. CASE Enter("conditioning", "text")
    BY <2>1, <2>3, EnterKeeps DEF FirstWeights, Stages
  <2>4. CASE Continue("idle")
    BY <2>1, <2>4, ContinueKeeps
  <2> QED
    BY <1>3, <2>2, <2>3, <2>4 DEF RetryReturns
<1>4. CASE DestroyReturns
  BY <1>4, DestroyReturnsKeeps
<1>5. CASE FetchReturns \/ CommitReturns
  <2>1. /\ place \in {"fetch", "commit"} /\ executor \in {"none", "destroyed"}
        /\ ~lease /\ ~submitted
    BY <1>5, BetweenStages DEF FetchReturns, CommitReturns
  <2>2. Settle \/ Continue("begin") \/ Continue("idle")
    BY <1>5 DEF FetchReturns, CommitReturns
  <2> QED
    BY <2>1, <2>2, SettleKeeps, ContinueKeeps
<1>6. CASE BeginReturns
  <2>1. /\ place = "begin" /\ executor \in {"none", "destroyed"} /\ ~lease /\ ~submitted
    BY <1>6, BetweenStages DEF BeginReturns
  <2>2. CASE Settle
    BY <2>1, <2>2, SettleKeeps
  <2>3. CASE Enter("vae", "vae")
    BY <2>1, <2>3, EnterKeeps DEF FirstWeights, Stages
  <2> QED
    BY <1>6, <2>2, <2>3 DEF BeginReturns
<1>7. CASE SettleReturns \/ RollbackReturns \/ ReleaseReturns
  <2>1. /\ place \in {"settle", "rollback", "release"} /\ executor \in {"none", "destroyed"}
        /\ ~lease /\ ~submitted
    BY <1>7, BetweenStages DEF SettleReturns, RollbackReturns, ReleaseReturns
  <2>2. Continue("idle") \/ Continue("rollback") \/ Continue("release") \/ UNCHANGED runVars
    <3>1. CASE SettleReturns
      <4>1. CASE audio = "open"
        BY <3>1, <4>1 DEF SettleReturns, Continue
      <4>2. CASE audio = "committed"
        BY <3>1, <4>2 DEF SettleReturns, Continue
      <4>3. CASE audio = "none"
        BY <3>1, <4>3 DEF SettleReturns, Continue
      <4> QED
        BY <4>1, <4>2, <4>3
    <3> QED
      BY <1>7, <3>1 DEF RollbackReturns, ReleaseReturns
  <2> QED
    BY <2>1, <2>2, ContinueKeeps, UnchangedKeeps
<1>8. CASE AbortGeneration \/ LossNoticed
  BY <1>8, InterruptedKeeps DEF AbortGeneration, LossNoticed
<1>9. CASE UNCHANGED generationVars \/ GpuFails
  BY <1>1, <1>9 DEF generationVars, GpuFails
<1> QED
  BY <1>2, <1>3, <1>4, <1>5, <1>6, <1>7, <1>8, <1>9, LoadReturnsKeeps, CreateReturnsKeeps,
     AcquireLeaseKeeps, SubmitKeeps, FenceSettlesKeeps, WriteReturnsKeeps, DestroyedKeeps
     DEF GenerationNext, GenerationProgress

-----------------------------------------------------------------------------
(* What a step does to the output of the generation.                        *)

\* A step of a stage: it stays in its stage and leaves the output alone.
StageStep ==
  /\ UNCHANGED <<job, stage, audio, outputs>>
  /\ \/ place' = place
     \/ /\ place \in {"load", "create", "run", "write"}
        /\ place' \in {"load", "create", "run", "write", "destroy", "settle"}
        /\ place' = "write" => stage = "vae"

LEMMA StagesStepInside ==
  ASSUME \/ LoadReturns \/ CreateReturns \/ AcquireLease \/ Submit \/ FenceSettles \/ WriteReturns
         \/ Destroyed \/ AbortGeneration \/ LossNoticed \/ GpuFails \/ UNCHANGED generationVars,
         RunTypes, WeightsInv
  PROVE  StageStep
<1>1. CASE LoadReturns
  BY <1>1 DEF LoadReturns, StageStep, Continue, Settle, Load, RunThrows
<1>2. CASE CreateReturns
  BY <1>2 DEF CreateReturns, StageStep, Settle
<1>3. CASE AcquireLease
  BY <1>3 DEF AcquireLease, StageStep, RunThrows
<1>4. CASE Submit
  BY <1>4 DEF Submit, StageStep, RunThrows
<1>5. CASE FenceSettles
  <2>0. place = "run" /\ UNCHANGED <<job, audio, outputs>>
    BY <1>5 DEF FenceSettles, WeightsInv, AWorkIsAt
  <2>1. CASE RunThrows
    BY <2>0, <2>1 DEF StageStep, RunThrows
  <2>2. CASE stage = "planner" /\ PlannerPassDone
    BY <2>0, <2>2 DEF StageStep, PlannerPassDone, RunEnds, NextPass
  <2>3. CASE stage = "conditioning" /\ ConditioningPassDone
    <3>1. UNCHANGED stage /\ place' \in {"load", "run", "destroy", "settle"}
      BY <2>3 DEF ConditioningPassDone, RunEnds, NextPass, RunThrows
    <3> QED
      BY <2>0, <3>1 DEF StageStep
  <2>4. CASE stage = "dit" /\ DitPassDone
    BY <2>0, <2>4 DEF StageStep, DitPassDone, RunEnds, NextPass
  <2>5. CASE stage = "vae" /\ VaePassDone
    BY <2>0, <2>5 DEF StageStep, VaePassDone
  <2>6. stage \in Stages
    BY DEF RunTypes
  <2> QED
    BY <1>5, <2>1, <2>2, <2>3, <2>4, <2>5, <2>6 DEF FenceSettles, Stages
<1>6. CASE WriteReturns
  BY <1>6 DEF WriteReturns, StageStep, Settle
<1>7. CASE Destroyed
  BY <1>7 DEF Destroyed, Gone, StageStep
<1>8. CASE AbortGeneration \/ LossNoticed
  BY <1>8 DEF AbortGeneration, LossNoticed, Interrupted, StageStep
<1>9. CASE GpuFails \/ UNCHANGED generationVars
  BY <1>9 DEF GpuFails, generationVars, runVars, StageStep
<1> QED
  BY <1>1, <1>2, <1>3, <1>4, <1>5, <1>6, <1>7, <1>8, <1>9

LEMMA StageStepKeeps ==
  ASSUME OutputsInv, StageStep
  PROVE  OutputsInv'
<1>1. AudioMatchesPlace'
  BY DEF OutputsInv, AudioMatchesPlace, StageStep
<1>2. BooksMatchAudio'
  BY DEF OutputsInv, BooksMatchAudio, StageStep
<1> QED
  BY <1>1, <1>2 DEF OutputsInv

LEMMA EnterGoesTo ==
  ASSUME NEW s, NEW w, Enter(s, w)
  PROVE  \/ place' = "settle" /\ stage' = stage
         \/ place' = "load" /\ stage' = s
<1>1. CASE Settle
  BY <1>1 DEF Settle
<1>2. CASE Load(s, w)
  BY <1>2 DEF Load
<1> QED
  BY <1>1, <1>2 DEF Enter

\* A step that changes no output, from an await of the generation to another.
LEMMA QuietMoveKeeps ==
  ASSUME OutputsInv, UNCHANGED <<job, audio, outputs>>, AudioMatchesPlace',
         place \notin {"idle", "retry"}, place' \notin {"idle", "retry"}
  PROVE  OutputsInv'
BY DEF OutputsInv, BooksMatchAudio

LEMMA DestroyFetchKeep ==
  ASSUME RunTypes, OutputsInv, DestroyReturns \/ FetchReturns
  PROVE  OutputsInv'
<1>1. UNCHANGED <<job, audio, outputs>>
  BY DEF DestroyReturns, FetchReturns
<1>2. CASE DestroyReturns
  <2>1. CASE stage = "planner"
    BY <1>1, <1>2, <2>1, EnterGoesTo, QuietMoveKeeps DEF DestroyReturns, OutputsInv, AudioMatchesPlace
  <2>2. CASE stage = "conditioning"
    BY <1>1, <1>2, <2>2, EnterGoesTo, QuietMoveKeeps DEF DestroyReturns, OutputsInv, AudioMatchesPlace
  <2>3. CASE stage = "dit"
    BY <1>1, <1>2, <2>3, QuietMoveKeeps DEF DestroyReturns, Settle, OutputsInv, AudioMatchesPlace
  <2>4. CASE stage = "vae"
    BY <1>1, <1>2, <2>4, QuietMoveKeeps DEF DestroyReturns, Settle, Continue, OutputsInv, AudioMatchesPlace
  <2> QED
    BY <2>1, <2>2, <2>3, <2>4 DEF RunTypes, Stages
<1>3. CASE FetchReturns
  BY <1>1, <1>3, QuietMoveKeeps DEF FetchReturns, Settle, Continue, OutputsInv, AudioMatchesPlace
<1> QED
  BY <1>2, <1>3

LEMMA GenerateBegins ==
  ASSUME BookTypes, OutputsInv, Generate
  PROVE  BookTypes' /\ OutputsInv'
<1>1. job \in Nat /\ job' = job + 1 /\ job' \in Jobs /\ UNCHANGED <<audio, outputs>> /\ audio = "none"
  BY MaxJobsAssumption DEF BookTypes, OutputsInv, AudioMatchesPlace, Generate, Jobs
<1>2. BookTypes'
  <2>1. job' \in 0..MaxJobs
    BY <1>1, MaxJobsAssumption DEF Jobs
  <2> QED
    BY <1>1, <2>1 DEF BookTypes, Generate
<1>3. AudioMatchesPlace'
  BY <1>1 DEF Generate, AudioMatchesPlace
<1>4. outputs.stored \cup outputs.committed \subseteq 1..job
  BY DEF OutputsInv, BooksMatchAudio
<1>5. job' \notin outputs.stored /\ job' \notin outputs.committed
  BY <1>1, <1>4
<1>6. outputs.stored \cup outputs.committed \subseteq 1..job'
  BY <1>1, <1>4
<1> QED
  BY <1>1, <1>2, <1>3, <1>5, <1>6 DEF OutputsInv, BooksMatchAudio, Generate

\* What the retry leaves of the books.
LEMMA RetryKeeps ==
  ASSUME BookTypes, OutputsInv, RetryReturns
  PROVE  BookTypes' /\ OutputsInv'
<1> PICK rolled \in SUBSET outputs.rollback, released \in SUBSET outputs.release :
         /\ outputs' = [committed |-> outputs.committed \ released,
                        rollback |-> outputs.rollback \ rolled,
                        release |-> outputs.release \ released,
                        stored |-> outputs.stored \ (rolled \cup released)]
         /\ IF rolled = outputs.rollback /\ released = outputs.release
            THEN IF planned THEN Enter("planner", "planner") ELSE Enter("conditioning", "text")
            ELSE Continue("idle")
  BY DEF RetryReturns
<1>1. /\ place = "retry" /\ audio = "none" /\ job \in Jobs
      /\ job \notin outputs.stored /\ job \notin outputs.committed
      /\ outputs.stored \cup outputs.committed \subseteq 1..job
      /\ UNCHANGED <<job, signalAborted, failure, audio>>
  BY DEF RetryReturns, OutputsInv, AudioMatchesPlace, BooksMatchAudio
<1>2. BookTypes'
  BY <1>1 DEF BookTypes
<1>3. CASE rolled = outputs.rollback /\ released = outputs.release
  <2>1. outputs'.rollback = {} /\ outputs'.release = {}
    BY <1>3
  <2>2. CASE planned
    <3>1. Enter("planner", "planner")
      BY <1>3, <2>2
    <3> QED
      BY <1>1, <1>2, <2>1, <3>1, EnterGoesTo DEF OutputsInv, AudioMatchesPlace, BooksMatchAudio
  <2>3. CASE ~planned
    <3>1. Enter("conditioning", "text")
      BY <1>3, <2>3
    <3> QED
      BY <1>1, <1>2, <2>1, <3>1, EnterGoesTo DEF OutputsInv, AudioMatchesPlace, BooksMatchAudio
  <2> QED
    BY <2>2, <2>3
<1>4. CASE ~(rolled = outputs.rollback /\ released = outputs.release)
  <2>1. Continue("idle")
    BY <1>4
  <2> QED
    BY <1>1, <1>2, <2>1 DEF Continue, OutputsInv, AudioMatchesPlace, BooksMatchAudio
<1> QED
  BY <1>3, <1>4

LEMMA BeginCommitKeep ==
  ASSUME BookTypes, OutputsInv, BeginReturns \/ CommitReturns
  PROVE  BookTypes' /\ OutputsInv'
<1>1. /\ place \in {"begin", "commit"} /\ job \in Jobs /\ job \in 1..job /\ stage = "vae"
      /\ job \notin outputs.committed
      /\ place = "begin" => audio = "none"
      /\ place = "commit" => audio = "open" /\ job \in outputs.stored
      /\ outputs.rollback = {} /\ outputs.release = {}
      /\ outputs.stored \cup outputs.committed \subseteq 1..job
      /\ UNCHANGED <<job, signalAborted, failure>>
  BY DEF BeginReturns, CommitReturns, OutputsInv, AudioMatchesPlace, BooksMatchAudio, BookTypes, Jobs
<1>2. CASE UNCHANGED <<audio, outputs>> /\ Settle
  <2>1. AudioMatchesPlace'
    BY <1>1, <1>2 DEF AudioMatchesPlace, Settle
  <2> QED
    BY <1>1, <1>2, <2>1, QuietMoveKeeps DEF BookTypes, Settle
<1>3. CASE /\ place = "begin" /\ audio' = "open" /\ outputs' = [outputs EXCEPT !.stored = @ \cup {job}]
           /\ Enter("vae", "vae")
  <2>1. BookTypes'
    BY <1>1, <1>3 DEF BookTypes
  <2>2. place' \in {"settle", "load"} /\ stage' = "vae"
    BY <1>1, <1>3, EnterGoesTo
  <2>3. AudioMatchesPlace'
    BY <1>3, <2>2 DEF AudioMatchesPlace
  <2>4. BooksMatchAudio'
    BY <1>1, <1>3, <2>2 DEF BooksMatchAudio, BookTypes
  <2> QED
    BY <2>1, <2>3, <2>4 DEF OutputsInv
<1>4. CASE Settle /\ place = "commit" /\ audio' = "committed" /\ UNCHANGED outputs
  <2>1. BookTypes'
    BY <1>1, <1>4 DEF BookTypes
  <2>2. AudioMatchesPlace'
    BY <1>1, <1>4 DEF AudioMatchesPlace, Settle
  <2>3. BooksMatchAudio'
    BY <1>1, <1>4 DEF BooksMatchAudio, Settle
  <2> QED
    BY <2>1, <2>2, <2>3 DEF OutputsInv
<1>5. CASE /\ place = "commit" /\ outputs' = [outputs EXCEPT !.committed = @ \cup {job}]
           /\ \/ Settle /\ audio' = "committed"
              \/ Continue("idle") /\ audio' = "none"
  <2>1. BookTypes'
    BY <1>1, <1>5 DEF BookTypes
  <2>2. AudioMatchesPlace'
    BY <1>1, <1>5 DEF AudioMatchesPlace, Settle, Continue
  <2>3. BooksMatchAudio'
    BY <1>1, <1>5 DEF BooksMatchAudio, BookTypes, Settle, Continue
  <2> QED
    BY <2>1, <2>2, <2>3 DEF OutputsInv
<1> QED
  BY <1>2, <1>3, <1>4, <1>5 DEF BeginReturns, CommitReturns

LEMMA EndKeeps ==
  ASSUME BookTypes, OutputsInv, SettleReturns \/ RollbackReturns \/ ReleaseReturns
  PROVE  BookTypes' /\ OutputsInv'
<1>1. /\ place \in {"settle", "rollback", "release"} /\ job \in Jobs
      /\ outputs.rollback = {} /\ outputs.release = {}
      /\ outputs.stored \cup outputs.committed \subseteq 1..job
      /\ UNCHANGED <<job, stage, signalAborted, failure>>
  BY DEF SettleReturns, RollbackReturns, ReleaseReturns, OutputsInv, BooksMatchAudio, Continue
<1>2. CASE SettleReturns
  <2>1. UNCHANGED <<audio, outputs>>
    BY <1>2 DEF SettleReturns
  <2>2. CASE audio = "none"
    BY <1>1, <1>2, <2>1, <2>2 DEF SettleReturns, Continue, OutputsInv, AudioMatchesPlace, BooksMatchAudio,
       BookTypes
  <2>3. CASE audio = "open"
    BY <1>1, <1>2, <2>1, <2>3 DEF SettleReturns, Continue, OutputsInv, AudioMatchesPlace, BooksMatchAudio,
       BookTypes
  <2>4. CASE audio = "committed"
    BY <1>1, <1>2, <2>1, <2>4 DEF SettleReturns, Continue, OutputsInv, AudioMatchesPlace, BooksMatchAudio,
       BookTypes
  <2> QED
    BY <2>2, <2>3, <2>4 DEF BookTypes
<1>3. CASE RollbackReturns \/ ReleaseReturns
  <2>1. place' = "idle" /\ audio' = "none"
    BY <1>3 DEF RollbackReturns, ReleaseReturns, Continue
  <2>2. BookTypes' /\ outputs'.stored \cup outputs'.committed \subseteq 1..job
    <3>1. CASE RollbackReturns
      BY <1>1, <2>1, <3>1 DEF RollbackReturns, BookTypes
    <3>2. CASE outputs' = [outputs EXCEPT !.stored = @ \ {job}, !.committed = @ \ {job}]
      BY <1>1, <2>1, <3>2 DEF BookTypes
    <3>3. CASE outputs' = [outputs EXCEPT !.release = @ \cup {job}]
      BY <1>1, <2>1, <3>3 DEF BookTypes
    <3> QED
      BY <1>3, <3>1, <3>2, <3>3 DEF ReleaseReturns
  <2>3. AudioMatchesPlace'
    BY <2>1 DEF AudioMatchesPlace
  <2>4. BooksMatchAudio'
    BY <1>1, <2>1, <2>2 DEF BooksMatchAudio
  <2> QED
    BY <2>2, <2>3, <2>4 DEF OutputsInv
<1> QED
  BY <1>2, <1>3

LEMMA OutputsStep ==
  ASSUME RunTypes, WeightsInv, BookTypes, OutputsInv, [GenerationNext]_generationVars
  PROVE  BookTypes' /\ OutputsInv'
<1>1. CASE StageStep
  <2>1. OutputsInv'
    BY <1>1, StageStepKeeps
  <2>2. signalAborted' \in BOOLEAN /\ failure' \in {"none", "error", "lost"}
    <3>1. CASE UNCHANGED <<signalAborted, failure>>
      BY <3>1 DEF BookTypes
    <3>2. CASE Generate
      BY <3>2 DEF BookTypes, Generate
    <3>3. CASE AbortGeneration \/ GpuFails
      BY <3>3 DEF BookTypes, AbortGeneration, GpuFails
    <3> QED
      BY <3>1, <3>2, <3>3 DEF GenerationNext, GenerationProgress, generationVars, RetryReturns, LoadReturns,
         CreateReturns, AcquireLease, Submit, FenceSettles, WriteReturns, Destroyed, Gone, DestroyReturns,
         BeginReturns, CommitReturns, SettleReturns, RollbackReturns, ReleaseReturns, FetchReturns, LossNoticed
  <2> QED
    BY <1>1, <2>1, <2>2 DEF StageStep, BookTypes
<1>2. CASE Generate
  BY <1>2, GenerateBegins
<1>3. CASE RetryReturns
  BY <1>3, RetryKeeps
<1>4. CASE DestroyReturns \/ FetchReturns
  <2>1. UNCHANGED <<job, signalAborted, failure, audio, outputs>>
    BY <1>4 DEF DestroyReturns, FetchReturns
  <2> QED
    BY <1>4, <2>1, DestroyFetchKeep DEF BookTypes
<1>5. CASE BeginReturns \/ CommitReturns
  BY <1>5, BeginCommitKeep
<1>6. CASE SettleReturns \/ RollbackReturns \/ ReleaseReturns
  BY <1>6, EndKeeps
<1> QED
  BY <1>1, <1>2, <1>3, <1>4, <1>5, <1>6, StagesStepInside DEF GenerationNext, GenerationProgress

-----------------------------------------------------------------------------
(* The invariant, and what follows from it.                                 *)

LEMMA InitHolds == GenerationInit => GenerationInv
<1> SUFFICES ASSUME GenerationInit
             PROVE  GenerationInv
  OBVIOUS
<1>1. RunTypes
  BY DEF GenerationInit, RunTypes, Places, Stages
<1>2. BookTypes
  <2>1. job \in 0..MaxJobs
    BY MaxJobsAssumption DEF GenerationInit
  <2> QED
    BY <2>1 DEF GenerationInit, BookTypes
<1>3. WeightsInv
  <2>1. place = "idle" /\ resident = {} /\ executor = "none" /\ ~lease /\ ~submitted
    BY DEF GenerationInit
  <2> QED
    BY <2>1 DEF WeightsInv, AnExecutorIsAt, AnUploadIsAt, AWorkIsAt, TheWeightsAre
<1>4. OutputsInv
  BY DEF GenerationInit, OutputsInv, AudioMatchesPlace, BooksMatchAudio
<1> QED
  BY <1>1, <1>2, <1>3, <1>4 DEF GenerationInv

(* GenerationInv holds in every state of a generation, for any bounds.      *)
THEOREM GenerationInvariant == GenerationSpec => []GenerationInv
<1>1. GenerationInv /\ [GenerationNext]_generationVars => GenerationInv'
  BY WeightsStep, OutputsStep DEF GenerationInv, BookTypes
<1> QED
  BY InitHolds, <1>1, PTL DEF GenerationSpec

(* Every variable of GenerationStages keeps its type, for any bounds.       *)
THEOREM GenerationTyping == GenerationSpec => []GenerationTypeOK
<1>1. GenerationInv => GenerationTypeOK
  BY DEF GenerationInv, RunTypes, BookTypes, Places, Stages, GenerationTypeOK
<1> QED
  BY <1>1, GenerationInvariant, PTL

(* The weights of one lifetime at a time are on the GPU, they stay until    *)
(* the pass that reads them has ended, and an idle backend has none.        *)
THEOREM WeightsHaveOneLifetime == GenerationSpec => []LifetimesDoNotOverlap
<1>1. GenerationInv => LifetimesDoNotOverlap
  <2> SUFFICES ASSUME GenerationInv
               PROVE  LifetimesDoNotOverlap
    OBVIOUS
  <2> USE DEF GenerationInv
  <2>1. ReadsFacts
    BY ReadsAre
  <2>2. resident \subseteq Reads
    BY DEF WeightsInv, TheWeightsAre
  <2>3. submitted => Reads \subseteq resident
    <3>1. CASE lease
      BY <3>1 DEF WeightsInv, TheWeightsAre
    <3>2. CASE submitted /\ ~NeedsLease
      <4>1. Reads = {}
        BY <2>1, <3>2 DEF ReadsFacts, ReadsAt
      <4> QED
        BY <4>1
    <3> QED
      BY <3>1, <3>2 DEF WeightsInv, AWorkIsAt
  <2>4. place = "idle" => resident = {} /\ ~lease /\ ~submitted
    BY BetweenStages
  <2> QED
    BY <2>1, <2>2, <2>3, <2>4 DEF LifetimesDoNotOverlap, ReadsFacts
<1> QED
  BY <1>1, GenerationInvariant, PTL

-----------------------------------------------------------------------------
(* The refinement: each step of a generation is one of AceBackend.          *)

\* A step the backend's books do not see.
LEMMA UnseenStep ==
  ASSUME UNCHANGED <<job, outputs>>, place # "idle" <=> place' # "idle",
         \/ place \in {"settle", "release"} <=> place' \in {"settle", "release"}
         \/ job \notin outputs.committed
  PROVE  UNCHANGED Backend!backendVars
BY DEF Backend!backendVars

LEMMA BackendStep ==
  ASSUME GenerationInv, [GenerationNext]_generationVars
  PROVE  [\E j \in Jobs : Backend!GenerateNext(j)]_(Backend!backendVars)
<1> USE DEF GenerationInv
<1>1. CASE StageStep
  <2>1. place = place' \/ job \notin outputs.committed
    BY <1>1 DEF StageStep, OutputsInv, AudioMatchesPlace, BooksMatchAudio
  <2> QED
    BY <1>1, <2>1, UnseenStep DEF StageStep
<1>2. CASE Generate
  <2>1. job + 1 \in Jobs
    BY <1>2, MaxJobsAssumption DEF Generate, BookTypes, Jobs
  <2>2. Backend!GenerateNext(job + 1)
    BY <1>2 DEF Generate, Backend!GenerateNext, Backend!CallGenerate, Backend!AcceptsGenerate,
       Backend!outputVars
  <2> QED
    BY <2>1, <2>2
<1>3. CASE DestroyReturns \/ FetchReturns
  <2>1. /\ UNCHANGED <<job, outputs>> /\ place # "idle" /\ job \notin outputs.committed
        /\ audio # "committed"
    BY <1>3 DEF DestroyReturns, FetchReturns, OutputsInv, AudioMatchesPlace, BooksMatchAudio
  <2>2. place' # "idle"
    BY <1>3, EnterGoesTo DEF DestroyReturns, FetchReturns, Settle, Continue, RunTypes, Stages
  <2> QED
    BY <2>1, <2>2, UnseenStep
<1>4. CASE place # "idle" /\ place # "retry"
  <2>0. /\ job \in Jobs /\ outputs.rollback = {} /\ outputs.release = {}
        /\ audio = "none" => job \notin outputs.stored
        /\ audio # "none" => job \in outputs.stored
        /\ audio # "committed" => job \notin outputs.committed
        /\ outputs \in [committed : SUBSET Jobs, rollback : SUBSET Jobs,
                        release : SUBSET Jobs, stored : SUBSET Jobs]
    BY <1>4 DEF OutputsInv, BooksMatchAudio, BookTypes
  <2>1. CASE BeginReturns
    <3>1. place = "begin" /\ audio = "none" /\ UNCHANGED job
      BY <2>1 DEF BeginReturns, OutputsInv, AudioMatchesPlace
    <3>2. CASE Settle /\ UNCHANGED outputs
      BY <2>0, <3>1, <3>2, UnseenStep DEF Settle
    <3>3. CASE outputs' = [outputs EXCEPT !.stored = @ \cup {job}] /\ Enter("vae", "vae")
      <4>1. place' \in {"settle", "load"}
        BY <3>3, EnterGoesTo
      <4>2. Backend!OpenTransaction(job)
        BY <2>0, <3>1, <3>3, <4>1 DEF Backend!OpenTransaction, Backend!NothingOwed
      <4> QED
        BY <2>0, <3>1, <4>2 DEF Backend!GenerateNext
    <3> QED
      BY <2>1, <3>2, <3>3 DEF BeginReturns
  <2>2. CASE CommitReturns
    <3>1. place = "commit" /\ audio = "open" /\ UNCHANGED job
      BY <2>2 DEF CommitReturns, OutputsInv, AudioMatchesPlace
    <3>2. CASE Settle /\ UNCHANGED outputs
      BY <2>0, <3>1, <3>2, UnseenStep DEF Settle
    <3>3. CASE Settle /\ outputs' = [outputs EXCEPT !.committed = @ \cup {job}]
      BY <2>0, <3>1, <3>3 DEF Settle, Backend!backendVars
    <3>4. CASE Continue("idle") /\ outputs' = [outputs EXCEPT !.committed = @ \cup {job}]
      <4>1. Backend!FinishGenerateOk(job)
        BY <2>0, <3>1, <3>4 DEF Continue, Backend!FinishGenerateOk
      <4> QED
        BY <2>0, <3>1, <4>1 DEF Backend!GenerateNext
    <3> QED
      BY <2>2, <3>2, <3>3, <3>4 DEF CommitReturns
  <2>3. CASE SettleReturns
    <3>1. place = "settle" /\ UNCHANGED <<job, audio, outputs>>
      BY <2>3 DEF SettleReturns
    <3>2. CASE audio = "committed"
      <4>1. place' = "release"
        BY <2>3, <3>2 DEF SettleReturns, Continue
      <4> QED
        BY <3>1, <4>1, UnseenStep
    <3>3. CASE audio = "open"
      <4>1. place' = "rollback"
        BY <2>3, <3>3 DEF SettleReturns, Continue
      <4> QED
        BY <2>0, <3>1, <3>3, <4>1, UnseenStep
    <3>4. CASE audio = "none"
      <4>1. place' = "idle"
        BY <2>3, <3>4 DEF SettleReturns, Continue
      <4>2. Backend!FinishGenerateFailed(job)
        BY <2>0, <3>1, <3>4, <4>1 DEF Backend!FinishGenerateFailed, Backend!RetryPendingCleanup
      <4> QED
        BY <2>0, <3>1, <4>2 DEF Backend!GenerateNext
    <3> QED
      BY <3>2, <3>3, <3>4 DEF BookTypes
  <2>4. CASE RollbackReturns
    <3>1. place = "rollback" /\ place' = "idle" /\ audio = "open" /\ UNCHANGED job
      BY <2>4 DEF RollbackReturns, Continue, OutputsInv, AudioMatchesPlace
    <3>2. Backend!FinishGenerateFailed(job)
      BY <2>0, <2>4, <3>1 DEF RollbackReturns, Backend!FinishGenerateFailed
    <3> QED
      BY <2>0, <3>1, <3>2 DEF Backend!GenerateNext
  <2>5. CASE ReleaseReturns
    <3>1. place = "release" /\ place' = "idle" /\ audio = "committed" /\ UNCHANGED job
      BY <2>5 DEF ReleaseReturns, Continue, OutputsInv, AudioMatchesPlace
    <3>2. Backend!FinishGenerateFailed(job)
      <4>1. CASE outputs' = [outputs EXCEPT !.stored = @ \ {job}, !.committed = @ \ {job}]
        BY <2>0, <3>1, <4>1 DEF Backend!FinishGenerateFailed
      <4>2. CASE outputs' = [outputs EXCEPT !.release = @ \cup {job}]
        BY <2>0, <3>1, <4>2 DEF Backend!FinishGenerateFailed
      <4> QED
        BY <2>5, <4>1, <4>2 DEF ReleaseReturns
    <3> QED
      BY <2>0, <3>1, <3>2 DEF Backend!GenerateNext
  <2> QED
    BY <1>1, <1>2, <1>3, <1>4, <2>1, <2>2, <2>3, <2>4, <2>5, StagesStepInside
       DEF GenerationNext, GenerationProgress, RetryReturns
<1>5. CASE RetryReturns
  <2> PICK rolled \in SUBSET outputs.rollback, released \in SUBSET outputs.release :
           /\ outputs' = [committed |-> outputs.committed \ released,
                          rollback |-> outputs.rollback \ rolled,
                          release |-> outputs.release \ released,
                          stored |-> outputs.stored \ (rolled \cup released)]
           /\ IF rolled = outputs.rollback /\ released = outputs.release
              THEN IF planned THEN Enter("planner", "planner") ELSE Enter("conditioning", "text")
              ELSE Continue("idle")
    BY <1>5 DEF RetryReturns
  <2>1. /\ place = "retry" /\ job \in Jobs /\ UNCHANGED job
        /\ job \notin outputs.stored /\ job \notin outputs.committed
        /\ outputs \in [committed : SUBSET Jobs, rollback : SUBSET Jobs,
                        release : SUBSET Jobs, stored : SUBSET Jobs]
    BY <1>5 DEF RetryReturns, OutputsInv, AudioMatchesPlace, BooksMatchAudio, BookTypes
  <2>2. CASE rolled = outputs.rollback /\ released = outputs.release
    <3>1. place' \in {"settle", "load"}
      BY <2>2, EnterGoesTo
    <3>2. CASE outputs.rollback = {} /\ outputs.release = {}
      <4>1. outputs' = outputs
        BY <2>1, <2>2, <3>2
      <4> QED
        BY <2>1, <3>1, <4>1, UnseenStep
    <3>3. CASE ~(outputs.rollback = {} /\ outputs.release = {})
      <4>1. Backend!RetryInGenerate
        BY <2>1, <2>2, <3>1, <3>3 DEF Backend!RetryInGenerate, Backend!NothingOwed, Backend!RetryPendingCleanup
      <4> QED
        BY <2>1, <4>1 DEF Backend!GenerateNext
    <3> QED
      BY <3>2, <3>3
  <2>3. CASE ~(rolled = outputs.rollback /\ released = outputs.release)
    <3>1. place' = "idle"
      BY <2>3 DEF Continue
    <3>2. Backend!FinishGenerateFailed(job)
      BY <2>1, <3>1 DEF Backend!FinishGenerateFailed, Backend!RetryPendingCleanup
    <3> QED
      BY <2>1, <3>2 DEF Backend!GenerateNext
  <2> QED
    BY <2>2, <2>3
<1> QED
  BY <1>1, <1>2, <1>3, <1>4, <1>5, StagesStepInside
     DEF GenerationNext, GenerationProgress, BeginReturns, CommitReturns, SettleReturns, RollbackReturns,
         ReleaseReturns

(* What a generation does to OPFS and to the books of the backend, with its *)
(* stages, its executors and however it stops, are steps of AceBackend.     *)
THEOREM GenerationImplementsBackend == GenerationSpec => ImplementsBackend
BY GenerationInvariant, BackendStep, PTL DEF GenerationSpec, ImplementsBackend
=============================================================================
