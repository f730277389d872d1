------------------------ MODULE FollowerIndexProofs ------------------------
(***************************************************************************)
(* Proofs, for every set of tuning parameters and settings and any number  *)
(* of failing calls, interferences and edits, of the safety properties of  *)
(* the follower index resource.  The inductive invariant says how far each *)
(* call has got: which operations it has left determines what it has       *)
(* achieved on the server.                                                 *)
(***************************************************************************)
EXTENDS FollowerIndex, SequenceTheorems, TLAPS

\* Joining short sequences of operations: one and one,
LEMMA Join11 ==
  ASSUME NEW a, NEW b
  PROVE  <<a>> \o <<b>> = <<a, b>>
  <1> DEFINE S == {a, b}
  <1>1. <<a>> \o <<b>> \in Seq(S) /\ <<a, b>> \in Seq(S)
    OBVIOUS
  <1>2. Len(<<a>> \o <<b>>) = 2 /\ Len(<<a, b>>) = 2
    OBVIOUS
  <1>3. \A i \in 1 .. 2 : (<<a>> \o <<b>>)[i] = <<a, b>>[i]
    OBVIOUS
  <1> HIDE DEF S
  <1> QED  BY <1>1, <1>2, <1>3, SeqEqual

\* two and one,
LEMMA Join21 ==
  ASSUME NEW a, NEW b, NEW c
  PROVE  <<a, b>> \o <<c>> = <<a, b, c>>
  <1> DEFINE S == {a, b, c}
  <1>1. <<a, b>> \o <<c>> \in Seq(S) /\ <<a, b, c>> \in Seq(S)
    OBVIOUS
  <1>2. Len(<<a, b>> \o <<c>>) = 3 /\ Len(<<a, b, c>>) = 3
    OBVIOUS
  <1>3. \A i \in 1 .. 3 : (<<a, b>> \o <<c>>)[i] = <<a, b, c>>[i]
    OBVIOUS
  <1> HIDE DEF S
  <1> QED  BY <1>1, <1>2, <1>3, SeqEqual

\* one and two,
LEMMA Join12 ==
  ASSUME NEW a, NEW b, NEW c
  PROVE  <<a>> \o <<b, c>> = <<a, b, c>>
  <1> DEFINE S == {a, b, c}
  <1>1. <<a>> \o <<b, c>> \in Seq(S) /\ <<a, b, c>> \in Seq(S)
    OBVIOUS
  <1>2. Len(<<a>> \o <<b, c>>) = 3 /\ Len(<<a, b, c>>) = 3
    OBVIOUS
  <1>3. \A i \in 1 .. 3 : (<<a>> \o <<b, c>>)[i] = <<a, b, c>>[i]
    OBVIOUS
  <1> HIDE DEF S
  <1> QED  BY <1>1, <1>2, <1>3, SeqEqual

\* three and one,
LEMMA Join31 ==
  ASSUME NEW a, NEW b, NEW c, NEW d
  PROVE  <<a, b, c>> \o <<d>> = <<a, b, c, d>>
  <1> DEFINE S == {a, b, c, d}
  <1>1. <<a, b, c>> \o <<d>> \in Seq(S) /\ <<a, b, c, d>> \in Seq(S)
    OBVIOUS
  <1>2. Len(<<a, b, c>> \o <<d>>) = 4 /\ Len(<<a, b, c, d>>) = 4
    OBVIOUS
  <1>3. \A i \in 1 .. 4 : (<<a, b, c>> \o <<d>>)[i] = <<a, b, c, d>>[i]
    OBVIOUS
  <1> HIDE DEF S
  <1> QED  BY <1>1, <1>2, <1>3, SeqEqual

\* and with none.
LEMMA JoinEmpty ==
  ASSUME NEW a, NEW b
  PROVE  <<a>> \o <<>> = <<a>> /\ <<>> \o <<a>> = <<a>> /\ <<>> \o <<a, b>> = <<a, b>>
  <1>1. <<a>> \in Seq({a, b}) /\ <<a, b>> \in Seq({a, b})
    OBVIOUS
  <1> QED  BY <1>1, ConcatEmptySeq

\* The operations of an update, case by case.
LEMMA UpdatePlans ==
  ASSUME NEW prior \in Model, NEW p \in Model
  PROVE  LET o == PlanUpdateOperations(prior, p) IN
         \/ o \in {<<"pause", "settings", "resume">>, <<"settings", "resume">>}
         \/ /\ o \in {<<"pause", "resume">>, <<"resume">>, <<"pause">>, <<>>}
            /\ ~SettingsRawChanged(prior, p) \/ p.status = "paused"
  <1>1. prior.status \in {"active", "paused"} /\ p.status \in {"active", "paused"}
    BY DEF Model
  <1>2. CASE SettingsRawChanged(prior, p)
    <2>1. SettingsOp(prior, p) = <<"settings">>
      BY <1>2 DEF SettingsOp
    <2>2. /\ <<"pause">> \o <<"settings">> = <<"pause", "settings">>
          /\ <<"settings">> \o <<"resume">> = <<"settings", "resume">>
      BY Join11
    <2>3. <<"pause", "settings">> \o <<"resume">> = <<"pause", "settings", "resume">>
      BY Join21
    <2> QED  BY <1>1, <1>2, <2>1, <2>2, <2>3 DEF PlanUpdateOperations
  <1>3. CASE ~SettingsRawChanged(prior, p)
    <2>1. SettingsOp(prior, p) = <<>>
      BY <1>3 DEF SettingsOp
    <2>2. /\ <<"pause">> \o <<>> = <<"pause">> /\ <<>> \o <<"resume">> = <<"resume">>
          /\ <<"pause">> \o <<"resume">> = <<"pause", "resume">>
      BY Join11, JoinEmpty
    <2> QED  BY <1>1, <1>3, <2>1, <2>2 DEF PlanUpdateOperations
  <1> QED  BY <1>2, <1>3

\* The operations of a delete, case by case.
LEMMA DeletePlans ==
  ASSUME NEW prior \in Model
  PROVE  LET last == IF prior.deleteIndexOnDestroy THEN "delete" ELSE "open" IN
         PlanDeleteOperations(prior) \in
           {<<"pause", "close", "unfollow", last>>, <<"close", "unfollow", last>>}
  <1>1. prior.status \in {"active", "paused"} /\ prior.deleteIndexOnDestroy \in BOOLEAN
    BY DEF Model
  <1>2. /\ <<"pause">> \o <<"close", "unfollow">> = <<"pause", "close", "unfollow">>
        /\ <<>> \o <<"close", "unfollow">> = <<"close", "unfollow">>
    BY Join12, JoinEmpty
  <1>3. \A l \in {"delete", "open"} :
          /\ <<"pause", "close", "unfollow">> \o <<l>> = <<"pause", "close", "unfollow", l>>
          /\ <<"close", "unfollow">> \o <<l>> = <<"close", "unfollow", l>>
    BY Join21, Join31
  <1> QED  BY <1>1, <1>2, <1>3 DEF PlanDeleteOperations

\* What an operation leaves behind is an index, or none.
LEMMA EffectType ==
  ASSUME TypeOK, plan \in Model, NEW o \in Operations, o = "resume" => plan.tuning # Null
  PROVE  Effect(o) \in Index \cup {NoIndex}
  BY DEF TypeOK, Effect, Index, Model, Operations

\* The sequences of operations that the calls execute are sequences of operations.
LEMMA Literals ==
  /\ <<>> \in Seq(Operations) /\ <<"pause">> \in Seq(Operations) /\ <<"resume">> \in Seq(Operations)
  /\ <<"pause", "resume">> \in Seq(Operations) /\ <<"settings", "resume">> \in Seq(Operations)
  /\ <<"pause", "settings", "resume">> \in Seq(Operations)
  /\ \A l \in {"delete", "open"} : /\ <<"close", "unfollow", l>> \in Seq(Operations)
                                   /\ <<"pause", "close", "unfollow", l>> \in Seq(Operations)
  BY DEF Operations

\* A delete executes neither a resume nor a change of settings.
LEMMA OpsLeft ==
  ASSUME FollowerInv, step = "ops", ops # <<>>
  PROVE  /\ Head(ops) \in Operations /\ Tail(ops) \in Seq(Operations)
         /\ plan \in Model /\ (Head(ops) = "resume" => plan.tuning # Null)
  <1>1. Head(ops) \in Operations /\ Tail(ops) \in Seq(Operations)
    BY DEF FollowerInv, TypeOK
  <1>2. plan \in Model /\ op # "idle"
    BY DEF FollowerInv, CallInv
  <1>3. CASE op = "delete"
    <2>1. LastOp \in {"delete", "open"}
      BY DEF LastOp
    <2>2. Head(ops) # "resume"
      BY <1>3, <2>1 DEF FollowerInv, DeleteInv
    <2> QED  BY <1>1, <1>2, <2>2
  <1>4. CASE op # "delete"
    BY <1>1, <1>2, <1>4 DEF FollowerInv, CallInv, TypeOK
  <1> QED  BY <1>3, <1>4

\* The first operation is carried out, or was although its call failed.
LEMMA ExecutedType ==
  ASSUME FollowerInv, ExecuteOp \/ OpFails
  PROVE  index' \in Index \cup {NoIndex}
  <1>1. step = "ops" /\ ops # <<>> /\ index' \in {index, Effect(Head(ops))}
    BY DEF ExecuteOp, OpFails
  <1>2. TypeOK
    BY DEF FollowerInv
  <1>3. Effect(Head(ops)) \in Index \cup {NoIndex}
    BY <1>1, <1>2, OpsLeft, EffectType
  <1> QED  BY <1>1, <1>2, <1>3 DEF TypeOK

\* Reading a follower gives a model with the settings of the prior one.
LEMMA MapType ==
  ASSUME NEW i \in Index, NEW prior \in Model
  PROVE  LET m == MapFollowerIndexToModel(i, prior) IN m \in Model /\ m.settings = prior.settings
  BY DEF MapFollowerIndexToModel, Index, Model

\* Every step keeps the types.
LEMMA NextTypeOK == FollowerInv /\ [Next]_vars => TypeOK'
  <1> SUFFICES ASSUME FollowerInv, [Next]_vars PROVE TypeOK'
    OBVIOUS
  <1>t. TypeOK /\ CallInv
    BY DEF FollowerInv
  <1>1. index' \in Index \cup {NoIndex}
    <2>1. CASE ExecuteOp \/ OpFails
      BY <2>1, ExecutedType
    <2>2. CASE Follow \/ FollowFails
      <3>1. plan \in Model /\ plan.tuning # Null
        BY <2>2, <1>t DEF Follow, FollowFails, CallInv, TypeOK
      <3>2. Followed \in Index
        BY <3>1 DEF Followed, Index, Model
      <3> QED  BY <2>2, <3>2, <1>t DEF Follow, FollowFails, TypeOK
    <2>3. CASE ServerStarts \/ OtherActs
      BY <2>3, <1>t DEF ServerStarts, OtherActs, IsFollower, TypeOK, Index
    <2> QED  BY <1>t, <2>1, <2>2, <2>3
             DEF TypeOK, Next, Provider, Failures, BeginCreate, FollowRefused, WaitActive, WaitTimesOut,
               BeginUpdate, BeginDelete, OpRefused, ReadBack, ReadBackNotFound,
               DeleteDone, Read, NewRun, WaitFails, ReadBackFails, EditConfig, Import,
               EndWithError, EndCall, Fault, vars, callVars, budget
  <1>2. /\ config' \in Config \cup {NoConfig}
        /\ tfstate' \in Model \cup {NoState} /\ refreshed' \in BOOLEAN
    <2>1. CASE ReadBack \/ Read
      <3>1. IsFollower(index) => index \in Index
        BY <1>t DEF TypeOK, IsFollower
      <3>2. tfstate' \in Model \cup {NoState}
        BY <2>1, <1>t, <3>1, MapType DEF ReadBack, Read, CallInv, TypeOK
      <3> QED  BY <2>1, <3>2, <1>t DEF ReadBack, Read, TypeOK
    <2>2. CASE Import
      BY <2>2, <1>t DEF Import, MapFollowerIndexToModel, IsFollower, TypeOK, Index, Model
    <2> QED  BY <1>t, <2>1, <2>2
             DEF TypeOK, Config, Next, Provider, Failures, BeginCreate, Follow, FollowRefused, WaitActive, WaitTimesOut,
               BeginUpdate, BeginDelete, ExecuteOp, OpRefused, ReadBackNotFound,
               DeleteDone, NewRun, FollowFails, WaitFails, OpFails, ReadBackFails,
               ServerStarts, OtherActs, EditConfig, EndWithError, EndCall, Fault, vars,
               callVars, budget
  <1>3. /\ op' \in {"idle", "create", "update", "delete"}
        /\ step' \in {"none", "follow", "wait", "ops"} /\ plan' \in Model \cup {NoPlan}
    BY <1>t
    DEF TypeOK, Config, Next, Provider, Failures, BeginCreate, Follow, FollowRefused, WaitActive, WaitTimesOut,
               BeginUpdate, BeginDelete, ExecuteOp, OpRefused, ReadBack,
               ReadBackNotFound, DeleteDone, Read, NewRun, FollowFails, WaitFails,
               OpFails, ReadBackFails, ServerStarts, OtherActs, EditConfig, Import,
               EndWithError, EndCall, Fault, vars, callVars, budget
  <1>4. ops' \in Seq(Operations)
    <2>1. CASE BeginUpdate
      <3>1. tfstate \in Model /\ config \in Model /\ ops' = PlanUpdateOperations(tfstate, config)
        BY <2>1, <1>t DEF BeginUpdate, TypeOK, Config
      <3>2. \/ ops' \in {<<"pause", "settings", "resume">>, <<"settings", "resume">>}
            \/ ops' \in {<<"pause", "resume">>, <<"resume">>, <<"pause">>, <<>>}
        BY <3>1, UpdatePlans
      <3> QED  BY <3>2, Literals, Zenon
    <2>2. CASE BeginDelete
      <3>1. tfstate \in Model /\ ops' = PlanDeleteOperations(tfstate)
        BY <2>2, <1>t DEF BeginDelete, TypeOK
      <3>2. \E l \in {"delete", "open"} :
              ops' \in {<<"pause", "close", "unfollow", l>>, <<"close", "unfollow", l>>}
        BY <3>1, DeletePlans, Zenon
      <3> QED  BY <3>2, Literals, Zenon
    <2>3. CASE WaitActive
      <3>1. ops' \in {<<"pause">>, <<>>}
        BY <2>3 DEF WaitActive, AfterWait
      <3> QED  BY <3>1, Literals, Zenon
    <2>4. CASE ExecuteOp
      BY <2>4, OpsLeft DEF ExecuteOp
    <2>5. CASE ~(BeginUpdate \/ BeginDelete \/ WaitActive \/ ExecuteOp)
      <3>1. ops' = ops \/ ops' = <<>>
        BY <2>5
        DEF Next, Provider, Failures, BeginCreate, Follow, FollowRefused, WaitTimesOut, OpRefused,
               ReadBack, ReadBackNotFound, DeleteDone, Read, NewRun, FollowFails,
               WaitFails, OpFails, ReadBackFails, ServerStarts, OtherActs, EditConfig,
               Import, EndWithError, EndCall, Fault, vars, callVars, budget
      <3>2. ops \in Seq(Operations)
        BY <1>t DEF TypeOK
      <3> QED  BY <3>1, <3>2, Literals, Zenon
    <2> QED  BY <2>1, <2>2, <2>3, <2>4, <2>5
  <1>5. /\ gaps' \subseteq {"deferred", "torn"}
        /\ faults' \in 0 .. MaxFaults /\ acts' \in 0 .. MaxActs /\ edits' \in 0 .. MaxEdits
    BY <1>t, FollowerAssumption
    DEF TypeOK, Next, Provider, Failures, BeginCreate, Follow, FollowRefused, WaitActive, WaitTimesOut,
               BeginUpdate, BeginDelete, ExecuteOp, OpRefused, ReadBack,
               ReadBackNotFound, DeleteDone, Read, NewRun, FollowFails, WaitFails,
               OpFails, ReadBackFails, ServerStarts, OtherActs, EditConfig, Import,
               EndWithError, EndCall, Fault, vars, callVars, budget
  <1> QED  BY <1>1, <1>2, <1>3, <1>4, <1>5 DEF TypeOK

\* Every step keeps what a call in progress relies on.
LEMMA NextCallInv == FollowerInv /\ [Next]_vars => CallInv' /\ CreateInv' /\ PauseAfterStart'
  <1> SUFFICES ASSUME FollowerInv, [Next]_vars PROVE CallInv' /\ CreateInv' /\ PauseAfterStart'
    OBVIOUS
  <1>t. TypeOK /\ CallInv /\ CreateInv /\ PauseAfterStart
    BY DEF FollowerInv
  <1>1. CallInv'
    BY <1>t
    DEF TypeOK, CallInv, Config, Next, Provider, Failures, BeginCreate, Follow, FollowRefused, WaitActive, WaitTimesOut,
               BeginUpdate, BeginDelete, ExecuteOp, OpRefused, ReadBack,
               ReadBackNotFound, DeleteDone, Read, NewRun, FollowFails, WaitFails,
               OpFails, ReadBackFails, ServerStarts, OtherActs, EditConfig, Import,
               EndWithError, EndCall, Fault, vars, callVars, budget
  <1>2. CASE ExecuteOp
    <2>1. UNCHANGED <<op, step, plan>> /\ step = "ops" /\ ops # <<>> /\ index' = Effect(Head(ops))
      BY <1>2 DEF ExecuteOp
    <2>2. (IsFollower(index') => IsFollower(index)) /\ (IsFollower(index') => index'.settings \in {index.settings, plan.settings})
      BY <2>1, <1>t, OpsLeft DEF Effect, Operations, IsFollower, TypeOK, Index
    <2>3. (IsFollower(index) /\ index.status # "starting") /\ IsFollower(index') => index'.status # "starting"
      BY <2>1, <1>t, OpsLeft DEF Effect, Operations, IsFollower, TypeOK, Index
    <2> QED  BY <1>1, <1>t, <2>1, <2>2, <2>3 DEF CreateInv, PauseAfterStart
  <1>3. CASE op' = "idle"
    BY <1>1, <1>3 DEF CreateInv, PauseAfterStart
  <1>4. CASE Follow
    BY <1>1, <1>4, <1>t DEF Follow, Followed, CreateInv, PauseAfterStart, IsFollower
  <1>5. CASE WaitActive
    BY <1>1, <1>5, <1>t DEF WaitActive, CreateInv, PauseAfterStart, IsActive, IsFollower
  <1>6. CASE ServerStarts \/ OtherActs
    BY <1>1, <1>6, <1>t DEF ServerStarts, OtherActs, CreateInv, PauseAfterStart, IsFollower, TypeOK, Index, callVars
  <1>7. CASE BeginCreate \/ BeginUpdate \/ BeginDelete
    BY <1>1, <1>7 DEF BeginCreate, BeginUpdate, BeginDelete, CreateInv, PauseAfterStart
  <1>8. CASE UNCHANGED <<op, step, plan, index>>
    BY <1>1, <1>8, <1>t DEF CreateInv, PauseAfterStart, IsFollower
  <1>9. \/ op' = "idle" \/ UNCHANGED <<op, step, plan, index>> \/ ExecuteOp \/ Follow \/ WaitActive
        \/ ServerStarts \/ OtherActs \/ BeginCreate \/ BeginUpdate \/ BeginDelete
    BY DEF Next, Provider, Failures, FollowRefused, WaitTimesOut, OpRefused, ReadBack,
               ReadBackNotFound, DeleteDone, Read, NewRun, FollowFails, WaitFails,
               OpFails, ReadBackFails, EditConfig, Import, EndWithError, EndCall, Fault,
               vars, callVars, budget
  <1> QED  BY <1>1, <1>2, <1>3, <1>4, <1>5, <1>6, <1>7, <1>8, <1>9

\* No operation makes an index a follower, and only one changes its settings.
LEMMA EffectKeeps ==
  ASSUME TypeOK, NEW o \in Operations, IsFollower(Effect(o))
  PROVE  IsFollower(index) /\ (o # "settings" => Effect(o).settings = index.settings)
                           /\ (o = "settings" => Effect(o).settings = plan.settings)
  BY DEF TypeOK, Effect, Operations, IsFollower, Index

\* Elasticsearch and other clients leave the settings alone and follow nothing.
LEMMA ActsKeep ==
  ASSUME TypeOK, ServerStarts \/ OtherActs, IsFollower(index')
  PROVE  IsFollower(index) /\ index'.settings = index.settings
  BY DEF TypeOK, ServerStarts, OtherActs, IsFollower, Index

\* A delete executes its operations one after the other.
LEMMA NextDeleteInv == FollowerInv /\ [Next]_vars => DeleteInv'
  <1> SUFFICES ASSUME FollowerInv, [Next]_vars, op' = "delete" PROVE DeleteInv'
    BY DEF DeleteInv
  <1>t. TypeOK /\ CallInv /\ DeleteInv /\ SettingsGapsAreKnown
    BY DEF FollowerInv
  <1>1. CASE BeginDelete
    <2>1. /\ op = "idle" /\ tfstate \in Model /\ tfstate # NoState /\ UNCHANGED <<tfstate, index, gaps>>
          /\ ops' = PlanDeleteOperations(tfstate)
      BY <1>1, <1>t DEF BeginDelete, TypeOK
    <2>2. ops' \in {<<"pause", "close", "unfollow", LastOp>>, <<"close", "unfollow", LastOp>>}
      BY <2>1, DeletePlans DEF LastOp
    <2> QED  BY <1>t, <2>1, <2>2 DEF DeleteInv, LastOp, SettingsGapsAreKnown, IsFollower
  <1>2. CASE ExecuteOp
    <2>1. /\ op = "delete" /\ ops # <<>> /\ step = "ops" /\ tfstate \in Model /\ UNCHANGED <<tfstate, op>>
          /\ index' = Effect(Head(ops)) /\ ops' = Tail(ops) /\ Accepts(Head(ops))
          /\ gaps' = IF Head(ops) = "settings" THEN {} ELSE gaps
      BY <1>2, <1>t DEF ExecuteOp, CallInv, TypeOK
    <2>2. LastOp \in {"delete", "open"} /\ LastOp' = LastOp
      BY <2>1 DEF LastOp
    <2>3. Head(ops) \in Operations /\ Head(ops) # "settings"
      BY <1>t, <2>1, <2>2, OpsLeft DEF DeleteInv
    <2>4. (gaps' = {} /\ IsFollower(index')) => tfstate'.settings \in {Null, index'.settings}
      BY <1>t, <2>1, <2>3, EffectKeeps DEF DeleteInv
    <2>5. CASE ops \in {<<"pause", "close", "unfollow", LastOp>>, <<"close", "unfollow", LastOp>>}
      <3>1. ops' \in {<<"close", "unfollow", LastOp>>, <<"unfollow", LastOp>>}
        <4>1. CASE ops = <<"pause", "close", "unfollow", LastOp>>
          BY <2>1, <4>1
        <4>2. CASE ops = <<"close", "unfollow", LastOp>>
          BY <2>1, <4>2
        <4> QED  BY <2>5, <4>1, <4>2
      <3> QED  BY <2>2, <2>4, <3>1 DEF DeleteInv
    <2>6. CASE ops = <<"unfollow", LastOp>>
      <3>1. Head(ops) = "unfollow" /\ ops' = <<LastOp>>
        BY <2>1, <2>6
      <3>2. index' = NoIndex \/ ~index'.follower
        BY <1>t, <2>1, <3>1 DEF Effect, TypeOK, Index
      <3> QED  BY <2>2, <2>4, <3>1, <3>2 DEF DeleteInv
    <2>7. CASE ops = <<LastOp>> /\ (index = NoIndex \/ ~index.follower)
      <3>1. Head(ops) = LastOp /\ ops' = <<>>
        BY <2>1, <2>7
      <3>2. index' = NoIndex \/ (~index'.follower /\ index'.open /\ ~tfstate.deleteIndexOnDestroy)
        BY <1>t, <2>1, <2>7, <3>1 DEF Effect, TypeOK, Index, LastOp
      <3> QED  BY <2>1, <2>4, <3>1, <3>2 DEF DeleteInv
    <2> QED  BY <1>t, <2>1, <2>5, <2>6, <2>7 DEF DeleteInv
  <1>3. CASE ServerStarts \/ OtherActs
    <2>1. UNCHANGED <<op, ops, tfstate, gaps>> /\ LastOp' = LastOp /\ IsFollower(index)
      BY <1>3 DEF ServerStarts, OtherActs, callVars, LastOp
    <2>2. ops \in {<<"pause", "close", "unfollow", LastOp>>, <<"close", "unfollow", LastOp>>,
                   <<"unfollow", LastOp>>}
      BY <1>t, <2>1 DEF DeleteInv, IsFollower
    <2> QED  BY <1>3, <1>t, <2>1, <2>2, ActsKeep DEF DeleteInv
  <1>4. CASE UNCHANGED <<op, ops, tfstate, gaps, index>>
    BY <1>4, <1>t DEF DeleteInv, LastOp, IsFollower
  <1>5. BeginDelete \/ ExecuteOp \/ ServerStarts \/ OtherActs \/ UNCHANGED <<op, ops, tfstate, gaps, index>>
    BY <1>t DEF CallInv, Next, Provider, Failures, BeginCreate, Follow, FollowRefused, WaitActive, WaitTimesOut,
               BeginUpdate, OpRefused, ReadBack, ReadBackNotFound, DeleteDone, Read,
               NewRun, FollowFails, WaitFails, OpFails, ReadBackFails, EditConfig,
               Import, EndWithError, EndCall, Fault, vars, callVars, budget
  <1> QED  BY <1>1, <1>2, <1>3, <1>4, <1>5

\* An update sends its settings, or defers them.
LEMMA NextUpdateInv == FollowerInv /\ [Next]_vars => UpdateInv'
  <1> SUFFICES ASSUME FollowerInv, [Next]_vars, op' = "update" PROVE UpdateInv'
    BY DEF UpdateInv
  <1>t. TypeOK /\ CallInv /\ UpdateInv /\ SettingsGapsAreKnown
    BY DEF FollowerInv
  <1>1. CASE BeginUpdate
    <2>1. /\ op = "idle" /\ tfstate \in Model /\ tfstate # NoState /\ config \in Model
          /\ plan' = config /\ op' = "update" /\ UNCHANGED <<tfstate, index, gaps>>
          /\ ops' = PlanUpdateOperations(tfstate, config)
      BY <1>1, <1>t DEF BeginUpdate, TypeOK, Config
    <2>2. \/ ops' \in {<<"pause", "settings", "resume">>, <<"settings", "resume">>}
          \/ /\ ops' \in {<<"pause", "resume">>, <<"resume">>, <<"pause">>, <<>>}
             /\ ~SettingsRawChanged(tfstate, config) \/ config.status = "paused"
      BY <2>1, UpdatePlans
    <2>3. Deferred' \/ ~SettingsRawChanged(tfstate, config) \/ config.status # "paused"
      BY <2>1 DEF Deferred, SettingsRawChanged
    <2>4. ~SettingsRawChanged(tfstate, config) =>
            ((gaps' = {} /\ IsFollower(index')) => plan'.settings \in {Null, index'.settings})
      BY <1>t, <2>1 DEF SettingsRawChanged, SettingsGapsAreKnown, IsFollower
    <2> QED  BY <2>2, <2>3, <2>4 DEF UpdateInv
  <1>2. CASE ExecuteOp
    <2>1. /\ op = "update" /\ ops # <<>> /\ step = "ops" /\ UNCHANGED <<tfstate, op, plan>>
          /\ index' = Effect(Head(ops)) /\ ops' = Tail(ops)
          /\ gaps' = IF Head(ops) = "settings" THEN {} ELSE gaps
      BY <1>2, <1>t DEF ExecuteOp, CallInv, TypeOK
    <2>2. Head(ops) \in Operations /\ (Deferred => Deferred')
      BY <2>1, OpsLeft DEF Deferred, SettingsRawChanged
    <2>3. CASE ops = <<"pause", "settings", "resume">>
      <3>1. ops' = <<"settings", "resume">>
        BY <2>1, <2>3
      <3> QED  BY <3>1 DEF UpdateInv
    <2>4. CASE ops = <<"settings", "resume">>
      <3>1. ops' = <<"resume">> /\ Head(ops) = "settings"
        BY <2>1, <2>4
      <3>2. IsFollower(index') => index'.settings = plan'.settings
        BY <1>t, <2>1, <2>2, <3>1, EffectKeeps
      <3> QED  BY <3>1, <3>2 DEF UpdateInv
    <2>5. CASE ops \in {<<"pause", "resume">>, <<"resume">>, <<"pause">>}
      <3>1. ops' \in {<<"resume">>, <<>>} /\ Head(ops) # "settings"
        <4>1. CASE ops = <<"pause", "resume">>
          BY <2>1, <4>1
        <4>2. CASE ops = <<"resume">> \/ ops = <<"pause">>
          BY <2>1, <4>2
        <4> QED  BY <2>5, <4>1, <4>2
      <3>2. (gaps' = {} /\ IsFollower(index')) => gaps = {} /\ IsFollower(index) /\ index'.settings = index.settings
        BY <1>t, <2>1, <2>2, <3>1, EffectKeeps
      <3>3. Deferred \/ ((gaps = {} /\ IsFollower(index)) => plan.settings \in {Null, index.settings})
        BY <1>t, <2>1, <2>5 DEF UpdateInv
      <3> QED  BY <2>1, <2>2, <3>1, <3>2, <3>3 DEF UpdateInv
    <2> QED  BY <1>t, <2>1, <2>3, <2>4, <2>5 DEF UpdateInv
  <1>3. CASE ServerStarts \/ OtherActs
    <2>1. UNCHANGED <<op, ops, tfstate, gaps, plan>>
      BY <1>3 DEF ServerStarts, OtherActs, callVars
    <2>2. Deferred => Deferred'
      BY <2>1 DEF Deferred, SettingsRawChanged
    <2> QED  BY <1>3, <1>t, <2>1, <2>2, ActsKeep DEF UpdateInv
  <1>4. CASE UNCHANGED <<op, ops, tfstate, gaps, index, plan>>
    BY <1>4, <1>t DEF UpdateInv, Deferred, SettingsRawChanged, IsFollower
  <1>5. BeginUpdate \/ ExecuteOp \/ ServerStarts \/ OtherActs
        \/ UNCHANGED <<op, ops, tfstate, gaps, index, plan>>
    BY <1>t DEF CallInv, Next, Provider, Failures, BeginCreate, Follow, FollowRefused, WaitActive, WaitTimesOut,
               BeginDelete, OpRefused, ReadBack, ReadBackNotFound, DeleteDone, Read,
               NewRun, FollowFails, WaitFails, OpFails, ReadBackFails, EditConfig,
               Import, EndWithError, EndCall, Fault, vars, callVars, budget
  <1> QED  BY <1>1, <1>2, <1>3, <1>4, <1>5

\* Whenever a call ends, the state has the settings of the server or a gap is known.
LEMMA NextSettings == FollowerInv /\ [Next]_vars => SettingsGapsAreKnown'
  <1> SUFFICES ASSUME FollowerInv, [Next]_vars, op' = "idle", tfstate' # NoState, IsFollower(index'), gaps' = {}
               PROVE  tfstate'.settings \in {Null, index'.settings}
    BY DEF SettingsGapsAreKnown
  <1>t. TypeOK /\ CallInv /\ CreateInv /\ DeleteInv /\ UpdateInv /\ SettingsGapsAreKnown
    BY DEF FollowerInv
  <1>1. CASE ServerStarts \/ OtherActs
    <2>1. UNCHANGED <<op, tfstate, gaps>>
      BY <1>1 DEF ServerStarts, OtherActs, callVars
    <2> QED  BY <1>1, <1>t, <2>1, ActsKeep DEF SettingsGapsAreKnown
  <1>2. CASE Read
    <2>1. /\ op = "idle" /\ tfstate \in Model /\ tfstate # NoState /\ UNCHANGED <<gaps, index>>
          /\ index \in Index /\ IsFollower(index) /\ tfstate' = MapFollowerIndexToModel(index, tfstate)
      BY <1>2, <1>t DEF Read, TypeOK, IsFollower
    <2> QED  BY <1>t, <2>1, MapType DEF SettingsGapsAreKnown
  <1>3. CASE Import
    BY <1>3 DEF Import, MapFollowerIndexToModel
  <1>4. CASE ReadBack
    <2>1. /\ op \in {"create", "update"} /\ step = "ops" /\ ops = <<>> /\ plan \in Model /\ UNCHANGED index
          /\ index \in Index /\ tfstate' = MapFollowerIndexToModel(index, plan) /\ IsFollower(index)
          /\ gaps = {} /\ ~Deferred
      BY <1>4, <1>t DEF ReadBack, TypeOK, CallInv, IsFollower
    <2>2. tfstate'.settings = plan.settings
      BY <2>1, MapType
    <2> QED  BY <1>t, <2>1, <2>2 DEF CreateInv, UpdateInv
  <1>5. CASE OpRefused \/ OpFails
    <2>1. /\ op = "delete" /\ step = "ops" /\ ops # <<>> /\ UNCHANGED <<tfstate, gaps>>
          /\ index' \in {index, Effect(Head(ops))}
      BY <1>5, <1>t DEF OpRefused, OpFails, EndWithError, CallInv, TypeOK
    <2>2. LastOp \in {"delete", "open"}
      BY DEF LastOp
    <2>3. Head(ops) \in Operations /\ Head(ops) # "settings"
      BY <1>t, <2>1, <2>2, OpsLeft DEF DeleteInv
    <2> QED  BY <1>t, <2>1, <2>3, EffectKeeps DEF DeleteInv
  <1>6. CASE op = "idle" /\ UNCHANGED <<tfstate, gaps, index>>
    BY <1>6, <1>t DEF SettingsGapsAreKnown, IsFollower
  <1>7. \/ ServerStarts \/ OtherActs \/ Read \/ Import \/ ReadBack \/ OpRefused \/ OpFails
        \/ op = "idle" /\ UNCHANGED <<tfstate, gaps, index>>
    BY <1>t DEF CallInv, TypeOK, IsFollower, Next, Provider, Failures, BeginCreate, Follow, FollowRefused, WaitActive, WaitTimesOut,
               BeginUpdate, BeginDelete, ExecuteOp, ReadBackNotFound, DeleteDone,
               NewRun, FollowFails, WaitFails, ReadBackFails, EditConfig, EndWithError,
               EndCall, Fault, vars, callVars, budget
  <1> QED  BY <1>1, <1>2, <1>3, <1>4, <1>5, <1>6, <1>7

\* The follower's invariant holds for every number of faults and interferences.
THEOREM FollowerInvariant == Spec => []FollowerInv
  <1>1. Init => FollowerInv
    <2> SUFFICES ASSUME Init PROVE FollowerInv
      OBVIOUS
    <2>1. index \in Index \cup {NoIndex} /\ config \in Config \cup {NoConfig} /\ ops = <<>>
      BY DEF Init
    <2>2. ops \in Seq(Operations)
      BY <2>1, Literals, Zenon
    <2>a. /\ tfstate = NoState /\ refreshed = FALSE /\ op = "idle" /\ step = "none" /\ plan = NoPlan
          /\ gaps = {} /\ faults = 0 /\ acts = 0 /\ edits = 0
      BY DEF Init
    <2>b. faults \in 0 .. MaxFaults /\ acts \in 0 .. MaxActs /\ edits \in 0 .. MaxEdits
      BY <2>a, FollowerAssumption
    <2>3. TypeOK
      BY <2>1, <2>2, <2>a, <2>b, Zenon DEF TypeOK
    <2> QED  BY <2>3 DEF Init, FollowerInv, CallInv, CreateInv, DeleteInv, UpdateInv, PauseAfterStart,
                         SettingsGapsAreKnown
  <1>2. FollowerInv /\ [Next]_vars => FollowerInv'
    BY NextTypeOK, NextCallInv, NextDeleteInv, NextUpdateInv, NextSettings DEF FollowerInv
  <1> QED  BY <1>1, <1>2, PTL DEF Spec

\* The type invariant of the follower index resource.
THEOREM FollowerTypeCorrect == Spec => []TypeOK
  <1>1. FollowerInv => TypeOK
    BY DEF FollowerInv
  <1> QED  BY <1>1, FollowerInvariant, PTL

\* createFollowerIndex never asks to pause a follower that has not started.
THEOREM PausesAfterStart == Spec => []PauseAfterStart
  <1>1. FollowerInv => PauseAfterStart
    BY DEF FollowerInv
  <1> QED  BY <1>1, FollowerInvariant, PTL

\* settings_raw in the state is on the server, but for the two known gaps.
THEOREM SettingsGapsKnown == Spec => []SettingsGapsAreKnown
  <1>1. FollowerInv => SettingsGapsAreKnown
    BY DEF FollowerInv
  <1> QED  BY <1>1, FollowerInvariant, PTL

\* executeDeleteOperations, when it succeeds, has disposed of the follower, whatever
\* Elasticsearch and other clients did between its calls.
THEOREM DeleteAlwaysDisposes == Spec => DeleteDisposes
  <1> DEFINE Disposed == \/ index' = NoIndex
                         \/ ~index'.follower /\ index'.open /\ ~tfstate.deleteIndexOnDestroy
  <1>1. ASSUME FollowerInv, [Next]_vars, op = "delete", tfstate' = NoState PROVE Disposed
    <2>1. CallInv /\ DeleteInv /\ TypeOK
      BY <1>1 DEF FollowerInv
    <2>2. tfstate # NoState /\ tfstate' # tfstate
      BY <1>1, <2>1 DEF CallInv
    <2>3. DeleteDone
      BY <1>1, <2>2
      DEF Next, Provider, Failures, BeginCreate, Follow, FollowRefused, WaitActive, WaitTimesOut,
               BeginUpdate, BeginDelete, ExecuteOp, OpRefused, ReadBack,
               ReadBackNotFound, Read, NewRun, FollowFails, WaitFails, OpFails,
               ReadBackFails, ServerStarts, OtherActs, EditConfig, Import, EndWithError,
               EndCall, Fault, vars, callVars, budget
    <2>4. ops = <<>> /\ UNCHANGED index
      BY <2>3 DEF DeleteDone
    <2> QED  BY <1>1, <2>1, <2>4 DEF DeleteInv
  <1>2. FollowerInv /\ [Next]_vars => [(op = "delete" /\ tfstate' = NoState) => Disposed]_vars
    BY <1>1
  <1> QED  BY <1>2, FollowerInvariant, PTL DEF Spec, DeleteDisposes
=============================================================================
