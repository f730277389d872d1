-------------------------- MODULE MLDatafeedProofs --------------------------
(***************************************************************************)
(* Proofs, for every set of definitions and any number of searches,        *)
(* failures, edits and acts of others, of the safety properties of the two *)
(* datafeed resources: an update or delete meets a stopped datafeed, an    *)
(* update leaves a datafeed that ran running, and what ml_datafeed_state   *)
(* saves or drops is true of the datafeed.                                 *)
(***************************************************************************)
EXTENDS MLDatafeed, TLAPS

(***************************************************************************)
(* The inductive invariant, one part for each resource.                    *)
(***************************************************************************)

\* Which operation may be where.
ControlOK(r) ==
  /\ (op[r] = "none") <=> (pc[r] \in {"refresh", "planned", "done"})
  /\ op[r] \in {"create", "update"} => config[r] # Absent
  /\ pc[r] = "put" => r = "feed" /\ op[r] = "create"
  /\ pc[r] = "update" => r = "feed" /\ op[r] = "update"
  /\ pc[r] = "remove" => r = "feed" /\ op[r] = "delete"
  /\ pc[r] = "return" => op[r] = "delete"
  /\ pc[r] = "missed" => r = "state" /\ op[r] # "delete"
  /\ pc[r] = "await" => goal[r] \in TerminalStates
  /\ (r = "feed" /\ op[r] = "create") => pc[r] \in {"put", "readback"}
  /\ (r = "state" /\ op[r] = "delete") =>
       pc[r] \in {"look", "stop", "await", "return"} /\ (pc[r] = "await" => goal[r] = "stopped")

\* A datafeed that nobody else has moved since the request is on its way.
AwaitOK(r) ==
  (pc[r] = "await" /\ ~foreign[r]) =>
    /\ goal[r] = "stopped" => RunState \in {Absent, "stopping", "stopped"}
    /\ goal[r] = "started" => RunState \in {"starting", "started"}

\* A restart that ended well.
RestartOK ==
  (pc["feed"] = "readback" /\ op["feed"] = "update" /\ Running(seen["feed"])) =>
    RunState = "started" \/ foreign["feed"]

\* The state resource misses a transition only if somebody else moved the
\* datafeed; a search since it looked means that the datafeed was started; and its
\* destroy leaves a stopped datafeed, or one that it found on the move.
StateOK ==
  /\ pc["state"] = "missed" => foreign["state"]
  /\ pc["state"] \in {"stop", "start", "await", "missed", "readback", "return"} =>
       /\ RunState = "started" => ran
       /\ (Exists /\ feed.searches > before) => ran
  /\ pc["state"] = "return" =>
       \/ RunState \in {Absent, "stopped"} \/ foreign["state"]
       \/ seen["state"] \in {"starting", "stopping"}

CallOK(r) ==
  /\ ControlOK(r) /\ AwaitOK(r)
  /\ r = "feed" => WriteMeetsStopped /\ RestartOK
  /\ r = "state" => StateOK

FeedIInv == TypeOK /\ \A r \in Resources : CallOK(r)

(***************************************************************************)
(* The datafeed and its moves.                                             *)
(***************************************************************************)

\* The run state of a datafeed that may be absent.
RunOf(f) == IF f # Absent THEN f.run ELSE Absent

\* What a request or another client can make of the datafeed: it does not count
\* searches.
Move(f) ==
  \/ f = Absent
  \/ f \in Feed /\ (f.searches = 0 \/ (Exists /\ f.searches = feed.searches))

LEMMA RunStateType ==
  ASSUME TypeOK
  PROVE  /\ RunState \in RunStates \cup {Absent} /\ Absent \notin RunStates
         /\ Exists => feed \in Feed /\ RunState = feed.run /\ RunState # Absent
         /\ ~Exists => RunState = Absent
  BY DatafeedAssumption DEF TypeOK, RunState, Exists, Feed, RunStates

LEMMA SpendType ==
  ASSUME TypeOK,
         \/ UNCHANGED budget
         \/ Spend("faults", MaxFaults) \/ Spend("acts", MaxActs) \/ Spend("edits", MaxEdits)
  PROVE  budget' \in [faults : 0 .. MaxFaults, acts : 0 .. MaxActs, edits : 0 .. MaxEdits]
  BY DatafeedAssumption DEF TypeOK, Spend

\* The effects of a request that is accepted.
LEMMA EffectsMove ==
  ASSUME TypeOK, NEW r \in Resources, ControlOK(r), pc[r] \in Requests, Accepts(pc[r]),
         NEW f \in Effects(pc[r])
  PROVE  /\ Move(f)
         /\ pc[r] = "stop" => RunOf(f) \in {Absent, "stopping", "stopped"}
         /\ pc[r] = "start" => RunOf(f) \in {"starting", "started"}
         /\ pc[r] \in {"put", "update"} => RunOf(f) = "stopped"
         /\ pc[r] = "remove" => f = Absent
  <1>1. /\ RunState \in RunStates \cup {Absent} /\ Absent \notin RunStates
        /\ Exists => feed \in Feed /\ RunState = feed.run /\ RunState # Absent
        /\ ~Exists => RunState = Absent
    BY RunStateType
  <1>2. pc[r] \in {"put", "update"} => config.feed \in Defs
    BY DEF ControlOK, TypeOK, Configs, Resources
  <1>3. CASE pc[r] = "put"
    <2>1. f = [run |-> "stopped", def |-> config.feed, searches |-> 0]
      BY <1>3 DEF Effects
    <2>2. f \in Feed /\ f.searches = 0 /\ f.run = "stopped"
      BY <1>2, <1>3, <2>1, DatafeedAssumption DEF Feed, RunStates
    <2> QED  BY <1>3, <2>2, FeedAssumption DEF Move, RunOf
  <1>4. CASE pc[r] = "stop"
    <2>1. CASE ~Running(RunState)
      <3>1. f = feed
        BY <1>4, <2>1 DEF Effects
      <3> QED  BY <1>1, <1>4, <2>1, <3>1 DEF Move, RunOf, Running, RunStates, Exists, Feed
    <2>2. CASE Running(RunState)
      <3>1. PICK s \in {"stopping", "stopped"} : f = [feed EXCEPT !.run = s]
        BY <1>4, <2>2 DEF Effects
      <3>2. Exists /\ feed \in Feed
        BY <1>1, <2>2, DatafeedAssumption DEF Running
      <3>3. f \in Feed /\ f.run = s /\ f.searches = feed.searches
        BY <3>1, <3>2 DEF Feed, RunStates
      <3> QED  BY <1>4, <3>2, <3>3 DEF Move, RunOf
    <2> QED  BY <2>1, <2>2
  <1>5. CASE pc[r] = "start"
    <2>1. RunState = "stopped"
      BY <1>5 DEF Accepts
    <2>2. PICK s \in {"starting", "started"} : f = [feed EXCEPT !.run = s]
      BY <1>5 DEF Effects
    <2>3. Exists /\ feed \in Feed
      BY <1>1, <2>1, DatafeedAssumption
    <2>4. f \in Feed /\ f.run = s /\ f.searches = feed.searches
      BY <2>2, <2>3 DEF Feed, RunStates
    <2> QED  BY <1>5, <2>3, <2>4, FeedAssumption DEF Move, RunOf
  <1>6. CASE pc[r] = "update"
    <2>1. RunState = "stopped"
      BY <1>6 DEF Accepts
    <2>2. f = [feed EXCEPT !.def = config.feed]
      BY <1>6 DEF Effects
    <2>3. Exists /\ feed \in Feed /\ feed.run = "stopped"
      BY <1>1, <2>1, DatafeedAssumption
    <2>4. f \in Feed /\ f.run = "stopped" /\ f.searches = feed.searches
      BY <1>2, <1>6, <2>2, <2>3 DEF Feed
    <2> QED  BY <1>6, <2>3, <2>4, FeedAssumption DEF Move, RunOf
  <1>7. CASE pc[r] = "remove"
    BY <1>7 DEF Effects, Move
  <1> QED  BY <1>3, <1>4, <1>5, <1>6, <1>7 DEF Requests

(***************************************************************************)
(* The resource that a step is not about.                                  *)
(***************************************************************************)

\* The call of q is where it was.
SameCall(q) ==
  /\ op'[q] = op[q] /\ pc'[q] = pc[q] /\ seen'[q] = seen[q] /\ goal'[q] = goal[q]
  /\ config'[q] = config[q] /\ (q = "state" => before' = before)

\* Nothing happened to the datafeed.
LEMMA BystanderSame ==
  ASSUME TypeOK, NEW q \in Resources, CallOK(q), SameCall(q),
         feed' = feed, foreign'[q] = foreign[q], q = "state" => ran' = ran
  PROVE  CallOK(q)'
  <1>1. RunState' = RunState /\ Exists' = Exists
    BY DEF RunState, Exists
  <1>2. ControlOK(q)'
    BY DEF CallOK, ControlOK, SameCall
  <1>3. AwaitOK(q)'
    BY <1>1 DEF CallOK, AwaitOK, SameCall
  <1>4. q = "feed" => WriteMeetsStopped' /\ RestartOK'
    BY <1>1 DEF CallOK, WriteMeetsStopped, At, RestartOK, SameCall
  <1>5. q = "state" => StateOK'
    BY <1>1 DEF CallOK, StateOK, SameCall
  <1> QED  BY <1>2, <1>3, <1>4, <1>5 DEF CallOK

\* Somebody else has moved it: that is on record for the rest of the call.
LEMMA BystanderForeign ==
  ASSUME TypeOK, NEW q \in Resources, CallOK(q), SameCall(q),
         NEW f, Move(f), NEW who, who # q, SetFeed(f, who)
  PROVE  CallOK(q)'
  <1>1. /\ feed' = f /\ foreign'[q] = (op[q] # "none" /\ (foreign[q] \/ q # who))
        /\ ran' = (op["state"] # "none" /\ (ran \/ (f # Absent /\ f.run = "started")))
    BY DEF SetFeed
  <1>2. op[q] # "none" => foreign'[q]
    BY <1>1
  <1>3. ControlOK(q)'
    BY DEF CallOK, ControlOK, SameCall
  <1>4. AwaitOK(q)'
    BY <1>2, <1>3 DEF AwaitOK, ControlOK, SameCall
  <1>5. q = "feed" => WriteMeetsStopped' /\ RestartOK'
    BY <1>2, <1>3 DEF WriteMeetsStopped, At, RestartOK, ControlOK, SameCall
  <1>6. q = "state" => StateOK'
    <2> SUFFICES ASSUME q = "state"
                 PROVE  StateOK'
      OBVIOUS
    <2>1. pc'["state"] = "missed" => foreign'["state"]
      BY <1>2, <1>3 DEF ControlOK, SameCall
    <2>2. pc'["state"] = "return" => foreign'["state"]
      BY <1>2, <1>3 DEF ControlOK, SameCall
    <2>3. ASSUME pc'["state"] \in {"stop", "start", "await", "missed", "readback", "return"}
          PROVE  (RunState' = "started" => ran') /\ ((Exists' /\ feed'.searches > before') => ran')
      <3>1. op["state"] # "none" /\ (ran => ran') /\ ((f # Absent /\ f.run = "started") => ran')
        BY <1>1, <2>3 DEF CallOK, ControlOK, SameCall
      <3>2. RunState' = "started" => ran'
        BY <1>1, <3>1, DatafeedAssumption DEF RunState, Exists
      <3>3. before' = before /\ before \in Nat /\ ((Exists /\ feed.searches > before) => ran)
        BY <2>3, DatafeedAssumption DEF CallOK, StateOK, SameCall, TypeOK
      <3>4. (Exists' /\ feed'.searches > before') => ran'
        BY <1>1, <3>1, <3>3 DEF Exists, Move
      <3> QED  BY <3>2, <3>4
    <2> QED  BY <2>1, <2>2, <2>3 DEF StateOK
  <1> QED  BY <1>3, <1>4, <1>5, <1>6 DEF CallOK

\* Elasticsearch ends what is starting or stopping.
LEMMA BystanderServer ==
  ASSUME TypeOK, NEW q \in Resources, CallOK(q), ServerMoves
  PROVE  CallOK(q)'
  <1>1. /\ UNCHANGED <<foreign, config, op, pc, seen, goal, before>>
        /\ RunState \in {"starting", "stopping"}
        /\ feed' = [feed EXCEPT !.run = IF @ = "starting" THEN "started" ELSE "stopped"]
        /\ ran' = (op["state"] # "none" /\ (ran \/ feed'.run = "started"))
    BY DEF ServerMoves, tfVars, callVars
  <1>2. Exists /\ feed \in Feed /\ RunState = feed.run
    BY <1>1, RunStateType, DatafeedAssumption
  <1>3. /\ feed' \in Feed /\ feed'.searches = feed.searches
        /\ feed'.run = IF RunState = "starting" THEN "started" ELSE "stopped"
    BY <1>1, <1>2 DEF Feed, RunStates
  <1>4. Exists' /\ RunState' = IF RunState = "starting" THEN "started" ELSE "stopped"
    BY <1>3, FeedAssumption DEF Exists, RunState
  <1>5. ControlOK(q)'
    BY <1>1 DEF CallOK, ControlOK
  <1>6. AwaitOK(q)'
    BY <1>1, <1>4, DatafeedAssumption DEF CallOK, AwaitOK
  <1>7. q = "feed" => WriteMeetsStopped' /\ RestartOK'
    BY <1>1, <1>4, DatafeedAssumption DEF CallOK, WriteMeetsStopped, At, RestartOK
  <1>8. q = "state" => StateOK'
    <2> SUFFICES ASSUME q = "state"
                 PROVE  StateOK'
      OBVIOUS
    <2>1. pc'["state"] = "missed" => foreign'["state"]
      BY <1>1 DEF CallOK, StateOK
    <2>2. ASSUME pc'["state"] \in {"stop", "start", "await", "missed", "readback", "return"}
          PROVE  (RunState' = "started" => ran') /\ ((Exists' /\ feed'.searches > before') => ran')
      <3>1. op["state"] # "none" /\ ((Exists /\ feed.searches > before) => ran)
        BY <1>1, <2>2 DEF CallOK, ControlOK, StateOK
      <3>2. (ran => ran') /\ (feed'.run = "started" => ran')
        BY <1>1, <3>1
      <3> QED  BY <1>1, <1>2, <1>3, <1>4, <3>1, <3>2
    <2>3. pc'["state"] = "return" => foreign'["state"] \/ seen'["state"] \in {"starting", "stopping"}
      BY <1>1, <1>2, DatafeedAssumption DEF CallOK, StateOK
    <2> QED  BY <2>1, <2>2, <2>3 DEF StateOK
  <1> QED  BY <1>5, <1>6, <1>7, <1>8 DEF CallOK

\* The datafeed searches, which it does only while it is started.
LEMMA BystanderSearch ==
  ASSUME TypeOK, NEW q \in Resources, CallOK(q), Search
  PROVE  CallOK(q)'
  <1>1. /\ UNCHANGED <<foreign, ran, config, op, pc, seen, goal, before>>
        /\ RunState = "started" /\ feed' = [feed EXCEPT !.searches = @ + 1] /\ feed.searches < MaxSearches
    BY DEF Search, tfVars, callVars
  <1>2. Exists /\ feed \in Feed /\ RunState = feed.run
    BY <1>1, RunStateType, DatafeedAssumption
  <1>3. feed' \in Feed /\ feed'.run = feed.run
    BY <1>1, <1>2, DatafeedAssumption DEF Feed
  <1>4. Exists' /\ RunState' = RunState
    BY <1>2, <1>3, FeedAssumption DEF Exists, RunState
  <1>5. ControlOK(q)'
    BY <1>1 DEF CallOK, ControlOK
  <1>6. AwaitOK(q)'
    BY <1>1, <1>4 DEF CallOK, AwaitOK
  <1>7. q = "feed" => WriteMeetsStopped' /\ RestartOK'
    BY <1>1, <1>4 DEF CallOK, WriteMeetsStopped, At, RestartOK
  <1>8. q = "state" => StateOK'
    BY <1>1, <1>4 DEF CallOK, StateOK
  <1> QED  BY <1>5, <1>6, <1>7, <1>8 DEF CallOK

\* A resource that is in no call.
LEMMA NoCallOK ==
  ASSUME NEW q \in Resources, op'[q] = "none", pc'[q] \in {"refresh", "planned", "done"}
  PROVE  CallOK(q)'
  <1>1. ControlOK(q)' /\ AwaitOK(q)'
    BY DEF ControlOK, AwaitOK, Resources
  <1>2. q = "feed" => WriteMeetsStopped' /\ RestartOK'
    BY DEF WriteMeetsStopped, At, RestartOK
  <1>3. q = "state" => StateOK'
    BY DEF StateOK
  <1> QED  BY <1>1, <1>2, <1>3 DEF CallOK

(***************************************************************************)
(* The steps.                                                              *)
(***************************************************************************)

\* Whoever moves the datafeed, types are kept.
LEMMA SetFeedType ==
  ASSUME TypeOK, NEW f, Move(f), NEW who, SetFeed(f, who)
  PROVE  feed' \in Feed \cup {Absent} /\ foreign' \in [Resources -> BOOLEAN] /\ ran' \in BOOLEAN
  <1>1. feed' \in Feed \cup {Absent}
    BY DEF Move, SetFeed
  <1>2. foreign' \in [Resources -> BOOLEAN]
    BY DEF SetFeed
  <1>3. ran' \in BOOLEAN
    <2> DEFINE b == op["state"] # "none" /\ (ran \/ (f # Absent /\ f.run = "started"))
    <2>1. ran' = b
      BY DEF SetFeed
    <2>2. b \in BOOLEAN
      OBVIOUS
    <2> HIDE DEF b
    <2> QED  BY <2>1, <2>2
  <1> QED  BY <1>1, <1>2, <1>3

\* What a step does to the datafeed on behalf of resource r, if anything.
Touch(r) == SameFeed \/ \E f : Move(f) /\ SetFeed(f, r)

LEMMA TouchType ==
  ASSUME TypeOK, NEW r \in Resources, Touch(r)
  PROVE  feed' \in Feed \cup {Absent} /\ foreign' \in [Resources -> BOOLEAN] /\ ran' \in BOOLEAN
  <1>1. CASE SameFeed
    BY <1>1 DEF SameFeed, TypeOK
  <1>2. ASSUME NEW f, Move(f), SetFeed(f, r)
        PROVE  feed' \in Feed \cup {Absent} /\ foreign' \in [Resources -> BOOLEAN] /\ ran' \in BOOLEAN
    BY <1>2, SetFeedType
  <1> QED  BY <1>1, <1>2 DEF Touch

LEMMA TouchBystander ==
  ASSUME TypeOK, NEW r \in Resources, Touch(r), NEW q \in Resources, q # r, CallOK(q), SameCall(q)
  PROVE  CallOK(q)'
  <1>1. CASE SameFeed
    BY <1>1, BystanderSame DEF SameFeed
  <1>2. ASSUME NEW f, Move(f), SetFeed(f, r)
        PROVE  CallOK(q)'
    BY <1>2, BystanderForeign
  <1> QED  BY <1>1, <1>2 DEF Touch

\* The end of a call.
LEMMA EndCallStep ==
  ASSUME FeedIInv, NEW r \in Resources, EndCall(r), Touch(r), UNCHANGED <<timed, config>>,
         saved' \in [Resources -> Defs \cup RunStates \cup {Absent}],
         UNCHANGED budget \/ Spend("faults", MaxFaults)
  PROVE  FeedIInv'
  <1>1. TypeOK
    BY DEF FeedIInv
  <1>2. /\ pc' = [pc EXCEPT ![r] = "done"] /\ op' = [op EXCEPT ![r] = "none"]
        /\ seen' = [seen EXCEPT ![r] = Absent] /\ goal' = [goal EXCEPT ![r] = Absent]
        /\ before' = IF r = "state" THEN 0 ELSE before
    BY DEF EndCall, Goto
  <1>3. /\ feed' \in Feed \cup {Absent} /\ foreign' \in [Resources -> BOOLEAN] /\ ran' \in BOOLEAN
        /\ budget' \in [faults : 0 .. MaxFaults, acts : 0 .. MaxActs, edits : 0 .. MaxEdits]
    BY <1>1, TouchType, SpendType
  <1>4. TypeOK'
    <2>1. /\ op' \in [Resources -> {"none", "create", "update", "delete"}] /\ pc' \in [Resources -> Labels]
          /\ seen' \in [Resources -> RunStates \cup {Absent}] /\ goal' \in [Resources -> TerminalStates \cup {Absent}]
      BY <1>1, <1>2 DEF TypeOK, Labels
    <2>2. before' \in 0 .. MaxSearches
      BY <1>1, <1>2, DatafeedAssumption DEF TypeOK
    <2> QED  BY <1>1, <1>3, <2>1, <2>2 DEF TypeOK
  <1>5. CallOK(r)'
    <2>1. op'[r] = "none" /\ pc'[r] = "done"
      BY <1>1, <1>2 DEF TypeOK
    <2> QED  BY <2>1, NoCallOK
  <1>6. ASSUME NEW q \in Resources, q # r
        PROVE  CallOK(q)'
    <2>1. SameCall(q)
      BY <1>1, <1>2, <1>6 DEF TypeOK, SameCall, Resources
    <2> QED  BY <1>1, <1>6, <2>1, TouchBystander DEF FeedIInv
  <1> QED  BY <1>4, <1>5, <1>6 DEF FeedIInv

\* Calls that end with error diagnostics; the last request may have had its effect.
LEMMA FailSteps ==
  ASSUME FeedIInv,
         \/ LookNotFound \/ MissedNotFound
         \/ \E r \in Resources : Refused(r) \/ AwaitNotFound(r) \/ CallFails(r)
  PROVE  FeedIInv'
  <1>1. TypeOK /\ "state" \in Resources
    BY DEF FeedIInv, Resources
  <1>2. CASE LookNotFound \/ MissedNotFound
    <2>1. /\ EndCall("state") /\ UNCHANGED saved /\ SameFeed /\ UNCHANGED <<timed, config, budget>>
      BY <1>2 DEF LookNotFound, MissedNotFound, Fail
    <2>2. Touch("state")
      BY <2>1 DEF Touch
    <2> QED  BY <1>1, <2>1, <2>2, EndCallStep DEF TypeOK
  <1>3. ASSUME NEW r \in Resources, Refused(r) \/ AwaitNotFound(r)
        PROVE  FeedIInv'
    <2>1. /\ EndCall(r) /\ UNCHANGED saved /\ SameFeed /\ UNCHANGED <<timed, config, budget>>
      BY <1>3 DEF Refused, AwaitNotFound, Fail
    <2>2. Touch(r)
      BY <2>1 DEF Touch
    <2> QED  BY <1>1, <2>1, <2>2, EndCallStep DEF TypeOK
  <1>4. ASSUME NEW r \in Resources, CallFails(r)
        PROVE  FeedIInv'
    <2>1. EndCall(r) /\ UNCHANGED <<saved, timed, config>> /\ Spend("faults", MaxFaults)
      BY <1>4 DEF CallFails, Fail
    <2>2. Touch(r)
      <3>1. CASE SameFeed
        BY <3>1 DEF Touch
      <3>2. CASE pc[r] \in Requests /\ Accepts(pc[r]) /\ \E f \in Effects(pc[r]) : SetFeed(f, r)
        <4>1. PICK f \in Effects(pc[r]) : SetFeed(f, r)
          BY <3>2
        <4>2. Move(f)
          BY <1>1, <3>2, EffectsMove DEF FeedIInv, CallOK
        <4> QED  BY <4>1, <4>2 DEF Touch
      <3> QED  BY <1>4, <3>1, <3>2 DEF CallFails
    <2> QED  BY <1>1, <2>1, <2>2, EndCallStep DEF TypeOK
  <1> QED  BY <1>2, <1>3, <1>4

\* Calls that end with a value for the state file.
LEMMA FinishSteps ==
  ASSUME FeedIInv, MissedTransition \/ \E r \in Resources : ReadBack(r) \/ Return(r)
  PROVE  FeedIInv'
  <1>1. TypeOK /\ "state" \in Resources
    BY DEF FeedIInv, Resources
  <1>2. ASSUME NEW r \in Resources, NEW v \in Defs \cup RunStates \cup {Absent}, Finish(r, v) \/ Fail(r), SameFeed,
               UNCHANGED <<timed, config, budget>>
        PROVE  FeedIInv'
    <2>1. EndCall(r) /\ saved' \in [Resources -> Defs \cup RunStates \cup {Absent}]
      BY <1>1, <1>2 DEF Finish, Fail, TypeOK
    <2>2. Touch(r)
      BY <1>2 DEF Touch
    <2> QED  BY <1>2, <2>1, <2>2, EndCallStep
  <1>3. CASE MissedTransition
    <2>1. config.state \in Defs \cup RunStates \cup {Absent}
      BY <1>1 DEF TypeOK, Configs, TerminalStates, RunStates
    <2>2. Finish("state", config.state) \/ Fail("state")
      BY <1>3 DEF MissedTransition
    <2>3. SameFeed /\ UNCHANGED <<timed, config, budget>>
      BY <1>3 DEF MissedTransition
    <2> QED  BY <1>1, <1>2, <2>1, <2>2, <2>3
  <1>4. ASSUME NEW r \in Resources, ReadBack(r)
        PROVE  FeedIInv'
    <2> DEFINE v == IF Exists THEN (IF r = "feed" THEN feed.def ELSE feed.run) ELSE Absent
    <2>1. v \in Defs \cup RunStates \cup {Absent}
      BY <1>1, RunStateType DEF Feed
    <2>2. Finish(r, v) \/ Fail(r)
      BY <1>4 DEF ReadBack
    <2>3. SameFeed /\ UNCHANGED <<timed, config, budget>>
      BY <1>4 DEF ReadBack
    <2> HIDE DEF v
    <2> QED  BY <1>2, <2>1, <2>2, <2>3
  <1>5. ASSUME NEW r \in Resources, Return(r)
        PROVE  FeedIInv'
    <2>1. Finish(r, Absent) /\ SameFeed /\ UNCHANGED <<timed, config, budget>>
      BY <1>5 DEF Return
    <2> QED  BY <1>2, <2>1
  <1> QED  BY <1>3, <1>4, <1>5

\* The refresh of a resource.
LEMMA ReadStep ==
  ASSUME FeedIInv, NEW r \in Resources, Read(r)
  PROVE  FeedIInv'
  <1>1. TypeOK /\ CallOK(r)
    BY DEF FeedIInv
  <1> DEFINE v == IF saved[r] = Absent \/ ~Exists THEN Absent
                  ELSE IF r = "feed" THEN feed.def ELSE feed.run
  <1>2. v \in Defs \cup RunStates \cup {Absent}
    BY <1>1, RunStateType DEF Feed
  <1>3. /\ pc[r] = "refresh" /\ pc' = [pc EXCEPT ![r] = "planned"] /\ saved' = [saved EXCEPT ![r] = v]
        /\ UNCHANGED <<feed, foreign, ran, timed, config, op, seen, goal, before, budget>>
    BY DEF Read, At, Goto, SameFeed
  <1> HIDE DEF v
  <1>4. TypeOK'
    <2>1. pc' \in [Resources -> Labels] /\ saved' \in [Resources -> Defs \cup RunStates \cup {Absent}]
      BY <1>1, <1>2, <1>3 DEF TypeOK, Labels
    <2> QED  BY <1>1, <1>3, <2>1 DEF TypeOK
  <1>5. CallOK(r)'
    <2>1. op'[r] = "none" /\ pc'[r] = "planned"
      BY <1>1, <1>3 DEF TypeOK, CallOK, ControlOK
    <2> QED  BY <2>1, NoCallOK
  <1>6. ASSUME NEW q \in Resources, q # r
        PROVE  CallOK(q)'
    <2>1. SameCall(q)
      BY <1>1, <1>3, <1>6 DEF TypeOK, SameCall
    <2> QED  BY <1>1, <1>3, <1>6, <2>1, BystanderSame DEF FeedIInv
  <1> QED  BY <1>4, <1>5, <1>6 DEF FeedIInv

\* A call begins with the operation that was planned.
LEMMA BeginStep ==
  ASSUME FeedIInv, NEW r \in Resources, Begin(r)
  PROVE  FeedIInv'
  <1>1. TypeOK /\ CallOK(r)
    BY DEF FeedIInv
  <1> DEFINE label == CASE PlannedOp(r) = "none" -> "done"
                        [] PlannedOp(r) = "create" /\ r = "feed" -> "put"
                        [] OTHER -> "look"
  <1>2. /\ pc' = [pc EXCEPT ![r] = label] /\ op' = [op EXCEPT ![r] = PlannedOp(r)]
        /\ foreign' = [foreign EXCEPT ![r] = FALSE]
        /\ UNCHANGED <<feed, ran, timed, config, saved, seen, goal, before, budget>>
    BY DEF Begin, Goto, tfVars
  <1>3. /\ PlannedOp(r) \in {"none", "create", "update", "delete"}
        /\ PlannedOp(r) \in {"create", "update"} => config[r] # Absent
    BY DEF PlannedOp
  <1>4. /\ label \in {"done", "put", "look"} /\ (label = "done" <=> PlannedOp(r) = "none")
        /\ label = "put" <=> PlannedOp(r) = "create" /\ r = "feed"
    BY <1>3
  <1> HIDE DEF label
  <1>5. op'[r] = PlannedOp(r) /\ pc'[r] = label
    BY <1>1, <1>2 DEF TypeOK
  <1>6. TypeOK'
    <2>1. /\ pc' \in [Resources -> Labels] /\ op' \in [Resources -> {"none", "create", "update", "delete"}]
          /\ foreign' \in [Resources -> BOOLEAN]
      BY <1>1, <1>2, <1>3, <1>4 DEF TypeOK, Labels, Requests
    <2> QED  BY <1>1, <1>2, <2>1 DEF TypeOK
  <1>7. CallOK(r)'
    <2>1. ControlOK(r)'
      BY <1>2, <1>3, <1>4, <1>5 DEF ControlOK
    <2>2. AwaitOK(r)'
      BY <1>4, <1>5 DEF AwaitOK
    <2>3. r = "feed" => WriteMeetsStopped' /\ RestartOK'
      BY <1>4, <1>5 DEF WriteMeetsStopped, At, RestartOK
    <2>4. r = "state" => StateOK'
      BY <1>4, <1>5 DEF StateOK
    <2> QED  BY <2>1, <2>2, <2>3, <2>4 DEF CallOK
  <1>8. ASSUME NEW q \in Resources, q # r
        PROVE  CallOK(q)'
    <2>1. SameCall(q) /\ foreign'[q] = foreign[q]
      BY <1>1, <1>2, <1>8 DEF TypeOK, SameCall
    <2> QED  BY <1>1, <1>2, <1>8, <2>1, BystanderSame DEF FeedIInv
  <1> QED  BY <1>6, <1>7, <1>8 DEF FeedIInv

\* The call looks at the datafeed and decides whether it has to be stopped.
LEMMA LookStep ==
  ASSUME FeedIInv, NEW r \in Resources, Look(r)
  PROVE  FeedIInv'
  <1>1. TypeOK /\ CallOK(r) /\ ControlOK(r) /\ r \in {"feed", "state"}
    BY DEF FeedIInv, CallOK, Resources
  <1>2. /\ pc[r] = "look" /\ pc' = [pc EXCEPT ![r] = AfterLook(r)] /\ seen' = [seen EXCEPT ![r] = RunState]
        /\ UNCHANGED <<feed, foreign, timed, config, saved, op, goal, budget>>
        /\ r # "state" => UNCHANGED <<before, ran>>
        /\ r = "state" => before' = (IF Exists THEN feed.searches ELSE 0) /\ ran' = (RunState = "started")
    BY DEF Look, At, Goto, tfVars
  <1>3. /\ RunState \in RunStates \cup {Absent} /\ (Exists => feed \in Feed)
        /\ RunState' = RunState /\ Exists' = Exists
    BY <1>1, <1>2, RunStateType DEF RunState, Exists
  <1>4. op[r] \in {"create", "update", "delete"} /\ (r = "feed" => op[r] \in {"update", "delete"})
    BY <1>1, <1>2 DEF ControlOK, TypeOK
  <1>5. /\ r = "feed" => AfterLook(r) = IF Running(RunState) THEN "stop"
                                        ELSE IF op[r] = "update" THEN "update" ELSE "remove"
        /\ (r = "state" /\ op[r] = "delete") => AfterLook(r) = IF RunState = "started" THEN "stop" ELSE "return"
        /\ (r = "state" /\ op[r] # "delete") => AfterLook(r) \in {"readback", "start", "stop"}
    BY DEF AfterLook, Proceed
  <1>6. AfterLook(r) \in Labels
    BY <1>1, <1>5 DEF Labels, Requests
  <1>7. pc'[r] = AfterLook(r) /\ seen'[r] = RunState
    BY <1>1, <1>2 DEF TypeOK
  <1>8. TypeOK'
    <2>1. pc' \in [Resources -> Labels] /\ seen' \in [Resources -> RunStates \cup {Absent}]
      BY <1>1, <1>2, <1>3, <1>6 DEF TypeOK
    <2>2. before' \in 0 .. MaxSearches
      BY <1>1, <1>2, <1>3, DatafeedAssumption DEF TypeOK, Feed
    <2>3. ran' \in BOOLEAN
      <3> DEFINE b == RunState = "started"
      <3>1. b \in BOOLEAN /\ ran' \in {ran, b}
        BY <1>1, <1>2
      <3> HIDE DEF b
      <3> QED  BY <1>1, <3>1 DEF TypeOK
    <2> QED  BY <1>1, <1>2, <2>1, <2>2, <2>3 DEF TypeOK
  <1>9. CallOK(r)'
    <2>1. ControlOK(r)'
      BY <1>1, <1>2, <1>4, <1>5, <1>7 DEF ControlOK
    <2>2. AwaitOK(r)'
      BY <1>1, <1>4, <1>5, <1>7 DEF AwaitOK
    <2>3. r = "feed" => WriteMeetsStopped' /\ RestartOK'
      BY <1>3, <1>4, <1>5, <1>7 DEF WriteMeetsStopped, At, RestartOK, Running, RunStates
    <2>4. r = "state" => StateOK'
      <3> SUFFICES ASSUME r = "state"
                   PROVE  StateOK'
        OBVIOUS
      <3>1. pc'["state"] # "missed"
        BY <1>4, <1>5, <1>7
      <3>2. (RunState' = "started" => ran') /\ ~(Exists' /\ feed'.searches > before')
        <4>1. RunState = "started" => ran'
          BY <1>2
        <4>2. Exists => feed'.searches = before' /\ before' \in Int
          BY <1>2, <1>3 DEF Feed
        <4> QED  BY <1>3, <4>1, <4>2
      <3>3. pc'["state"] = "return" =>
              RunState' \in {Absent, "stopped"} \/ seen'["state"] \in {"starting", "stopping"}
        BY <1>3, <1>4, <1>5, <1>7 DEF RunStates
      <3> QED  BY <3>1, <3>2, <3>3 DEF StateOK
    <2> QED  BY <2>1, <2>2, <2>3, <2>4 DEF CallOK
  <1>10. ASSUME NEW q \in Resources, q # r
         PROVE  CallOK(q)'
    <2>1. SameCall(q) /\ (q = "state" => ran' = ran)
      BY <1>1, <1>2, <1>10 DEF TypeOK, SameCall
    <2> QED  BY <1>1, <1>2, <1>10, <2>1, BystanderSame DEF FeedIInv
  <1> QED  BY <1>8, <1>9, <1>10 DEF FeedIInv

\* A request is accepted and takes effect.
LEMMA RequestStep ==
  ASSUME FeedIInv, NEW r \in Resources, Request(r)
  PROVE  FeedIInv'
  <1>1. TypeOK /\ CallOK(r) /\ ControlOK(r) /\ r \in {"feed", "state"}
    BY DEF FeedIInv, CallOK, Resources
  <1> DEFINE g == IF pc[r] = "stop" THEN "stopped" ELSE IF pc[r] = "start" THEN "started" ELSE goal[r]
  <1>2. PICK f \in Effects(pc[r]) : SetFeed(f, r)
    BY DEF Request
  <1>3. /\ pc[r] \in Requests /\ Accepts(pc[r])
        /\ pc' = [pc EXCEPT ![r] = AfterRequest(r)] /\ goal' = [goal EXCEPT ![r] = g]
        /\ UNCHANGED <<timed, config, saved, op, seen, before, budget>>
    BY <1>1 DEF Request, Goto, tfVars, TypeOK
  <1>4. /\ Move(f)
        /\ pc[r] = "stop" => RunOf(f) \in {Absent, "stopping", "stopped"}
        /\ pc[r] = "start" => RunOf(f) \in {"starting", "started"}
    BY <1>1, <1>3, EffectsMove
  <1>5. Touch(r) /\ feed' = f /\ RunState' = RunOf(f)
    BY <1>2, <1>4 DEF Touch, SetFeed, RunState, Exists, RunOf
  <1>6. /\ pc[r] \in {"stop", "start"} => AfterRequest(r) = "await"
        /\ pc[r] = "remove" => AfterRequest(r) = "return"
        /\ pc[r] = "put" => AfterRequest(r) = "readback"
        /\ pc[r] = "update" => AfterRequest(r) = IF Running(seen["feed"]) THEN "start" ELSE "readback"
    BY DEF AfterRequest
  <1>7. AfterRequest(r) \in Labels /\ g \in TerminalStates \cup {Absent}
    BY <1>1, <1>3, <1>6 DEF Labels, Requests, TypeOK, TerminalStates
  <1>8. pc'[r] = AfterRequest(r) /\ goal'[r] = g
    BY <1>1, <1>3 DEF TypeOK
  <1>9. TypeOK'
    <2>1. pc' \in [Resources -> Labels] /\ goal' \in [Resources -> TerminalStates \cup {Absent}]
      BY <1>1, <1>3, <1>7 DEF TypeOK
    <2>2. feed' \in Feed \cup {Absent} /\ foreign' \in [Resources -> BOOLEAN] /\ ran' \in BOOLEAN
      BY <1>1, <1>5, TouchType
    <2> QED  BY <1>1, <1>3, <2>1, <2>2 DEF TypeOK
  <1>10. CallOK(r)'
    <2>1. ControlOK(r)'
      BY <1>1, <1>3, <1>6, <1>8 DEF ControlOK, Requests, TerminalStates
    <2>2. AwaitOK(r)'
      BY <1>3, <1>4, <1>5, <1>6, <1>8 DEF AwaitOK, Requests
    <2>3. r = "feed" => WriteMeetsStopped' /\ RestartOK'
      BY <1>1, <1>3, <1>6, <1>8 DEF WriteMeetsStopped, At, RestartOK, Requests, ControlOK
    <2>4. r = "state" => StateOK'
      <3> SUFFICES ASSUME r = "state"
                   PROVE  StateOK'
        OBVIOUS
      <3>1. pc["state"] \in {"stop", "start"} /\ pc'["state"] = "await" /\ op["state"] # "none"
        BY <1>1, <1>3, <1>6, <1>8 DEF ControlOK, Requests
      <3>2. ran' = (op["state"] # "none" /\ (ran \/ (f # Absent /\ f.run = "started")))
        BY <1>2 DEF SetFeed
      <3>3. (ran => ran') /\ ((f # Absent /\ f.run = "started") => ran')
        BY <3>1, <3>2
      <3>4. RunState' = "started" => ran'
        BY <1>5, <3>3, DatafeedAssumption DEF RunOf
      <3>5. before' = before /\ before \in Nat /\ ((Exists /\ feed.searches > before) => ran)
        BY <1>1, <1>3, <3>1, DatafeedAssumption DEF CallOK, StateOK, TypeOK
      <3>6. (Exists' /\ feed'.searches > before') => ran'
        BY <1>4, <1>5, <3>3, <3>5 DEF Exists, Move
      <3> QED  BY <3>1, <3>4, <3>6 DEF StateOK
    <2> QED  BY <2>1, <2>2, <2>3, <2>4 DEF CallOK
  <1>11. ASSUME NEW q \in Resources, q # r
         PROVE  CallOK(q)'
    <2>1. SameCall(q)
      BY <1>1, <1>3, <1>11 DEF TypeOK, SameCall
    <2> QED  BY <1>1, <1>5, <1>11, <2>1, TouchBystander DEF FeedIInv
  <1> QED  BY <1>9, <1>10, <1>11 DEF FeedIInv

\* The datafeed has settled in the wanted state, or in the other one.
LEMMA AwaitStep ==
  ASSUME FeedIInv, NEW r \in Resources, Await(r)
  PROVE  FeedIInv'
  <1>1. TypeOK /\ CallOK(r) /\ ControlOK(r) /\ AwaitOK(r) /\ r \in {"feed", "state"}
    BY DEF FeedIInv, CallOK, Resources
  <1> DEFINE label == AfterAwait(r, RunState = goal[r])
  <1>2. /\ pc[r] = "await" /\ RunState \in TerminalStates /\ pc' = [pc EXCEPT ![r] = label]
        /\ UNCHANGED <<feed, foreign, ran, timed, config, saved, op, seen, goal, before, budget>>
    BY DEF Await, At, Goto, SameFeed, tfVars
  <1>3. RunState' = RunState /\ Exists' = Exists
    BY <1>2 DEF RunState, Exists
  <1>4. /\ goal[r] \in {"stopped", "started"} /\ op[r] \in {"create", "update", "delete"}
        /\ r = "feed" => op[r] \in {"update", "delete"}
    BY <1>1, <1>2 DEF ControlOK, TypeOK, TerminalStates
  <1>5. ~foreign[r] => RunState = goal[r]
    BY <1>1, <1>2, <1>4, DatafeedAssumption DEF AwaitOK, TerminalStates
  <1>6. /\ r = "feed" => label = IF goal[r] = "started" THEN "readback"
                                 ELSE IF op[r] = "update" THEN "update" ELSE "remove"
        /\ (r = "state" /\ op[r] = "delete") => label = "return"
        /\ (r = "state" /\ op[r] # "delete") => label = IF RunState = goal[r] THEN "readback" ELSE "missed"
    BY <1>4 DEF AfterAwait, Proceed
  <1> HIDE DEF label
  <1>7. label \in Labels /\ pc'[r] = label
    BY <1>1, <1>2, <1>6 DEF Labels, Requests, TypeOK
  <1>8. TypeOK'
    <2>1. pc' \in [Resources -> Labels]
      BY <1>1, <1>2, <1>7 DEF TypeOK
    <2> QED  BY <1>1, <1>2, <2>1 DEF TypeOK
  <1>9. CallOK(r)'
    <2>1. ControlOK(r)'
      BY <1>1, <1>2, <1>4, <1>6, <1>7 DEF ControlOK
    <2>2. AwaitOK(r)'
      BY <1>1, <1>4, <1>6, <1>7 DEF AwaitOK
    <2>3. r = "feed" => WriteMeetsStopped' /\ RestartOK'
      BY <1>2, <1>3, <1>4, <1>5, <1>6, <1>7 DEF WriteMeetsStopped, At, RestartOK
    <2>4. r = "state" => StateOK'
      <3> SUFFICES ASSUME r = "state"
                   PROVE  StateOK'
        OBVIOUS
      <3>1. pc'["state"] = "missed" => foreign'["state"]
        BY <1>2, <1>4, <1>5, <1>6, <1>7
      <3>2. (RunState = "started" => ran) /\ ((Exists /\ feed.searches > before) => ran)
        BY <1>1, <1>2 DEF CallOK, StateOK
      <3>3. pc'["state"] = "return" => RunState' = "stopped" \/ foreign'["state"]
        BY <1>1, <1>2, <1>3, <1>5, <1>6, <1>7 DEF ControlOK
      <3> QED  BY <1>2, <1>3, <3>1, <3>2, <3>3 DEF StateOK
    <2> QED  BY <2>1, <2>2, <2>3, <2>4 DEF CallOK
  <1>10. ASSUME NEW q \in Resources, q # r
         PROVE  CallOK(q)'
    <2>1. SameCall(q)
      BY <1>1, <1>2, <1>10 DEF TypeOK, SameCall
    <2> QED  BY <1>1, <1>2, <1>10, <2>1, BystanderSame DEF FeedIInv
  <1> QED  BY <1>8, <1>9, <1>10 DEF FeedIInv

\* A run begins, or the configuration is edited, while no call is in progress.
LEMMA IdleSteps ==
  ASSUME FeedIInv, NewRun \/ EditConfig
  PROVE  FeedIInv'
  <1>1. TypeOK /\ \A r \in Resources : ControlOK(r)
    BY DEF FeedIInv, CallOK
  <1>2. /\ \A r \in Resources : pc[r] = "done"
        /\ UNCHANGED <<feed, foreign, ran, timed, saved, op, seen, goal, before>>
        /\ UNCHANGED budget \/ Spend("edits", MaxEdits)
        /\ config' \in Configs
        /\ pc' = pc \/ pc' = [r \in Resources |-> "refresh"]
    BY <1>1 DEF NewRun, EditConfig, At, SameFeed, tfVars, callVars, TypeOK
  <1>3. TypeOK'
    <2>1. pc' \in [Resources -> Labels]
      BY <1>1, <1>2 DEF TypeOK, Labels
    <2> QED  BY <1>1, <1>2, <2>1, SpendType DEF TypeOK
  <1>4. ASSUME NEW r \in Resources
        PROVE  CallOK(r)'
    <2>1. op'[r] = "none" /\ pc'[r] \in {"refresh", "done"}
      BY <1>1, <1>2 DEF ControlOK
    <2> QED  BY <2>1, NoCallOK
  <1> QED  BY <1>3, <1>4 DEF FeedIInv

\* Elasticsearch and other clients.
LEMMA EnvironmentSteps ==
  ASSUME FeedIInv, ServerMoves \/ Search \/ Interferes
  PROVE  FeedIInv'
  <1>1. TypeOK /\ \A r \in Resources : CallOK(r)
    BY DEF FeedIInv
  <1>2. /\ RunState \in RunStates \cup {Absent} /\ Absent \notin RunStates
        /\ Exists => feed \in Feed /\ RunState = feed.run /\ RunState # Absent
        /\ ~Exists => RunState = Absent
    BY <1>1, RunStateType
  <1>3. UNCHANGED <<timed, config, saved, op, pc, seen, goal, before>>
    BY DEF ServerMoves, Search, Interferes, tfVars, callVars
  <1>4. CASE ServerMoves
    <2>1. /\ feed' = [feed EXCEPT !.run = IF @ = "starting" THEN "started" ELSE "stopped"]
          /\ ran' = (op["state"] # "none" /\ (ran \/ feed'.run = "started"))
          /\ RunState \in {"starting", "stopping"} /\ UNCHANGED <<foreign, budget>>
      BY <1>4 DEF ServerMoves
    <2>2. feed' \in Feed
      BY <1>2, <2>1 DEF Feed, RunStates
    <2>3. ran' \in BOOLEAN
      <3> DEFINE b == op["state"] # "none" /\ (ran \/ feed'.run = "started")
      <3>1. b \in BOOLEAN /\ ran' = b
        BY <2>1
      <3> HIDE DEF b
      <3> QED  BY <3>1
    <2>4. TypeOK'
      BY <1>1, <1>3, <2>1, <2>2, <2>3 DEF TypeOK
    <2> QED  BY <1>1, <1>4, <2>4, BystanderServer DEF FeedIInv
  <1>5. CASE Search
    <2>1. /\ feed' = [feed EXCEPT !.searches = @ + 1] /\ feed.searches < MaxSearches
          /\ RunState = "started" /\ UNCHANGED <<foreign, ran, budget>>
      BY <1>5 DEF Search
    <2>2. feed' \in Feed
      BY <1>2, <2>1, DatafeedAssumption DEF Feed, RunStates
    <2>3. TypeOK'
      BY <1>1, <1>3, <2>1, <2>2 DEF TypeOK
    <2> QED  BY <1>1, <1>5, <2>3, BystanderSearch DEF FeedIInv
  <1>6. CASE Interferes
    <2>1. Exists /\ feed \in Feed /\ Spend("acts", MaxActs)
      BY <1>2, <1>6 DEF Interferes
    <2>2. PICK f : SetFeed(f, "another") /\ (f = Absent \/ \E s \in RunStates : f = [feed EXCEPT !.run = s])
      BY <1>6 DEF Interferes, RunStates
    <2>3. Move(f)
      BY <2>1, <2>2 DEF Move, Feed
    <2>4. feed' \in Feed \cup {Absent} /\ foreign' \in [Resources -> BOOLEAN] /\ ran' \in BOOLEAN
      BY <1>1, <2>2, <2>3, SetFeedType
    <2>5. TypeOK'
      BY <1>1, <1>3, <2>1, <2>4, SpendType DEF TypeOK
    <2>6. ASSUME NEW q \in Resources
          PROVE  CallOK(q)'
      <3>1. SameCall(q) /\ q # "another"
        BY <1>3 DEF SameCall, Resources
      <3> QED  BY <1>1, <2>2, <2>3, <3>1, BystanderForeign
    <2> QED  BY <2>5, <2>6 DEF FeedIInv
  <1> QED  BY <1>4, <1>5, <1>6

(***************************************************************************)
(* The theorems.                                                           *)
(***************************************************************************)

LEMMA FeedInit ==
  ASSUME Init
  PROVE  FeedIInv
  <1>1. TypeOK
    <2>1. config \in Configs
      BY DEF Init
    <2>2. budget \in [faults : 0 .. MaxFaults, acts : 0 .. MaxActs, edits : 0 .. MaxEdits] /\ before \in 0 .. MaxSearches
      BY DatafeedAssumption DEF Init
    <2> QED  BY <2>1, <2>2 DEF Init, TypeOK, Labels
  <1>2. ASSUME NEW q \in Resources
        PROVE  CallOK(q)
    <2>1. op[q] = "none" /\ pc[q] = "done"
      BY DEF Init
    <2>2. ControlOK(q) /\ AwaitOK(q)
      BY <2>1 DEF ControlOK, AwaitOK
    <2>3. q = "feed" => WriteMeetsStopped /\ RestartOK
      BY <2>1 DEF WriteMeetsStopped, At, RestartOK
    <2>4. q = "state" => StateOK
      BY <2>1 DEF StateOK
    <2> QED  BY <2>2, <2>3, <2>4 DEF CallOK
  <1> QED  BY <1>1, <1>2 DEF FeedIInv

LEMMA FeedStep ==
  ASSUME FeedIInv, [Next]_vars
  PROVE  FeedIInv'
  <1>1. CASE UNCHANGED vars
    <2>1. UNCHANGED <<feed, foreign, ran, timed, config, saved, op, pc, seen, goal, before, budget>>
      BY <1>1 DEF vars, tfVars, callVars
    <2>2. TypeOK'
      BY <2>1 DEF FeedIInv, TypeOK
    <2>3. ASSUME NEW q \in Resources
          PROVE  CallOK(q)'
      <3>1. SameCall(q)
        BY <2>1 DEF SameCall
      <3> QED  BY <2>1, <3>1, BystanderSame DEF FeedIInv
    <2> QED  BY <2>2, <2>3 DEF FeedIInv
  <1>2. CASE Provider
    BY <1>2, IdleSteps, FailSteps, FinishSteps, ReadStep, BeginStep, LookStep, RequestStep, AwaitStep DEF Provider
  <1> QED  BY <1>1, <1>2, EnvironmentSteps, IdleSteps, FailSteps DEF Next

\* The inductive invariant holds in every state of every behaviour.
THEOREM FeedIInvariant == Spec => []FeedIInv
  <1>1. Init => FeedIInv
    BY FeedInit
  <1>2. FeedIInv /\ [Next]_vars => FeedIInv'
    BY FeedStep
  <1> QED  BY <1>1, <1>2, PTL DEF Spec

\* maybeStopDatafeed works: the update or delete that follows it meets a stopped
\* datafeed, unless somebody else moved it or it was found stopping.
THEOREM WritesMeetStopped == Spec => []FeedInv
  <1>1. FeedIInv => FeedInv
    BY DEF FeedIInv, FeedInv, CallOK, Resources
  <1> QED  BY <1>1, FeedIInvariant, PTL

\* An update that found the datafeed running has started it again by the time it
\* saves its result.
THEOREM UpdatesKeepRunning == Spec => UpdateKeepsRunning
  <1> DEFINE Keeps == (op["feed"] = "update" /\ At("feed", "readback") /\ saved' # saved /\ Running(seen["feed"]))
                        => RunState = "started" \/ foreign["feed"]
  <1>1. FeedIInv => Keeps
    BY DEF FeedIInv, CallOK, RestartOK, At, Resources
  <1>2. FeedIInv /\ [Next]_vars => [Keeps]_vars
    BY <1>1
  <1> QED  BY <1>2, FeedIInvariant, PTL DEF Spec, UpdateKeepsRunning

\* The steps that change what is saved for the state resource, and to what.
LEMMA StateSaves ==
  ASSUME FeedIInv, Next, saved'["state"] # saved["state"]
  PROVE  \/ pc["state"] = "refresh"
         \/ pc["state"] = "readback" /\ Exists /\ saved'["state"] = feed.run
         \/ pc["state"] = "return"
         \/ pc["state"] = "missed" /\ Exists /\ (timed => feed.searches > before)
  <1>1. TypeOK /\ saved \in [Resources -> Defs \cup RunStates \cup {Absent}] /\ Resources = {"feed", "state"}
    BY DEF FeedIInv, TypeOK, Resources
  <1>2. ASSUME NEW r \in Resources, NEW v, saved' = [saved EXCEPT ![r] = v]
        PROVE  r = "state" /\ saved'["state"] = v
    BY <1>1, <1>2
  <1>3. CASE UNCHANGED saved
    BY <1>3
  <1>4. ASSUME NEW r \in Resources, Read(r)
        PROVE  pc["state"] = "refresh"
    BY <1>2, <1>4 DEF Read, At
  <1>5. ASSUME NEW r \in Resources, ReadBack(r)
        PROVE  pc["state"] = "readback" /\ Exists /\ saved'["state"] = feed.run
    <2>1. Exists /\ Finish(r, IF r = "feed" THEN feed.def ELSE feed.run) /\ pc[r] = "readback"
      BY <1>5 DEF ReadBack, Fail, At
    <2> QED  BY <1>2, <2>1 DEF Finish
  <1>6. ASSUME NEW r \in Resources, Return(r)
        PROVE  pc["state"] = "return"
    BY <1>2, <1>6 DEF Return, At, Finish
  <1>7. CASE MissedTransition
    <2>1. pc["state"] = "missed" /\ Exists /\ ~(timed /\ feed.searches <= before)
      BY <1>7 DEF MissedTransition, At, Fail
    <2>2. feed.searches \in Int /\ before \in Int
      BY <1>1, <2>1, RunStateType, DatafeedAssumption DEF TypeOK, Feed
    <2> QED  BY <2>1, <2>2
  <1> QED
    BY <1>3, <1>4, <1>5, <1>6, <1>7
    DEF Next, Provider, NewRun, LookNotFound, MissedNotFound, Begin, Look, Request, Refused, Await, AwaitNotFound,
        ServerMoves, Search, Interferes, EditConfig, CallFails, Fail, tfVars

\* What ml_datafeed_state saves after a write is the state of the datafeed, a start
\* that it saves unseen did happen, and its destroy leaves the datafeed stopped,
\* but for what others did during the call.
THEOREM StateTellsTruth == Spec => StateIsTruthful
  <1> DEFINE Real == (op["state"] \in {"create", "update"} /\ saved'["state"] # saved["state"])
                       => saved'["state"] = RunState \/ foreign["state"]
             DidRun == (At("state", "missed") /\ config.state = "started" /\ saved'["state"] # saved["state"])
                         => ran \/ ~timed
             Stops == (op["state"] = "delete" /\ saved["state"] # Absent /\ saved'["state"] = Absent)
                        => \/ RunState \in {Absent, "stopped"} \/ foreign["state"]
                           \/ seen["state"] \in {"starting", "stopping"}
  <1>1. ASSUME FeedIInv, Next
        PROVE  Real /\ DidRun /\ Stops
    <2>1. /\ ControlOK("state") /\ StateOK /\ TypeOK
      BY <1>1 DEF FeedIInv, CallOK, Resources
    <2>2. Exists => RunState = feed.run /\ RunState # Absent
      BY <2>1, RunStateType
    <2>3. Real
      BY <1>1, <2>1, <2>2, StateSaves DEF ControlOK, StateOK
    <2>4. DidRun
      BY <1>1, <2>1, StateSaves DEF StateOK, At
    <2>5. Stops
      BY <1>1, <2>1, <2>2, StateSaves DEF ControlOK, StateOK
    <2> QED  BY <2>3, <2>4, <2>5
  <1>2. FeedIInv /\ [Next]_vars => [Real]_vars /\ [DidRun]_vars /\ [Stops]_vars
    BY <1>1
  <1>3. Spec => SavedStateIsReal
    BY <1>2, FeedIInvariant, PTL DEF Spec, SavedStateIsReal
  <1>4. Spec => MissedStartDidRun
    BY <1>2, FeedIInvariant, PTL DEF Spec, MissedStartDidRun
  <1>5. Spec => DestroyStops
    BY <1>2, FeedIInvariant, PTL DEF Spec, DestroyStops
  <1> QED  BY <1>3, <1>4, <1>5 DEF StateIsTruthful
=============================================================================
