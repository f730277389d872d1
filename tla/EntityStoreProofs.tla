------------------------- MODULE EntityStoreProofs -------------------------
(***************************************************************************)
(* Proofs, for every set of entity types and log settings and any number   *)
(* of server errors, edits and acts of other clients, of the safety        *)
(* properties of the entity store resource: an update loses no engine, and *)
(* what is saved or dropped is true of the store.                          *)
(***************************************************************************)
EXTENDS EntityStore, SequenceTheorems, TLAPS

(***************************************************************************)
(* The inductive invariant: what the operations that are still to be       *)
(* executed say about the call, and which engines must be there.           *)
(***************************************************************************)

\* The operation x is still to be executed.
Pending(s, x) == \E i \in 1 .. Len(s) : s[i] = x

\* The read ends its call.
ReadIsLast(s) == \A i \in 1 .. Len(s) : s[i] = "read" => i = Len(s)

CallInv ==
  /\ op \in {"read", "update", "delete"} => tfstate # NoState
  /\ op \in {"create", "update"} => config # NoConfig

OpsInv ==
  /\ ReadIsLast(ops)
  /\ Pending(ops, "log") \/ Pending(ops, "install") => op \in {"create", "update"}
  /\ Pending(ops, "uninstall") => op = "delete" \/ (op = "update" /\ config.shrink)
  /\ Pending(ops, "awaitGone") => op = "delete"
  /\ Pending(ops, "read") => op \in {"read", "create", "update"}

\* Once the install is done, every configured engine is there.
InstalledInv ==
  (op \in {"create", "update"} /\ ~disturbed /\ ~Pending(ops, "install")) =>
    \A t \in config.types : engine[t] \notin {"none", "uninstalling"}

StoreIInv == TypeOK /\ CallInv /\ OpsInv /\ InstalledInv /\ KeepsEngines

(***************************************************************************)
(* Sequences of operations.                                                *)
(***************************************************************************)

LEMMA WhenPending ==
  ASSUME NEW c \in BOOLEAN, NEW o \in Operations
  PROVE  /\ When(c, o) \in Seq(Operations)
         /\ \A x : Pending(When(c, o), x) <=> (c /\ x = o)
  BY DEF When, Pending

LEMMA NextPending ==
  ASSUME NEW s \in Seq(Operations), NEW c \in BOOLEAN, NEW o \in Operations
  PROVE  /\ s \o When(c, o) \in Seq(Operations)
         /\ \A x : Pending(s \o When(c, o), x) <=> (Pending(s, x) \/ (c /\ x = o))
  <1>1. CASE ~c
    <2>1. When(c, o) = <<>> /\ s \o <<>> = s
      BY <1>1 DEF When
    <2> QED  BY <1>1, <2>1
  <1>2. CASE c
    <2>1. When(c, o) = <<o>>
      BY <1>2 DEF When
    <2> DEFINE u == s \o <<o>>
    <2>2. /\ u \in Seq(Operations) /\ Len(u) = Len(s) + 1 /\ Len(s) \in Nat
          /\ u[Len(s) + 1] = o /\ \A i \in 1 .. Len(s) : u[i] = s[i]
      OBVIOUS
    <2> HIDE DEF u
    <2>3. ASSUME NEW x
          PROVE  Pending(u, x) <=> (Pending(s, x) \/ x = o)
      <3>1. Pending(s, x) => Pending(u, x)
        BY <2>2 DEF Pending
      <3>2. x = o => Pending(u, x)
        BY <2>2 DEF Pending
      <3>3. Pending(u, x) => Pending(s, x) \/ x = o
        BY <2>2 DEF Pending
      <3> QED  BY <3>1, <3>2, <3>3
    <2>4. s \o When(c, o) = u
      BY <2>1 DEF u
    <2> QED  BY <1>2, <2>2, <2>3, <2>4
  <1> QED  BY <1>1, <1>2

\* The read that is put at the end of other operations is the last.
LEMMA ReadPutLast ==
  ASSUME NEW s \in Seq(Operations), ~Pending(s, "read")
  PROVE  ReadIsLast(s \o <<"read">>)
  <1> DEFINE u == s \o <<"read">>
  <1>1. Len(u) = Len(s) + 1 /\ Len(s) \in Nat /\ \A i \in 1 .. Len(s) : u[i] = s[i]
    BY DEF Operations
  <1> HIDE DEF u
  <1>2. ReadIsLast(u)
    BY <1>1 DEF ReadIsLast, Pending
  <1> QED  BY <1>2 DEF u

\* The operation at the head, and the rest.
LEMMA PopPending ==
  ASSUME NEW s \in Seq(Operations), s # <<>>
  PROVE  /\ Tail(s) \in Seq(Operations) /\ Pending(s, Head(s))
         /\ \A x : Pending(Tail(s), x) => Pending(s, x)
         /\ \A x : Pending(s, x) => x = Head(s) \/ Pending(Tail(s), x)
         /\ ReadIsLast(s) => ReadIsLast(Tail(s))
         /\ (ReadIsLast(s) /\ Head(s) = "read") => \A x : Pending(s, x) => x = "read"
  <1>1. /\ Len(s) \in Nat /\ Len(s) >= 1 /\ Head(s) = s[1]
        /\ Tail(s) \in Seq(Operations) /\ Len(Tail(s)) = Len(s) - 1
        /\ \A i \in 1 .. Len(s) - 1 : Tail(s)[i] = s[i + 1]
    BY EmptySeq
  <1> DEFINE u == Tail(s)
  <1>2. /\ u \in Seq(Operations) /\ Len(u) = Len(s) - 1 /\ \A i \in 1 .. Len(s) - 1 : u[i] = s[i + 1]
    BY <1>1
  <1> HIDE DEF u
  <1>3. Pending(s, Head(s))
    BY <1>1 DEF Pending
  <1>4. \A x : Pending(u, x) => Pending(s, x)
    BY <1>1, <1>2 DEF Pending
  <1>5. ASSUME NEW x, Pending(s, x)
        PROVE  x = Head(s) \/ Pending(u, x)
    <2>1. PICK i \in 1 .. Len(s) : s[i] = x
      BY <1>5 DEF Pending
    <2>2. CASE i = 1
      BY <1>1, <2>1, <2>2
    <2>3. CASE i # 1
      <3>1. i - 1 \in 1 .. Len(u) /\ u[i - 1] = x
        BY <1>1, <1>2, <2>1, <2>3
      <3> QED  BY <3>1 DEF Pending
    <2> QED  BY <2>2, <2>3
  <1>6. ReadIsLast(s) => ReadIsLast(u)
    <2> SUFFICES ASSUME ReadIsLast(s), NEW i \in 1 .. Len(u), u[i] = "read"
                 PROVE  i = Len(u)
      BY DEF ReadIsLast
    <2>1. i + 1 \in 1 .. Len(s) /\ s[i + 1] = "read"
      BY <1>1, <1>2
    <2>2. i + 1 = Len(s)
      BY <2>1 DEF ReadIsLast
    <2>3. Len(s) \in Nat /\ Len(u) = Len(s) - 1 /\ i \in Int
      BY <1>1, <1>2
    <2> QED  BY <2>2, <2>3
  <1>7. (ReadIsLast(s) /\ Head(s) = "read") => \A x : Pending(s, x) => x = "read"
    <2> SUFFICES ASSUME ReadIsLast(s), Head(s) = "read", NEW x, Pending(s, x)
                 PROVE  x = "read"
      OBVIOUS
    <2>1. 1 \in 1 .. Len(s) /\ s[1] = "read"
      BY <1>1
    <2>2. Len(s) = 1
      BY <2>1 DEF ReadIsLast
    <2> QED  BY <1>1, <2>1, <2>2 DEF Pending
  <1> QED  BY <1>2, <1>3, <1>4, <1>5, <1>6, <1>7 DEF u

\* What an update has to execute.
LEMMA UpdateOpsPending ==
  ASSUME NEW prior, NEW plan
  PROVE  /\ UpdateOps(prior, plan) \in Seq(Operations) /\ ReadIsLast(UpdateOps(prior, plan))
         /\ Pending(UpdateOps(prior, plan), "install") <=> plan.types \ prior.types # {}
         /\ Pending(UpdateOps(prior, plan), "uninstall") => plan.shrink
         /\ ~Pending(UpdateOps(prior, plan), "awaitGone")
  <1> DEFINE removal == IF plan.shrink THEN "uninstall" ELSE "refuse"
             change == IF plan.started THEN "start" ELSE "stop"
             s1 == When(plan.log # prior.log, "log")
             s2 == s1 \o When(plan.types \ prior.types # {}, "install")
             s3 == s2 \o When(prior.types \ plan.types # {}, removal)
             s4 == s3 \o When(plan.started # prior.started, change)
  <1>1. /\ removal \in {"uninstall", "refuse"} /\ (removal = "uninstall" => plan.shrink)
        /\ change \in {"start", "stop"}
    OBVIOUS
  <1>2. /\ {"log", "install", "read"} \subseteq Operations /\ removal \in Operations /\ change \in Operations
    BY <1>1 DEF Operations, Requests
  <1>3. UpdateOps(prior, plan) = s4 \o <<"read">>
    BY DEF UpdateOps
  <1> HIDE DEF removal, change
  <1>4. s1 \in Seq(Operations) /\ \A x : Pending(s1, x) <=> (plan.log # prior.log /\ x = "log")
    BY <1>2, WhenPending
  <1> HIDE DEF s1
  <1>5. /\ s2 \in Seq(Operations)
        /\ \A x : Pending(s2, x) <=> (Pending(s1, x) \/ (plan.types \ prior.types # {} /\ x = "install"))
    BY <1>2, <1>4, NextPending
  <1> HIDE DEF s2
  <1>6. /\ s3 \in Seq(Operations)
        /\ \A x : Pending(s3, x) <=> (Pending(s2, x) \/ (prior.types \ plan.types # {} /\ x = removal))
    BY <1>2, <1>5, NextPending
  <1> HIDE DEF s3
  <1>7. /\ s4 \in Seq(Operations)
        /\ \A x : Pending(s4, x) <=> (Pending(s3, x) \/ (plan.started # prior.started /\ x = change))
    BY <1>2, <1>6, NextPending
  <1> HIDE DEF s4
  <1>8. When(TRUE, "read") = <<"read">>
    BY DEF When
  <1> DEFINE u == s4 \o <<"read">>
  <1>9. u \in Seq(Operations) /\ \A x : Pending(u, x) <=> (Pending(s4, x) \/ x = "read")
    BY <1>2, <1>7, <1>8, NextPending
  <1>10. ~Pending(s4, "read")
    BY <1>1, <1>4, <1>5, <1>6, <1>7
  <1>11. ReadIsLast(u)
    BY <1>7, <1>10, ReadPutLast
  <1>12. UpdateOps(prior, plan) = u
    BY <1>3
  <1> HIDE DEF u
  <1>13. Pending(s4, "install") <=> plan.types \ prior.types # {}
    <2>1. Pending(s4, "install") <=> Pending(s2, "install")
      BY <1>1, <1>6, <1>7
    <2>2. Pending(s2, "install") <=> plan.types \ prior.types # {}
      BY <1>4, <1>5
    <2> QED  BY <2>1, <2>2
  <1>14. Pending(s4, "uninstall") => plan.shrink
    <2>1. ~Pending(s2, "uninstall")
      BY <1>4, <1>5
    <2> QED  BY <1>1, <1>6, <1>7, <2>1
  <1>15. ~Pending(s4, "awaitGone")
    BY <1>1, <1>4, <1>5, <1>6, <1>7
  <1>16. \A x : x # "read" => (Pending(u, x) <=> Pending(s4, x))
    BY <1>9
  <1>17. /\ Pending(u, "install") <=> Pending(s4, "install")
         /\ Pending(u, "uninstall") <=> Pending(s4, "uninstall")
         /\ Pending(u, "awaitGone") <=> Pending(s4, "awaitGone")
    BY <1>16
  <1> QED  BY <1>9, <1>11, <1>12, <1>13, <1>14, <1>15, <1>17

\* What a create, a refresh and a delete have to execute.
LEMMA OtherOpsPending ==
  ASSUME NEW plan
  PROVE  /\ CreateOps(plan) \in Seq(Operations) /\ ReadIsLast(CreateOps(plan)) /\ Pending(CreateOps(plan), "install")
         /\ ~Pending(CreateOps(plan), "uninstall") /\ ~Pending(CreateOps(plan), "awaitGone")
         /\ <<"read">> \in Seq(Operations) /\ ReadIsLast(<<"read">>) /\ \A x : Pending(<<"read">>, x) => x = "read"
         /\ DeleteOps \in Seq(Operations) /\ ReadIsLast(DeleteOps)
         /\ \A x : Pending(DeleteOps, x) => x \in {"uninstall", "awaitGone"}
  <1>1. {"install", "stop", "read", "uninstall", "awaitGone"} \subseteq Operations
    BY DEF Operations, Requests
  <1> DEFINE s1 == <<"install">> \o When(~plan.started, "stop")
  <1>2. <<"install">> \in Seq(Operations) /\ \A x : Pending(<<"install">>, x) <=> x = "install"
    BY <1>1 DEF Pending
  <1>3. s1 \in Seq(Operations) /\ \A x : Pending(s1, x) <=> (x = "install" \/ (~plan.started /\ x = "stop"))
    BY <1>1, <1>2, NextPending
  <1>4. CreateOps(plan) = s1 \o <<"read">> /\ When(TRUE, "read") = <<"read">>
    BY DEF CreateOps, When
  <1> HIDE DEF s1
  <1> DEFINE u == s1 \o <<"read">>
  <1>5. u \in Seq(Operations) /\ \A x : Pending(u, x) <=> (Pending(s1, x) \/ x = "read")
    BY <1>1, <1>3, <1>4, NextPending
  <1>6. ReadIsLast(u) /\ CreateOps(plan) = u
    BY <1>3, <1>4, ReadPutLast
  <1> HIDE DEF u
  <1>6a. Pending(u, "install") /\ ~Pending(u, "uninstall") /\ ~Pending(u, "awaitGone")
    BY <1>3, <1>5
  <1>7. <<"read">> \in Seq(Operations) /\ ReadIsLast(<<"read">>) /\ \A x : Pending(<<"read">>, x) => x = "read"
    BY <1>1 DEF ReadIsLast, Pending
  <1>8. /\ DeleteOps \in Seq(Operations) /\ ReadIsLast(DeleteOps)
        /\ \A x : Pending(DeleteOps, x) => x \in {"uninstall", "awaitGone"}
    BY <1>1 DEF DeleteOps, ReadIsLast, Pending
  <1> QED  BY <1>5, <1>6, <1>6a, <1>7, <1>8

\* Before the first and after the last operation of a call nothing is pending.
LEMMA NothingPending == <<>> \in Seq(Operations) /\ ReadIsLast(<<>>) /\ \A x : ~Pending(<<>>, x)
  BY DEF ReadIsLast, Pending

(***************************************************************************)
(* Parts of steps.                                                         *)
(***************************************************************************)

LEMMA SpendType ==
  ASSUME TypeOK, Spend("faults", MaxFaults) \/ Spend("acts", MaxActs) \/ Spend("edits", MaxEdits)
  PROVE  budget' \in [faults : 0 .. MaxFaults, acts : 0 .. MaxActs, edits : 0 .. MaxEdits] /\ budget' # budget
  BY StoreAssumption DEF TypeOK, Spend

\* The end of a call keeps the invariant: nothing is pending and nobody is waiting.
LEMMA EndStep ==
  ASSUME StoreIInv, EndCall,
         engine' \in [Types -> EngineStates], log' \in Logs \cup {NoLog}, UNCHANGED config,
         tfstate' \in Model \cup {NoState}, refreshed' \in BOOLEAN,
         budget' \in [faults : 0 .. MaxFaults, acts : 0 .. MaxActs, edits : 0 .. MaxEdits]
  PROVE  StoreIInv'
  <1>1. op' = "idle" /\ ops' = <<>> /\ requests' = {} /\ disturbed' = FALSE
    BY DEF EndCall
  <1>2. TypeOK'
    BY <1>1, NothingPending DEF StoreIInv, TypeOK
  <1>3. CallInv' /\ InstalledInv' /\ KeepsEngines'
    BY <1>1 DEF CallInv, InstalledInv, KeepsEngines
  <1>4. OpsInv'
    BY <1>1, NothingPending DEF OpsInv
  <1> QED  BY <1>2, <1>3, <1>4 DEF StoreIInv

\* The operation at hand is pending, and tells which call is in progress.
LEMMA DoingCall ==
  ASSUME StoreIInv, NEW o, Doing(o)
  PROVE  /\ ops \in Seq(Operations) /\ ops # <<>> /\ Head(ops) = o /\ Pending(ops, o)
         /\ o \in {"log", "install"} => op \in {"create", "update"} /\ config \in Config
         /\ o = "uninstall" => op = "delete" \/ (op = "update" /\ config.shrink)
         /\ o = "awaitGone" => op = "delete"
         /\ o = "read" => op \in {"read", "create", "update"} /\ ~Pending(ops, "install")
  <1>1. ops \in Seq(Operations) /\ ops # <<>> /\ Head(ops) = o
    BY DEF Doing, StoreIInv, TypeOK
  <1>2. Pending(ops, o)
    BY <1>1, PopPending
  <1>3. o \in {"log", "install"} => op \in {"create", "update"} /\ config \in Config
    BY <1>2 DEF StoreIInv, OpsInv, CallInv, TypeOK
  <1>4. o = "uninstall" => op = "delete" \/ (op = "update" /\ config.shrink)
    BY <1>2 DEF StoreIInv, OpsInv
  <1>5. o = "awaitGone" => op = "delete"
    BY <1>2 DEF StoreIInv, OpsInv
  <1>6. o = "read" => op \in {"read", "create", "update"}
    BY <1>2 DEF StoreIInv, OpsInv
  <1>7. ReadIsLast(ops)
    BY DEF StoreIInv, OpsInv
  <1>8. o = "read" => \A x : Pending(ops, x) => x = "read"
    BY <1>1, <1>7, PopPending
  <1>9. o = "read" => ~Pending(ops, "install")
    BY <1>8
  <1> QED  BY <1>1, <1>2, <1>3, <1>4, <1>5, <1>6, <1>9

\* What the store does with a request: only an uninstall takes engines away, and
\* only those it names; an install that is accepted leaves every configured one.
LEMMA EffectFacts ==
  ASSUME TypeOK, NEW o \in Requests, o \in {"log", "install"} => config \in Config, Effect(o)
  PROVE  /\ engine' \in [Types -> EngineStates] /\ log' \in Logs \cup {NoLog}
         /\ \A t \in Types :
              engine[t] \notin {"none", "uninstalling"} /\ engine'[t] \in {"none", "uninstalling"}
                => o = "uninstall" /\ t \in Removed
         /\ (o = "install" /\ Accepted("install")) =>
              \A t \in config.types : engine'[t] \notin {"none", "uninstalling"}
  <1>1. engine' \in [Types -> EngineStates] /\ \A t \in Types : engine'[t] \in EngineAfter(o, t)
    BY DEF Effect
  <1>2. log' \in Logs \cup {NoLog}
    BY DEF Effect, TypeOK, Config, Model
  <1>3. ASSUME NEW t \in Types,
               engine[t] \notin {"none", "uninstalling"}, engine'[t] \in {"none", "uninstalling"}
        PROVE  o = "uninstall" /\ t \in Removed
    BY <1>1, <1>3 DEF EngineAfter
  <1>4. ASSUME o = "install", Accepted("install"), NEW t \in config.types
        PROVE  engine'[t] \notin {"none", "uninstalling"}
    <2>1. t \in Types
      BY <1>4 DEF Config, Model
    <2>2. engine[t] # "uninstalling"
      BY <1>4 DEF Accepted, InstallAccepted
    <2> QED  BY <1>1, <1>4, <2>1, <2>2 DEF EngineAfter
  <1> QED  BY <1>1, <1>2, <1>3, <1>4

\* A request that is carried out keeps the engines of an update and those installed.
LEMMA RequestKeeps ==
  ASSUME StoreIInv, NEW o \in Requests, Doing(o), Accepted(o), Effect(o),
         UNCHANGED <<config, tfstate, op, disturbed>>, ops' \in {ops, Tail(ops)}
  PROVE  InstalledInv' /\ KeepsEngines'
  <1>1. /\ TypeOK /\ CallInv /\ InstalledInv /\ KeepsEngines
        /\ o \in {"log", "install"} => config \in Config
    BY DoingCall DEF StoreIInv
  <1>2. \A t \in Types :
          engine[t] \notin {"none", "uninstalling"} /\ engine'[t] \in {"none", "uninstalling"}
            => o = "uninstall" /\ t \in Removed
    BY <1>1, EffectFacts
  <1>3. op \in {"create", "update"} => config \in Config
    BY <1>1 DEF CallInv, TypeOK
  <1>4. op = "update" => tfstate \in Model
    BY <1>1 DEF CallInv, TypeOK
  <1>5. op = "update" /\ o = "uninstall" => config.shrink /\ Removed = tfstate.types \ config.types
    BY DoingCall DEF Removed
  <1>6. ~(op = "create" /\ o = "uninstall")
    BY DoingCall
  <1>7. InstalledInv'
    <2> SUFFICES ASSUME op \in {"create", "update"}, ~disturbed, ~Pending(ops', "install"), NEW t \in config.types
                 PROVE  engine'[t] \notin {"none", "uninstalling"}
      BY DEF InstalledInv
    <2>1. t \in Types
      BY <1>3 DEF Config, Model
    <2>2. CASE o = "install"
      BY <1>1, <2>2, EffectFacts
    <2>3. CASE o # "install"
      <3>1. ~Pending(ops, "install")
        BY <2>3, DoingCall, PopPending
      <3>2. engine[t] \notin {"none", "uninstalling"}
        BY <1>1, <3>1 DEF InstalledInv
      <3> QED  BY <1>2, <1>5, <1>6, <2>1, <3>2
    <2> QED  BY <2>2, <2>3
  <1>8. KeepsEngines'
    <2> SUFFICES ASSUME op = "update", ~disturbed, NEW t \in tfstate.types, t \in config.types \/ ~config.shrink
                 PROVE  engine'[t] \notin {"none", "uninstalling"}
      BY DEF KeepsEngines
    <2>1. t \in Types
      BY <1>4 DEF Model
    <2>2. engine[t] \notin {"none", "uninstalling"}
      BY <1>1 DEF KeepsEngines
    <2> QED  BY <1>2, <1>5, <2>1, <2>2
  <1> QED  BY <1>7, <1>8

\* What a read saves is a model of the resource.
LEMMA FlattenType ==
  ASSUME StoreIInv, Doing("read"), NEW visible \in SUBSET Types
  PROVE  FlattenStatus(visible) \in Model /\ FlattenStatus(visible).types = visible
  <1> DEFINE running == \E t \in visible : engine[t] = "started"
             settings == IF visible = {} THEN NoLog ELSE Reported(log)
             shrinks == IF op = "read" THEN tfstate.shrink ELSE config.shrink
  <1>1. running \in BOOLEAN
    OBVIOUS
  <1>2. settings \in Logs \cup {NoLog}
    <2>1. log \in Logs \cup {NoLog}
      BY DEF StoreIInv, TypeOK
    <2> QED  BY <2>1, StoreAssumption DEF Reported
  <1>3. op \in {"read", "create", "update"}
    BY DoingCall
  <1>4. op = "read" => tfstate \in Model
    BY DEF StoreIInv, TypeOK, CallInv
  <1>5. op # "read" => config \in Model
    BY <1>3 DEF StoreIInv, TypeOK, CallInv, Config
  <1>6. shrinks \in BOOLEAN
    BY <1>4, <1>5 DEF Model
  <1>7. FlattenStatus(visible) = [types |-> visible, started |-> running, log |-> settings, shrink |-> shrinks]
    BY DEF FlattenStatus
  <1> HIDE DEF running, settings, shrinks
  <1> QED  BY <1>1, <1>2, <1>6, <1>7 DEF Model

(***************************************************************************)
(* The steps.                                                              *)
(***************************************************************************)

\* A call begins: an update that finds an engine of its prior state missing is
\* disturbed from the start.
LEMMA BeginStep ==
  ASSUME StoreIInv, BeginRead \/ BeginCreate \/ BeginUpdate \/ BeginDelete
  PROVE  StoreIInv'
  <1> DEFINE missing == \E t \in tfstate.types : engine[t] \in {"none", "uninstalling"}
  <1>1. PICK o \in {"read", "create", "update", "delete"}, s \in Seq(Operations) :
          /\ Begin(o, s) /\ ReadIsLast(s)
          /\ o \in {"read", "update", "delete"} => tfstate # NoState
          /\ o \in {"create", "update"} => config # NoConfig
          /\ o = "read" => \A x : Pending(s, x) => x = "read"
          /\ o = "create" => Pending(s, "install") /\ ~Pending(s, "uninstall") /\ ~Pending(s, "awaitGone")
          /\ o = "update" => /\ Pending(s, "install") <=> config.types \ tfstate.types # {}
                             /\ Pending(s, "uninstall") => config.shrink
                             /\ ~Pending(s, "awaitGone")
          /\ o = "delete" => \A x : Pending(s, x) => x \in {"uninstall", "awaitGone"}
    <2>1. CASE BeginRead
      BY <2>1, OtherOpsPending DEF BeginRead
    <2>2. CASE BeginCreate
      BY <2>2, OtherOpsPending DEF BeginCreate
    <2>3. CASE BeginUpdate
      BY <2>3, UpdateOpsPending DEF BeginUpdate
    <2>4. CASE BeginDelete
      BY <2>4, OtherOpsPending DEF BeginDelete
    <2> QED  BY <2>1, <2>2, <2>3, <2>4
  <1>2. /\ op' = o /\ ops' = s /\ disturbed' = (o = "update" /\ missing)
        /\ UNCHANGED <<engine, log, config, tfstate, refreshed, requests, budget>>
    BY <1>1 DEF Begin, store, tfVars
  <1>3. disturbed' \in BOOLEAN /\ (o = "update" /\ ~disturbed' => ~missing)
    <2> HIDE DEF missing
    <2> QED  BY <1>2
  <1>4. TypeOK'
    BY <1>1, <1>2, <1>3 DEF StoreIInv, TypeOK
  <1>5. CallInv'
    BY <1>1, <1>2 DEF CallInv
  <1>6. OpsInv'
    <2>1. CASE o = "read"
      BY <1>1, <1>2, <2>1 DEF OpsInv
    <2>2. CASE o = "create"
      BY <1>1, <1>2, <2>2 DEF OpsInv
    <2>3. CASE o = "update"
      BY <1>1, <1>2, <2>3 DEF OpsInv
    <2>4. CASE o = "delete"
      <3>1. ~Pending(s, "log") /\ ~Pending(s, "install") /\ ~Pending(s, "read")
        BY <1>1, <2>4
      <3> QED  BY <1>1, <1>2, <2>4, <3>1 DEF OpsInv
    <2> QED  BY <1>1, <2>1, <2>2, <2>3, <2>4
  <1>7. InstalledInv' /\ KeepsEngines'
    BY <1>1, <1>2, <1>3 DEF InstalledInv, KeepsEngines
  <1> QED  BY <1>4, <1>5, <1>6, <1>7 DEF StoreIInv

\* A request is carried out, and the next operation is at hand.
LEMMA ExecuteStep ==
  ASSUME StoreIInv, Execute
  PROVE  StoreIInv'
  <1>1. PICK o \in Requests : Doing(o) /\ Accepted(o) /\ Effect(o) /\ requests' = requests \cup {o}
    BY DEF Execute
  <1>2. ops' = Tail(ops) /\ UNCHANGED <<config, tfstate, refreshed, op, disturbed, budget>>
    BY DEF Execute, tfVars
  <1>3. TypeOK /\ CallInv /\ OpsInv
    BY DEF StoreIInv
  <1>4. ops \in Seq(Operations) /\ ops # <<>> /\ (o \in {"log", "install"} => config \in Config)
    BY <1>1, DoingCall
  <1>5. engine' \in [Types -> EngineStates] /\ log' \in Logs \cup {NoLog}
    BY <1>1, <1>3, <1>4, EffectFacts
  <1>6. /\ ops' \in Seq(Operations) /\ (ReadIsLast(ops) => ReadIsLast(ops'))
        /\ \A x : Pending(ops', x) => Pending(ops, x)
    BY <1>2, <1>4, PopPending
  <1>7. TypeOK'
    BY <1>1, <1>2, <1>3, <1>5, <1>6 DEF TypeOK
  <1>8. CallInv'
    BY <1>2, <1>3 DEF CallInv
  <1>9. OpsInv'
    BY <1>2, <1>3, <1>6 DEF OpsInv
  <1>10. InstalledInv' /\ KeepsEngines'
    BY <1>1, <1>2, RequestKeeps
  <1> QED  BY <1>7, <1>8, <1>9, <1>10 DEF StoreIInv

\* An install answered with a server error, which did or did not take effect.
LEMMA ServerErrorStep ==
  ASSUME StoreIInv, InstallServerError
  PROVE  StoreIInv'
  <1>1. /\ Doing("install") /\ UNCHANGED <<config, tfstate, refreshed, op, ops, disturbed>>
        /\ budget' \in [faults : 0 .. MaxFaults, acts : 0 .. MaxActs, edits : 0 .. MaxEdits]
    BY SpendType DEF InstallServerError, tfVars, StoreIInv
  <1>2. TypeOK /\ CallInv /\ OpsInv /\ InstalledInv /\ KeepsEngines
    BY DEF StoreIInv
  <1>3. CallInv' /\ OpsInv'
    BY <1>1, <1>2 DEF CallInv, OpsInv
  <1>4. CASE UNCHANGED <<store, requests>>
    <2>1. UNCHANGED <<engine, log, requests>>
      BY <1>4 DEF store
    <2>2. TypeOK'
      BY <1>1, <1>2, <2>1 DEF TypeOK
    <2>3. InstalledInv' /\ KeepsEngines'
      BY <1>1, <1>2, <2>1 DEF InstalledInv, KeepsEngines
    <2> QED  BY <1>3, <2>2, <2>3 DEF StoreIInv
  <1>5. CASE Accepted("install") /\ Effect("install") /\ requests' = requests \cup {"install"}
    <2>1. "install" \in Requests
      BY DEF Requests
    <2>2. InstalledInv' /\ KeepsEngines'
      BY <1>1, <1>5, <2>1, RequestKeeps
    <2>3. engine' \in [Types -> EngineStates] /\ log' \in Logs \cup {NoLog}
      BY <1>1, <1>2, <1>5, <2>1, DoingCall, EffectFacts
    <2>4. TypeOK'
      BY <1>1, <1>2, <1>5, <2>1, <2>3 DEF TypeOK
    <2> QED  BY <1>3, <2>2, <2>4 DEF StoreIInv
  <1> QED  BY <1>4, <1>5 DEF InstallServerError

\* The steps that end a call with an error.
LEMMA FailSteps ==
  ASSUME StoreIInv, Refused \/ ShrinkRefused \/ CallFails \/ AwaitGoneTimesOut
  PROVE  StoreIInv'
  <1>1. TypeOK /\ Fail
    BY DEF StoreIInv, Refused, ShrinkRefused, CallFails, AwaitGoneTimesOut
  <1>2. EndCall /\ refreshed' \in BOOLEAN /\ UNCHANGED config /\ tfstate' \in Model \cup {NoState}
    BY <1>1 DEF Fail, TypeOK
  <1>3. CASE UNCHANGED <<store, budget>>
    <2>1. UNCHANGED <<engine, log, budget>>
      BY <1>3 DEF store
    <2> QED  BY <1>1, <1>2, <2>1, EndStep DEF TypeOK
  <1>4. CASE CallFails
    <2>1. budget' \in [faults : 0 .. MaxFaults, acts : 0 .. MaxActs, edits : 0 .. MaxEdits]
      BY <1>1, <1>4, SpendType DEF CallFails
    <2>2. PICK o : Doing(o) /\ (UNCHANGED store \/ (o \in Requests /\ Accepted(o) /\ Effect(o)))
      BY <1>4 DEF CallFails
    <2>3. engine' \in [Types -> EngineStates] /\ log' \in Logs \cup {NoLog}
      <3>1. CASE UNCHANGED store
        BY <1>1, <3>1 DEF store, TypeOK
      <3>2. CASE o \in Requests /\ Accepted(o) /\ Effect(o)
        BY <1>1, <2>2, <3>2, DoingCall, EffectFacts
      <3> QED  BY <2>2, <3>1, <3>2
    <2> QED  BY <1>2, <2>1, <2>3, EndStep
  <1> QED  BY <1>3, <1>4 DEF Refused, ShrinkRefused, AwaitGoneTimesOut

\* The steps that end a call with a result, and what they save.
LEMMA SaveSteps ==
  ASSUME StoreIInv, AwaitGone \/ Read \/ ReadDegraded \/ ReadNotInstalled
  PROVE  StoreIInv'
  <1>1. TypeOK /\ op \in {"idle", "read", "create", "update", "delete"}
    BY DEF StoreIInv, TypeOK
  <1>2. EndCall /\ UNCHANGED <<store, config>>
    BY DEF AwaitGone, Read, ReadDegraded, ReadNotInstalled, Fail
  <1>3. engine' \in [Types -> EngineStates] /\ log' \in Logs \cup {NoLog}
    BY <1>1, <1>2 DEF store, TypeOK
  <1>4. budget' \in [faults : 0 .. MaxFaults, acts : 0 .. MaxActs, edits : 0 .. MaxEdits]
    BY <1>1, SpendType DEF AwaitGone, Read, ReadDegraded, ReadNotInstalled, TypeOK
  <1>5. refreshed' \in BOOLEAN
    <2> DEFINE refreshing == op = "read"
    <2>1. refreshing \in BOOLEAN
      OBVIOUS
    <2>2. refreshed' \in {refreshing, TRUE, FALSE}
      BY DEF AwaitGone, Read, ReadDegraded, ReadNotInstalled, Fail
    <2> HIDE DEF refreshing
    <2> QED  BY <2>1, <2>2
  <1>6. Installed \in SUBSET Types
    BY DEF Installed
  <1>7. tfstate' \in Model \cup {NoState}
    <2>1. CASE AwaitGone \/ ReadNotInstalled
      BY <1>1, <2>1 DEF AwaitGone, ReadNotInstalled, Fail, TypeOK
    <2>2. CASE Read
      BY <1>6, <2>2, FlattenType DEF Read
    <2>3. CASE ReadDegraded
      BY <1>6, <2>3, FlattenType DEF ReadDegraded
    <2> QED  BY <2>1, <2>2, <2>3
  <1> QED  BY <1>2, <1>3, <1>4, <1>5, <1>7, EndStep

\* Kibana, other clients and the practitioner.
LEMMA EnvironmentSteps ==
  ASSUME StoreIInv, KibanaMoves \/ OtherClient \/ EditConfig \/ NewRun \/ UNCHANGED vars
  PROVE  StoreIInv'
  <1>1. TypeOK /\ CallInv /\ OpsInv /\ InstalledInv /\ KeepsEngines
    BY DEF StoreIInv
  <1>2. CASE KibanaMoves
    <2>1. PICK t \in Types :
            /\ engine[t] \in {"installing", "uninstalling"}
            /\ engine' = [engine EXCEPT ![t] = IF @ = "installing" THEN "started" ELSE "none"]
      BY <1>2 DEF KibanaMoves
    <2>2. UNCHANGED <<log, config, tfstate, refreshed, op, ops, requests, disturbed, budget>>
      BY <1>2 DEF KibanaMoves, tfVars
    <2>3. engine' \in [Types -> EngineStates]
      BY <1>1, <2>1 DEF TypeOK, EngineStates
    <2>4. \A e \in Types : engine[e] \notin {"none", "uninstalling"} => engine'[e] \notin {"none", "uninstalling"}
      BY <1>1, <2>1 DEF TypeOK
    <2>5. TypeOK'
      BY <1>1, <2>2, <2>3 DEF TypeOK
    <2>6. CallInv' /\ OpsInv'
      BY <1>1, <2>2 DEF CallInv, OpsInv
    <2>7. op \in {"create", "update"} => config.types \subseteq Types
      BY <1>1 DEF CallInv, TypeOK, Config, Model
    <2>8. op = "update" => tfstate.types \subseteq Types
      BY <1>1 DEF CallInv, TypeOK, Model
    <2>9. InstalledInv'
      BY <1>1, <2>2, <2>4, <2>7 DEF InstalledInv
    <2>10. KeepsEngines'
      BY <1>1, <2>2, <2>4, <2>8 DEF KeepsEngines
    <2> QED  BY <2>5, <2>6, <2>9, <2>10 DEF StoreIInv
  <1>3. CASE OtherClient
    <2> DEFINE busy == op # "idle"
    <2>1. PICK t \in Types :
            /\ engine[t] \in {"none", "started", "stopped"}
            /\ engine' = [engine EXCEPT ![t] = CASE @ = "none" -> "installing"
                                                 [] @ = "started" -> "uninstalling"
                                                 [] @ = "stopped" -> "started"]
      BY <1>3 DEF OtherClient
    <2>2. disturbed' = busy /\ UNCHANGED <<config, tfstate, refreshed, op, ops, requests>>
      BY <1>3 DEF OtherClient, tfVars
    <2>3. engine' \in [Types -> EngineStates]
      BY <1>1, <2>1 DEF TypeOK, EngineStates
    <2>4. log' \in Logs \cup {NoLog}
      BY <1>1, <1>3, StoreAssumption DEF OtherClient, TypeOK
    <2>5. budget' \in [faults : 0 .. MaxFaults, acts : 0 .. MaxActs, edits : 0 .. MaxEdits]
      BY <1>1, <1>3, SpendType DEF OtherClient
    <2>6. disturbed' \in BOOLEAN /\ (op' # "idle" => disturbed')
      <3>1. busy \in BOOLEAN /\ (op # "idle" => busy)
        OBVIOUS
      <3> HIDE DEF busy
      <3> QED  BY <2>2, <3>1
    <2>7. TypeOK'
      BY <1>1, <2>2, <2>3, <2>4, <2>5, <2>6 DEF TypeOK
    <2>8. CallInv' /\ OpsInv'
      BY <1>1, <2>2 DEF CallInv, OpsInv
    <2>9. InstalledInv' /\ KeepsEngines'
      BY <2>6 DEF InstalledInv, KeepsEngines
    <2> QED  BY <2>7, <2>8, <2>9 DEF StoreIInv
  <1>4. CASE EditConfig
    <2>1. /\ op = "idle" /\ refreshed' = FALSE /\ config' \in Config \cup {NoConfig}
          /\ UNCHANGED <<engine, log, tfstate, op, ops, requests, disturbed>>
          /\ budget' \in [faults : 0 .. MaxFaults, acts : 0 .. MaxActs, edits : 0 .. MaxEdits]
      BY <1>1, <1>4, SpendType, ModelAssumption DEF EditConfig, store
    <2>2. TypeOK'
      BY <1>1, <2>1 DEF TypeOK
    <2>3. CallInv' /\ OpsInv' /\ InstalledInv' /\ KeepsEngines'
      BY <1>1, <2>1 DEF CallInv, OpsInv, InstalledInv, KeepsEngines
    <2> QED  BY <2>2, <2>3 DEF StoreIInv
  <1>5. CASE NewRun \/ UNCHANGED vars
    <2>1. /\ UNCHANGED <<engine, log, config, tfstate, op, ops, requests, disturbed, budget>>
          /\ refreshed' \in {refreshed, FALSE}
      BY <1>5 DEF NewRun, vars, store, tfVars
    <2>2. TypeOK'
      BY <1>1, <2>1 DEF TypeOK
    <2>3. CallInv' /\ OpsInv' /\ InstalledInv' /\ KeepsEngines'
      BY <1>1, <2>1 DEF CallInv, OpsInv, InstalledInv, KeepsEngines
    <2> QED  BY <2>2, <2>3 DEF StoreIInv
  <1> QED  BY <1>2, <1>3, <1>4, <1>5

(***************************************************************************)
(* The theorems.                                                           *)
(***************************************************************************)

\* The inductive invariant holds in every state of every behaviour: each operation
\* still queued belongs to the call in progress, and once its install is done every
\* configured engine is there.
THEOREM StoreIInvariant == Spec => []StoreIInv
  <1>1. Init => StoreIInv
    <2> SUFFICES ASSUME Init
                 PROVE  StoreIInv
      OBVIOUS
    <2>1. op = "idle" /\ ops = <<>>
      BY DEF Init
    <2>2. budget \in [faults : 0 .. MaxFaults, acts : 0 .. MaxActs, edits : 0 .. MaxEdits]
      BY StoreAssumption DEF Init
    <2>3. TypeOK
      BY <2>1, <2>2, NothingPending, ModelAssumption DEF Init, TypeOK, EngineStates
    <2>4. CallInv /\ InstalledInv /\ KeepsEngines
      BY <2>1 DEF CallInv, InstalledInv, KeepsEngines
    <2>5. OpsInv
      BY <2>1, NothingPending DEF OpsInv
    <2> QED  BY <2>3, <2>4, <2>5 DEF StoreIInv
  <1>2. StoreIInv /\ [Next]_vars => StoreIInv'
    BY BeginStep, ExecuteStep, ServerErrorStep, FailSteps, SaveSteps, EnvironmentSteps DEF Next, Provider
  <1> QED  BY <1>1, <1>2, PTL DEF Spec

\* No update loses an engine that the configuration keeps, or that it may not remove,
\* whatever fails and however often its install is retried.
THEOREM NoEngineLost == Spec => []StoreInv
  <1>1. StoreIInv => StoreInv
    BY DEF StoreIInv, StoreInv
  <1> QED  BY <1>1, StoreIInvariant, PTL

\* The steps that change the state file, and what they write.
LEMMA StateChanges ==
  ASSUME StoreIInv, Next, tfstate' # tfstate
  PROVE  \/ Installed = {} /\ tfstate' = NoState /\ op \in {"read", "delete"}
         \/ /\ Doing("read") /\ tfstate' \in Model
            /\ \/ tfstate'.types = Installed
               \/ /\ budget' # budget
                  /\ {t \in Installed : engine[t] # "installing"} \subseteq tfstate'.types
  <1>1. TypeOK /\ Installed \in SUBSET Types
    BY DEF StoreIInv, Installed
  <1>2. CASE AwaitGone
    <2>1. op = "delete" /\ tfstate' = NoState
      BY <1>2, DoingCall DEF AwaitGone
    <2>2. Installed = {}
      BY <1>2 DEF AwaitGone, Status
    <2> QED  BY <2>1, <2>2
  <1>3. CASE ReadNotInstalled
    <2>1. op = "read" /\ tfstate' = NoState
      BY <1>3 DEF ReadNotInstalled, Fail
    <2>2. Installed = {}
      BY <1>3 DEF ReadNotInstalled, Status
    <2> QED  BY <2>1, <2>2
  <1>4. CASE Read
    BY <1>1, <1>4, FlattenType DEF Read
  <1>5. CASE ReadDegraded
    <2>1. Doing("read") /\ budget' # budget
      BY <1>1, <1>5, SpendType DEF ReadDegraded
    <2>2. PICK visible \in SUBSET Installed :
            {t \in Installed : engine[t] # "installing"} \subseteq visible /\ tfstate' = FlattenStatus(visible)
      BY <1>5 DEF ReadDegraded
    <2>3. tfstate' \in Model /\ tfstate'.types = visible
      BY <1>1, <2>1, <2>2, FlattenType
    <2> QED  BY <2>1, <2>2, <2>3
  <1> QED
    BY <1>2, <1>3, <1>4, <1>5
    DEF Next, Provider, BeginRead, BeginCreate, BeginUpdate, BeginDelete, Begin, NewRun, Execute, Refused, ShrinkRefused,
        AwaitGoneTimesOut, InstallServerError, CallFails, Fail, KibanaMoves, OtherClient, EditConfig, tfVars

\* The resource is dropped only when every engine is gone, a write that is saved has
\* every configured engine, and a read that met no deadline saves all of them.
THEOREM StateTellsTruth == Spec => StateIsTruthful
  <1> DEFINE Gone == (tfstate # NoState /\ tfstate' = NoState) => Installed = {}
             Installs == (op \in {"create", "update"} /\ tfstate' # tfstate /\ ~disturbed)
                           => \A t \in config.types \ tfstate'.types : engine[t] = "installing"
             Complete == (tfstate' \notin {tfstate, NoState} /\ budget' = budget) => tfstate'.types = Installed
  <1>1. ASSUME StoreIInv, Next
        PROVE  Gone /\ Installs /\ Complete
    <2>1. Gone
      BY <1>1, StateChanges, ModelAssumption
    <2>2. Installs
      <3> SUFFICES ASSUME op \in {"create", "update"}, tfstate' # tfstate, ~disturbed,
                          NEW t \in config.types \ tfstate'.types
                   PROVE  engine[t] = "installing"
        OBVIOUS
      <3>1. /\ Doing("read")
            /\ tfstate'.types = Installed \/ {e \in Installed : engine[e] # "installing"} \subseteq tfstate'.types
        BY <1>1, StateChanges
      <3>2. engine[t] \notin {"none", "uninstalling"}
        BY <1>1, <3>1, DoingCall DEF StoreIInv, InstalledInv
      <3>3. config.types \subseteq Types
        BY <1>1 DEF StoreIInv, CallInv, TypeOK, Config, Model
      <3>4. t \in Installed
        BY <3>2, <3>3 DEF Installed
      <3> QED  BY <3>1, <3>4
    <2>3. Complete
      BY <1>1, StateChanges
    <2> QED  BY <2>1, <2>2, <2>3
  <1>2. StoreIInv /\ [Next]_vars => [Gone]_vars /\ [Installs]_vars /\ [Complete]_vars
    BY <1>1
  <1>3. Spec => ForgottenOnlyIfGone
    BY <1>2, StoreIInvariant, PTL DEF Spec, ForgottenOnlyIfGone
  <1>4. Spec => WriteInstalls
    BY <1>2, StoreIInvariant, PTL DEF Spec, WriteInstalls
  <1>5. Spec => ReadIsComplete
    BY <1>2, StoreIInvariant, PTL DEF Spec, ReadIsComplete
  <1> QED  BY <1>3, <1>4, <1>5 DEF StateIsTruthful
=============================================================================
