------------------------ MODULE IndexResourceProofs ------------------------
(***************************************************************************)
(* Proofs, for all aliases, fields, values and configurations and any      *)
(* number of failures, edits and acts of other clients, of the safety      *)
(* properties of the index resource: what the state says of the settings,  *)
(* that only an unprotected index is deleted, and that a write that ends   *)
(* well has applied the configuration.                                     *)
(***************************************************************************)
EXTENDS IndexResource, SequenceTheorems, TLAPS

Operations == Requests \cup {"look", "read", "refuse"}

Pending(s, x) == \E i \in 1 .. Len(s) : s[i] = x

\* The order in which a call makes its requests.
Rank(x) ==
  IF x = "look" THEN 0 ELSE IF x = "put" THEN 1 ELSE IF x = "unalias" THEN 2 ELSE IF x = "alias" THEN 3
  ELSE IF x = "settings" THEN 4 ELSE IF x = "mappings" THEN 5 ELSE 6

Ordered(s) == \A i, j \in 1 .. Len(s) : i < j => Rank(s[i]) < Rank(s[j])

(***************************************************************************)
(* The inductive invariant.                                                *)
(***************************************************************************)

\* What a call works on.  Neither the state nor the configuration changes under it.
PlanOK ==
  /\ op = "read" => tfstate # NoState /\ plan = tfstate
  /\ op = "create" => tfstate = NoState /\ config # NoConfig /\ plan = config
  /\ op = "update" => /\ tfstate # NoState /\ config # NoConfig /\ ~RequiresReplace
                      /\ plan = Planned /\ base = tfstate
  /\ op = "delete" => tfstate # NoState

\* Which requests belong to which call: only the destroy of an unprotected
\* resource holds the request that deletes the index.
OpsOK ==
  /\ Ordered(ops)
  /\ Pending(ops, "look") \/ Pending(ops, "put") => op = "create"
  /\ Pending(ops, "put") => \A x \in Operations : Pending(ops, x) => x \in {"put", "read"}
  /\ Pending(ops, "unalias") \/ Pending(ops, "alias") => op \in {"create", "update"} /\ plan.alias # Null
  /\ Pending(ops, "unalias") => plan.alias = {} \/ Pending(ops, "alias")
  /\ Pending(ops, "settings") => op \in {"create", "update"} /\ plan.dyn # base.dyn
  /\ Pending(ops, "mappings") => op \in {"create", "update"} /\ plan.mappings # Null
  /\ Pending(ops, "delete") => op = "delete" /\ ~tfstate.protect
  /\ Pending(ops, "refuse") => op = "delete"
  /\ Pending(ops, "read") => op \in {"read", "create", "update"}

\* A create or an update that is past its look or its creation of the index.
Writing == op \in {"create", "update"} /\ ~Pending(ops, "look") /\ ~Pending(ops, "put") /\ index # NoIndex

\* The state's aliases are those a refresh saw; those of the index move from the
\* base to the plan of a write, as its requests are made.
AliasOK ==
  /\ (tfstate # NoState /\ index # NoIndex /\ refreshed /\ ~disturbed /\ op # "update")
       => tfstate.alias = index.alias
  /\ (Writing /\ ~disturbed /\ plan.alias # Null) =>
       IF Pending(ops, "unalias") THEN index.alias = base.alias /\ todo = plan.alias
       ELSE IF Pending(ops, "alias") THEN index.alias \cup todo = plan.alias
       ELSE index.alias = plan.alias

\* The same of the dynamic setting, which no refresh reads.
DynOK ==
  /\ (tfstate # NoState /\ op # "update" /\ index # NoIndex /\ ~dynHidden) => tfstate.dyn = index.dyn
  /\ (Writing /\ ~dynHidden /\ ~Pending(ops, "settings")) =>
       plan.dyn = index.dyn \/ (op = "create" /\ plan.dyn = Null)

\* The index keeps the static setting and the fields it has; it covers those of the
\* state, and those of the plan once the request for them is made.
StaticOK ==
  /\ StaticIsReal
  /\ (Writing /\ ~swapped) => plan.static \in {Null, index.static}

MappingsOK ==
  /\ (tfstate # NoState /\ index # NoIndex /\ ~swapped) => Covers(index.mappings, tfstate.mappings)
  /\ (Writing /\ ~swapped /\ plan.mappings # Null /\ ~Pending(ops, "mappings"))
       => Covers(index.mappings, plan.mappings)

\* Who drops the index under a create disturbs it.
SwapOK == op = "create" /\ swapped => disturbed

IndexIInv == TypeOK /\ PlanOK /\ OpsOK /\ AliasOK /\ DynOK /\ StaticOK /\ MappingsOK /\ SwapOK

(***************************************************************************)
(* Lemmas about sequences of requests.                                     *)
(***************************************************************************)

LEMMA RankType == \A x : Rank(x) \in Int
  BY DEF Rank

LEMMA FewPending ==
  /\ <<>> \in Seq(Operations) /\ Ordered(<<>>) /\ \A x : ~Pending(<<>>, x)
  /\ \A o \in Operations : <<o>> \in Seq(Operations) /\ Ordered(<<o>>) /\ \A x : Pending(<<o>>, x) <=> x = o
  /\ <<"put", "read">> \in Seq(Operations) /\ Ordered(<<"put", "read">>)
  /\ \A x : Pending(<<"put", "read">>, x) <=> x \in {"put", "read"}
  <1>1. <<>> \in Seq(Operations) /\ Ordered(<<>>) /\ \A x : ~Pending(<<>>, x)
    BY DEF Ordered, Pending
  <1>2. ASSUME NEW o \in Operations
        PROVE  <<o>> \in Seq(Operations) /\ Ordered(<<o>>) /\ \A x : Pending(<<o>>, x) <=> x = o
    <2> DEFINE u == <<o>>
    <2>1. u \in Seq(Operations) /\ Len(u) = 1 /\ u[1] = o
      OBVIOUS
    <2> HIDE DEF u
    <2>2. Ordered(u) /\ \A x : Pending(u, x) <=> x = o
      BY <2>1 DEF Ordered, Pending
    <2> QED  BY <2>1, <2>2 DEF u
  <1>3. /\ <<"put", "read">> \in Seq(Operations) /\ Ordered(<<"put", "read">>)
        /\ \A x : Pending(<<"put", "read">>, x) <=> x \in {"put", "read"}
    <2> DEFINE u == <<"put", "read">>
    <2>1. u \in Seq(Operations) /\ Len(u) = 2 /\ u[1] = "put" /\ u[2] = "read"
      BY DEF Operations, Requests
    <2>2. Rank("put") < Rank("read")
      BY DEF Rank
    <2> HIDE DEF u
    <2>3. Ordered(u)
      BY <2>1, <2>2 DEF Ordered
    <2>4. \A x : Pending(u, x) <=> x \in {"put", "read"}
      BY <2>1 DEF Pending
    <2> QED  BY <2>1, <2>3, <2>4 DEF u
  <1> QED  BY <1>1, <1>2, <1>3

\* A further request at the end.
LEMMA NextPending ==
  ASSUME NEW s \in Seq(Operations), Ordered(s), NEW c \in BOOLEAN, NEW o \in Operations,
         \A x : Pending(s, x) => Rank(x) < Rank(o)
  PROVE  /\ s \o When(c, o) \in Seq(Operations) /\ Ordered(s \o When(c, o))
         /\ \A x : Pending(s \o When(c, o), x) <=> (Pending(s, x) \/ (c /\ x = o))
  <1>1. CASE ~c
    <2>1. s \o When(c, o) = s
      BY <1>1 DEF When
    <2> QED  BY <1>1, <2>1
  <1>2. CASE c
    <2> DEFINE u == s \o <<o>>
    <2>1. /\ u \in Seq(Operations) /\ Len(u) = Len(s) + 1 /\ Len(s) \in Nat
          /\ u[Len(s) + 1] = o /\ \A i \in 1 .. Len(s) : u[i] = s[i]
      OBVIOUS
    <2>2. s \o When(c, o) = u
      BY <1>2 DEF When
    <2> HIDE DEF u
    <2>3. ASSUME NEW x
          PROVE  Pending(u, x) <=> (Pending(s, x) \/ x = o)
      BY <2>1 DEF Pending
    <2>4. ASSUME NEW i \in 1 .. Len(u), NEW j \in 1 .. Len(u), i < j
          PROVE  Rank(u[i]) < Rank(u[j])
      <3>1. i \in 1 .. Len(s) /\ u[i] = s[i]
        BY <2>1, <2>4
      <3>2. CASE j = Len(s) + 1
        BY <2>1, <3>1, <3>2 DEF Pending
      <3>3. CASE j # Len(s) + 1
        <4>1. j \in 1 .. Len(s) /\ u[j] = s[j]
          BY <2>1, <3>3
        <4> QED  BY <2>4, <3>1, <4>1 DEF Ordered
      <3> QED  BY <3>2, <3>3
    <2>5. Ordered(u)
      BY <2>4 DEF Ordered
    <2> QED  BY <1>2, <2>1, <2>2, <2>3, <2>5
  <1> QED  BY <1>1, <1>2

\* The request at the head, and the rest.
LEMMA PopPending ==
  ASSUME NEW s \in Seq(Operations), s # <<>>, Ordered(s)
  PROVE  /\ Tail(s) \in Seq(Operations) /\ Ordered(Tail(s)) /\ Pending(s, Head(s)) /\ Head(s) \in Operations
         /\ \A x : Pending(Tail(s), x) <=> (Pending(s, x) /\ x # Head(s))
         /\ \A x : Pending(s, x) => x = Head(s) \/ Rank(Head(s)) < Rank(x)
  <1> DEFINE u == Tail(s)
             h == Head(s)
  <1>1. /\ Len(s) \in Nat /\ Len(s) >= 1 /\ h = s[1] /\ h \in Operations
        /\ u \in Seq(Operations) /\ Len(u) = Len(s) - 1
        /\ \A i \in 1 .. Len(s) - 1 : u[i] = s[i + 1]
    BY EmptySeq
  <1> HIDE DEF u, h
  <1>2. Ordered(u)
    <2> SUFFICES ASSUME NEW i \in 1 .. Len(u), NEW j \in 1 .. Len(u), i < j
                 PROVE  Rank(u[i]) < Rank(u[j])
      BY DEF Ordered
    <2>1. i + 1 \in 1 .. Len(s) /\ j + 1 \in 1 .. Len(s) /\ i + 1 < j + 1 /\ u[i] = s[i + 1] /\ u[j] = s[j + 1]
      BY <1>1
    <2> QED  BY <2>1 DEF Ordered
  <1>3. Pending(s, h)
    BY <1>1 DEF Pending
  <1>4. ASSUME NEW x, Pending(u, x)
        PROVE  Pending(s, x) /\ x # h
    <2>1. PICK i \in 1 .. Len(u) : u[i] = x
      BY <1>4 DEF Pending
    <2>2. i + 1 \in 1 .. Len(s) /\ 1 \in 1 .. Len(s) /\ 1 < i + 1 /\ s[i + 1] = x
      BY <1>1, <2>1
    <2>3. Rank(s[1]) < Rank(s[i + 1])
      BY <2>2 DEF Ordered
    <2>4. Rank(h) < Rank(x)
      BY <1>1, <2>2, <2>3
    <2>5. x # h
      BY <2>4, RankType
    <2> QED  BY <2>2, <2>5 DEF Pending
  <1>5. ASSUME NEW x, Pending(s, x), x # h
        PROVE  Pending(u, x) /\ Rank(h) < Rank(x)
    <2>1. PICK i \in 1 .. Len(s) : s[i] = x
      BY <1>5 DEF Pending
    <2>2. i - 1 \in 1 .. Len(u) /\ u[i - 1] = x /\ 1 \in 1 .. Len(s) /\ 1 < i
      BY <1>1, <1>5, <2>1
    <2>3. Rank(s[1]) < Rank(s[i])
      BY <2>2 DEF Ordered
    <2> QED  BY <1>1, <2>1, <2>2, <2>3 DEF Pending
  <1> QED  BY <1>1, <1>2, <1>3, <1>4, <1>5 DEF u, h

\* What a write has to request.
LEMMA WriteOpsPending ==
  ASSUME NEW p, NEW b
  PROVE  /\ WriteOps(p, b) \in Seq(Operations) /\ Ordered(WriteOps(p, b))
         /\ Pending(WriteOps(p, b), "unalias") <=> (p.alias \notin {Null, b.alias} /\ b.alias \ p.alias # {})
         /\ Pending(WriteOps(p, b), "alias") <=> p.alias \notin {Null, b.alias, {}}
         /\ Pending(WriteOps(p, b), "settings") <=> p.dyn # b.dyn
         /\ Pending(WriteOps(p, b), "mappings") <=> RequiresMappingsUpdate(p.mappings, b.mappings)
         /\ \A x : Pending(WriteOps(p, b), x) => x \in {"unalias", "alias", "settings", "mappings", "read"}
  <1> DEFINE c1 == p.alias \notin {Null, b.alias} /\ b.alias \ p.alias # {}
             c2 == p.alias \notin {Null, b.alias, {}}
             c3 == p.dyn # b.dyn
             c4 == RequiresMappingsUpdate(p.mappings, b.mappings)
             s1 == <<>> \o When(c1, "unalias")
             s2 == s1 \o When(c2, "alias")
             s3 == s2 \o When(c3, "settings")
             s4 == s3 \o When(c4, "mappings")
             s5 == s4 \o When(TRUE, "read")
  <1>1. c1 \in BOOLEAN /\ c2 \in BOOLEAN /\ c3 \in BOOLEAN /\ c4 \in BOOLEAN
    BY DEF RequiresMappingsUpdate
  <1>2. WriteOps(p, b) = s5
    <2> HIDE DEF c1, c2, c3, c4
    <2>1. When(TRUE, "read") = <<"read">>
      BY DEF When
    <2>2. s1 = When(c1, "unalias")
      <3>1. <<>> \o <<>> = <<>> /\ <<>> \o <<"unalias">> = <<"unalias">>
        OBVIOUS
      <3> QED  BY <3>1 DEF When
    <2> HIDE DEF s1
    <2> QED  BY <2>1, <2>2 DEF WriteOps, c1, c2, c3, c4
  <1> HIDE DEF c1, c2, c3, c4
  <1>3. /\ Rank("unalias") < Rank("alias") /\ Rank("alias") < Rank("settings") /\ Rank("settings") < Rank("mappings")
        /\ Rank("mappings") < Rank("read")
        /\ {"unalias", "alias", "settings", "mappings", "read"} \subseteq Operations
    BY DEF Rank, Operations, Requests
  <1>4. s1 \in Seq(Operations) /\ Ordered(s1) /\ \A x : Pending(s1, x) <=> (c1 /\ x = "unalias")
    BY <1>1, <1>3, FewPending, NextPending
  <1> HIDE DEF s1
  <1>5. /\ s2 \in Seq(Operations) /\ Ordered(s2)
        /\ \A x : Pending(s2, x) <=> (Pending(s1, x) \/ (c2 /\ x = "alias"))
    <2>1. \A x : Pending(s1, x) => Rank(x) < Rank("alias")
      BY <1>3, <1>4
    <2> QED  BY <1>1, <1>3, <1>4, <2>1, NextPending
  <1> HIDE DEF s2
  <1>6. /\ s3 \in Seq(Operations) /\ Ordered(s3)
        /\ \A x : Pending(s3, x) <=> (Pending(s2, x) \/ (c3 /\ x = "settings"))
    <2>1. \A x : Pending(s2, x) => Rank(x) < Rank("settings")
      BY <1>3, <1>4, <1>5, RankType
    <2> QED  BY <1>1, <1>3, <1>5, <2>1, NextPending
  <1> HIDE DEF s3
  <1>7. /\ s4 \in Seq(Operations) /\ Ordered(s4)
        /\ \A x : Pending(s4, x) <=> (Pending(s3, x) \/ (c4 /\ x = "mappings"))
    <2>1. \A x : Pending(s3, x) => x \in {"unalias", "alias", "settings"}
      BY <1>4, <1>5, <1>6
    <2>2. \A x : Pending(s3, x) => Rank(x) < Rank("mappings")
      BY <1>3, <2>1, RankType
    <2> QED  BY <1>1, <1>3, <1>6, <2>2, NextPending
  <1> HIDE DEF s4
  <1>8. /\ s5 \in Seq(Operations) /\ Ordered(s5)
        /\ \A x : Pending(s5, x) <=> (Pending(s4, x) \/ x = "read")
    <2>1. \A x : Pending(s4, x) => x \in {"unalias", "alias", "settings", "mappings"}
      BY <1>4, <1>5, <1>6, <1>7
    <2>2. \A x : Pending(s4, x) => Rank(x) < Rank("read")
      BY <1>3, <2>1, RankType
    <2> QED  BY <1>3, <1>7, <2>2, NextPending
  <1> HIDE DEF s5
  <1>9. \A x : Pending(s5, x) <=> \/ (c1 /\ x = "unalias") \/ (c2 /\ x = "alias") \/ (c3 /\ x = "settings")
                                 \/ (c4 /\ x = "mappings") \/ x = "read"
    BY <1>1, <1>4, <1>5, <1>6, <1>7, <1>8
  <1>10. /\ Pending(s5, "unalias") <=> c1
         /\ Pending(s5, "alias") <=> c2
         /\ Pending(s5, "settings") <=> c3
         /\ Pending(s5, "mappings") <=> c4
         /\ \A x : Pending(s5, x) => x \in {"unalias", "alias", "settings", "mappings", "read"}
    BY <1>1, <1>9
  <1>11. /\ c1 <=> (p.alias \notin {Null, b.alias} /\ b.alias \ p.alias # {})
         /\ c2 <=> p.alias \notin {Null, b.alias, {}}
         /\ c3 <=> p.dyn # b.dyn
         /\ c4 <=> RequiresMappingsUpdate(p.mappings, b.mappings)
    BY DEF c1, c2, c3, c4
  <1> QED  BY <1>2, <1>8, <1>10, <1>11

(***************************************************************************)
(* Lemmas about mappings.                                                  *)
(***************************************************************************)

LEMMA MappingType ==
  ASSUME NEW m
  PROVE  m \in Mappings <=> DOMAIN m \in SUBSET Fields /\ m \in [DOMAIN m -> FieldTypes]
  <1>1. m \in Mappings => \E S \in SUBSET Fields : m \in [S -> FieldTypes]
    BY DEF Mappings
  <1>2. ASSUME NEW S \in SUBSET Fields, m \in [S -> FieldTypes]
        PROVE  m \in Mappings
    BY <1>2 DEF Mappings
  <1> QED  BY <1>1, <1>2

\* An overlay is a mapping that has everything of the one on top, and of the one
\* below too unless they conflict.
LEMMA OverlayFacts ==
  ASSUME NEW m \in Mappings, NEW n \in Mappings
  PROVE  /\ Overlay(m, n) \in Mappings /\ Covers(Overlay(m, n), m)
         /\ ~Conflict(m, n) => Covers(Overlay(m, n), n)
  <1>1. /\ DOMAIN m \in SUBSET Fields /\ m \in [DOMAIN m -> FieldTypes]
        /\ DOMAIN n \in SUBSET Fields /\ n \in [DOMAIN n -> FieldTypes]
    BY MappingType
  <1> DEFINE u == Overlay(m, n)
  <1>2. /\ DOMAIN u = DOMAIN m \cup DOMAIN n /\ u \in [DOMAIN m \cup DOMAIN n -> FieldTypes]
        /\ \A f \in DOMAIN u : u[f] = IF f \in DOMAIN m THEN m[f] ELSE n[f]
    BY <1>1 DEF Overlay
  <1> HIDE DEF u
  <1>3. u \in Mappings
    BY <1>1, <1>2, MappingType
  <1>4. Covers(u, m)
    BY <1>2 DEF Covers
  <1>5. ~Conflict(m, n) => Covers(u, n)
    BY <1>2 DEF Covers, Conflict
  <1> QED  BY <1>3, <1>4, <1>5 DEF u

LEMMA CoversItself == \A m : Covers(m, m)
  BY DEF Covers

LEMMA CoversTransitive ==
  ASSUME NEW m, NEW n, NEW o, Covers(m, n), Covers(n, o)
  PROVE  Covers(m, o)
  BY DEF Covers

LEMMA MergeFacts ==
  ASSUME NEW m \in Mappings, NEW n \in Mappings
  PROVE  MergeForPlan(m, n) \in Mappings /\ Covers(MergeForPlan(m, n), n)
  BY OverlayFacts, CoversItself DEF MergeForPlan

(***************************************************************************)
(* Parts of steps.                                                         *)
(***************************************************************************)

LEMMA SpendType ==
  ASSUME TypeOK, Spend("faults", MaxFaults) \/ Spend("acts", MaxActs) \/ Spend("edits", MaxEdits)
  PROVE  budget' \in [faults : 0 .. MaxFaults, acts : 0 .. MaxActs, edits : 0 .. MaxEdits]
  BY IndexAssumption DEF TypeOK, Spend

LEMMA ConfigType ==
  ASSUME TypeOK, config # NoConfig
  PROVE  /\ config \in Model /\ config.use \in BOOLEAN
         /\ config.alias # Null => config.alias \in SUBSET Aliases
         /\ config.mappings # Null => config.mappings \in Mappings
  <1>1. config \in [alias : (SUBSET Aliases) \cup {Null}, dyn : Setting, static : Setting, analysis : Setting,
                   mappings : Mappings \cup {Null}, protect : BOOLEAN, use : BOOLEAN]
    BY IndexAssumption DEF TypeOK
  <1> QED  BY <1>1 DEF Model

LEMMA StateType ==
  ASSUME TypeOK, tfstate # NoState
  PROVE  /\ tfstate \in Model /\ tfstate.alias \in SUBSET Aliases /\ tfstate.mappings \in Mappings
         /\ tfstate.alias # Null /\ tfstate.mappings # Null
  BY DEF TypeOK, Model

\* What an update plans.
LEMMA PlannedFacts ==
  ASSUME TypeOK, tfstate # NoState, config # NoConfig
  PROVE  /\ Planned \in Model
         /\ Planned.alias \in SUBSET Aliases /\ Planned.alias # Null /\ config.alias \in {Null, Planned.alias}
         /\ Planned.mappings \in Mappings /\ Planned.mappings # Null
         /\ config.mappings # Null => Covers(Planned.mappings, config.mappings)
         /\ Planned.static = config.static /\ Planned.dyn = config.dyn
  <1> DEFINE a == IF config.alias = Null THEN tfstate.alias ELSE config.alias
             m == IF config.mappings = Null THEN tfstate.mappings ELSE MergeForPlan(tfstate.mappings, config.mappings)
  <1>1. a \in SUBSET Aliases /\ a # Null /\ config.alias \in {Null, a}
    BY ConfigType, StateType
  <1>2. /\ m \in Mappings /\ m # Null
        /\ config.mappings # Null => Covers(m, config.mappings)
    BY ConfigType, StateType, MergeFacts, IndexAssumption
  <1>3. Planned = [config EXCEPT !.alias = a, !.mappings = m] /\ config \in Model
    BY ConfigType DEF Planned, Model
  <1> HIDE DEF a, m
  <1>4. /\ Planned \in Model /\ Planned.alias = a /\ Planned.mappings = m
        /\ Planned.static = config.static /\ Planned.dyn = config.dyn
    BY <1>1, <1>2, <1>3 DEF Model
  <1> QED  BY <1>1, <1>2, <1>4

LEMMA PlanType ==
  ASSUME TypeOK, PlanOK, op \in {"read", "create", "update"}
  PROVE  /\ plan \in Model
         /\ plan.alias # Null => plan.alias \in SUBSET Aliases
         /\ plan.mappings # Null => plan.mappings \in Mappings
         /\ op = "update" => plan.static = tfstate.static
  <1>1. op = "update" => plan.static = tfstate.static
    BY PlannedFacts DEF PlanOK, RequiresReplace
  <1>2. plan \in Model
    BY ConfigType, StateType, PlannedFacts DEF PlanOK
  <1> QED  BY <1>1, <1>2 DEF Model

\* The first request of a call.
LEMMA DoingCall ==
  ASSUME TypeOK, OpsOK, NEW o, Doing(o)
  PROVE  /\ ops \in Seq(Operations) /\ ops # <<>> /\ Head(ops) = o /\ Pending(ops, o) /\ o \in Operations
         /\ Tail(ops) \in Seq(Operations) /\ Ordered(Tail(ops)) /\ op # "idle"
         /\ \A x : Pending(Tail(ops), x) <=> (Pending(ops, x) /\ x # o)
         /\ \A x : Pending(ops, x) => x = o \/ Rank(o) < Rank(x)
  <1>1. ops \in Seq(Operations) /\ ops # <<>> /\ Head(ops) = o /\ Ordered(ops) /\ op # "idle"
    BY DEF TypeOK, OpsOK, Doing, Operations
  <1> QED  BY <1>1, PopPending

\* A read that is due is the last request of its call.
LEMMA DoingRead ==
  ASSUME TypeOK, PlanOK, OpsOK, Doing("read")
  PROVE  /\ op \in {"read", "create", "update"}
         /\ ~Pending(ops, "look") /\ ~Pending(ops, "put") /\ ~Pending(ops, "unalias") /\ ~Pending(ops, "alias")
         /\ ~Pending(ops, "settings") /\ ~Pending(ops, "mappings")
  <1>1. \A x : Pending(ops, x) => x = "read" \/ Rank("read") < Rank(x)
    BY DoingCall
  <1>2. /\ ~(Rank("read") < Rank("look")) /\ ~(Rank("read") < Rank("put")) /\ ~(Rank("read") < Rank("unalias"))
        /\ ~(Rank("read") < Rank("alias")) /\ ~(Rank("read") < Rank("settings")) /\ ~(Rank("read") < Rank("mappings"))
    BY DEF Rank
  <1>3. op \in {"read", "create", "update"}
    BY DoingCall DEF OpsOK
  <1> QED  BY <1>1, <1>2, <1>3

\* Between calls, only what the state says of the index matters.
LEMMA IdleStep ==
  ASSUME TypeOK', OpsOK', op' = "idle",
         (tfstate' # NoState /\ index' # NoIndex) =>
           /\ (refreshed' /\ ~disturbed') => tfstate'.alias = index'.alias
           /\ ~dynHidden' => tfstate'.dyn = index'.dyn
           /\ ~swapped' => tfstate'.static \in {Null, index'.static} /\ Covers(index'.mappings, tfstate'.mappings)
  PROVE  IndexIInv'
  <1>1. PlanOK' /\ ~Writing' /\ SwapOK'
    BY DEF PlanOK, Writing, SwapOK
  <1>2. AliasOK'
    BY <1>1 DEF AliasOK
  <1>3. DynOK'
    BY <1>1 DEF DynOK
  <1>4. StaticOK'
    BY <1>1 DEF StaticOK, StaticIsReal
  <1>5. MappingsOK'
    BY <1>1 DEF MappingsOK
  <1> QED  BY <1>1, <1>2, <1>3, <1>4, <1>5 DEF IndexIInv

\* A call is over.
LEMMA EndFacts ==
  ASSUME EndCall
  PROVE  /\ op' = "idle" /\ todo' = {} /\ disturbed' = disturbed
         /\ ops' \in Seq(Operations) /\ OpsOK'
  <1>1. ops' = <<>> /\ op' = "idle" /\ todo' = {} /\ disturbed' = disturbed
    BY DEF EndCall
  <1>2. ops' \in Seq(Operations) /\ Ordered(ops') /\ \A x : ~Pending(ops', x)
    BY <1>1, FewPending
  <1> QED  BY <1>1, <1>2 DEF OpsOK

\* A call ends with an error.
LEMMA FailStep ==
  ASSUME IndexIInv, Fail, index' \in Index \cup {NoIndex}, swapped' = swapped, dynHidden' \in BOOLEAN,
         budget' \in [faults : 0 .. MaxFaults, acts : 0 .. MaxActs, edits : 0 .. MaxEdits],
         (tfstate # NoState /\ index' # NoIndex) =>
           /\ ~dynHidden' => tfstate.dyn = index'.dyn
           /\ index # NoIndex /\ index'.static = index.static /\ Covers(index'.mappings, index.mappings)
  PROVE  IndexIInv'
  <1>1. TypeOK /\ StaticIsReal /\ MappingsOK
    BY DEF IndexIInv, StaticOK
  <1>2. EndCall /\ UNCHANGED <<config, tfstate, hydrate>> /\ refreshed' = FALSE
    BY DEF Fail
  <1>3. TypeOK'
    BY <1>1, <1>2, EndFacts DEF TypeOK, Operations
  <1>4. ASSUME tfstate # NoState, index' # NoIndex, ~swapped'
        PROVE  tfstate'.static \in {Null, index'.static} /\ Covers(index'.mappings, tfstate'.mappings)
    <2>1. tfstate.static \in {Null, index.static} /\ Covers(index.mappings, tfstate.mappings)
      BY <1>1, <1>4 DEF StaticIsReal, MappingsOK
    <2>2. tfstate' = tfstate /\ index'.static = index.static /\ Covers(index'.mappings, index.mappings)
      BY <1>2, <1>4
    <2>3. Covers(index'.mappings, tfstate.mappings)
      BY <2>1, <2>2, CoversTransitive
    <2> QED  BY <2>1, <2>2, <2>3
  <1> QED  BY <1>2, <1>3, <1>4, EndFacts, IdleStep

\* The requests of a write belong to a create or an update.
LEMMA RequestCall ==
  ASSUME TypeOK, PlanOK, OpsOK, NEW o \in Requests, Doing(o)
  PROVE  /\ o = "delete" => op = "delete" /\ tfstate # NoState /\ ~tfstate.protect
         /\ o # "delete" => op \in {"create", "update"} /\ plan \in Model
         /\ o = "put" => op = "create" /\ tfstate = NoState
         /\ o \in {"unalias", "alias"} => plan.alias \in SUBSET Aliases /\ plan.alias # Null
         /\ o = "mappings" => plan.mappings \in Mappings
  <1>1. Pending(ops, o)
    BY DoingCall
  <1>2. /\ o = "delete" => op = "delete" /\ tfstate # NoState /\ ~tfstate.protect
        /\ o = "put" => op = "create" /\ tfstate = NoState
    BY <1>1 DEF OpsOK, PlanOK
  <1>3. o # "delete" => op \in {"create", "update"}
    BY <1>1 DEF OpsOK, Requests
  <1>4. o # "delete" => plan \in Model
    BY <1>3, PlanType
  <1>5. o \in {"unalias", "alias"} => plan.alias # Null
    BY <1>1 DEF OpsOK
  <1>6. o = "mappings" => plan.mappings # Null
    BY <1>1 DEF OpsOK
  <1> QED  BY <1>2, <1>3, <1>4, <1>5, <1>6, PlanType

\* What each request does to the index.
LEMMA EffectFacts ==
  ASSUME TypeOK, PlanOK, OpsOK, NEW o \in Requests, Doing(o), Accepted(o), NEW a, o = "alias" => a \in Aliases,
         Effect(o, a)
  PROVE  /\ index' \in Index \cup {NoIndex}
         /\ o = "put" => index = NoIndex /\ index' = NewIndex /\ index' \in Index
         /\ o = "delete" => index' = NoIndex
         /\ (o # "put" /\ index = NoIndex) => index' = NoIndex
         /\ (o \notin {"put", "delete"} /\ index # NoIndex) =>
              /\ index' \in Index /\ index'.static = index.static /\ Covers(index'.mappings, index.mappings)
              /\ index'.dyn = IF o = "settings" THEN plan.dyn ELSE index.dyn
              /\ o = "unalias" => index'.alias = index.alias \ (base.alias \ plan.alias)
              /\ o = "alias" => index'.alias = index.alias \cup {a}
              /\ o \in {"settings", "mappings"} => index'.alias = index.alias
              /\ o = "mappings" => Covers(index'.mappings, plan.mappings)
  <1>1. CASE o = "put"
    <2>1. index = NoIndex /\ index' = NewIndex
      BY <1>1 DEF Accepted, Effect
    <2>2. plan \in Model
      BY <1>1, RequestCall
    <2>3. plan.mappings # Null => Overlay(plan.mappings, Template) \in Mappings
      BY <2>2, OverlayFacts, IndexAssumption DEF Model
    <2> DEFINE m == IF plan.mappings = Null THEN Template ELSE Overlay(plan.mappings, Template)
    <2>4. m \in Mappings
      BY <2>3, IndexAssumption
    <2>5. NewIndex = [alias |-> IF plan.alias = Null THEN {} ELSE plan.alias, dyn |-> plan.dyn,
                      static |-> IF plan.static = Null THEN DefaultStatic ELSE plan.static,
                      analysis |-> plan.analysis, mappings |-> m]
      BY DEF NewIndex
    <2> HIDE DEF m
    <2>6. NewIndex \in Index
      BY <2>2, <2>4, <2>5, IndexAssumption DEF Model, Index, Setting
    <2> QED  BY <1>1, <2>1, <2>6
  <1>2. CASE o # "put" /\ index = NoIndex
    BY <1>2 DEF Effect
  <1>3. CASE o # "put" /\ index # NoIndex
    <2>1. index \in Index /\ index.mappings \in Mappings /\ index.alias \in SUBSET Aliases
      BY <1>3 DEF TypeOK, Index
    <2>2. CASE o = "delete"
      BY <1>3, <2>2 DEF Effect
    <2>3. CASE o = "unalias"
      <3>1. index' = [index EXCEPT !.alias = @ \ (base.alias \ plan.alias)]
        BY <1>3, <2>3 DEF Effect
      <3> QED  BY <1>3, <2>1, <2>3, <3>1, CoversItself DEF Index
    <2>4. CASE o = "alias"
      <3>1. index' = [index EXCEPT !.alias = @ \cup {a}]
        BY <1>3, <2>4 DEF Effect
      <3> QED  BY <1>3, <2>1, <2>4, <3>1, CoversItself DEF Index
    <2>5. CASE o = "settings"
      <3>1. index' = [index EXCEPT !.dyn = plan.dyn]
        BY <1>3, <2>5 DEF Effect, DynAfter
      <3>2. plan.dyn \in Setting
        BY <2>5, RequestCall DEF Model
      <3> QED  BY <1>3, <2>1, <2>5, <3>1, <3>2, CoversItself DEF Index
    <2>6. CASE o = "mappings"
      <3> DEFINE m == Overlay(plan.mappings, index.mappings)
      <3>1. index' = [index EXCEPT !.mappings = m] /\ ~Conflict(plan.mappings, index.mappings)
        BY <1>3, <2>6 DEF Effect, Accepted
      <3>2. m \in Mappings /\ Covers(m, plan.mappings) /\ Covers(m, index.mappings)
        BY <2>1, <2>6, <3>1, RequestCall, OverlayFacts
      <3> HIDE DEF m
      <3> QED  BY <1>3, <2>1, <2>6, <3>1, <3>2 DEF Index
    <2> QED  BY <1>3, <2>2, <2>3, <2>4, <2>5, <2>6 DEF Requests
  <1> QED  BY <1>1, <1>2, <1>3

(***************************************************************************)
(* The steps.                                                              *)
(***************************************************************************)

\* Only an update of the setting puts it at stake: during any other call the state
\* keeps telling it.
LEMMA DynKept ==
  ASSUME IndexIInv, tfstate # NoState, index # NoIndex, ~dynHidden, ~DynAtStake
  PROVE  tfstate.dyn = index.dyn /\ ~Pending(ops, "settings")
  <1>1. PlanOK /\ OpsOK /\ DynOK
    BY DEF IndexIInv
  <1>2. CASE op = "update"
    <2>1. plan.dyn = base.dyn /\ base = tfstate
      BY <1>1, <1>2 DEF DynAtStake, PlanOK
    <2>2. ~Pending(ops, "settings") /\ Writing
      BY <1>1, <1>2, <2>1 DEF OpsOK, Writing
    <2> QED  BY <1>1, <1>2, <2>1, <2>2 DEF DynOK
  <1>3. CASE op # "update"
    BY <1>1, <1>3 DEF DynOK, OpsOK, PlanOK
  <1> QED  BY <1>2, <1>3

\* The calls that end with an error.
LEMMA FailSteps ==
  ASSUME IndexIInv, AdoptionRefused \/ Refused \/ CallFails \/ DeletionProtected
  PROVE  IndexIInv'
  <1>1. TypeOK /\ PlanOK /\ OpsOK /\ DynOK
    BY DEF IndexIInv
  <1>2. /\ index \in Index \cup {NoIndex} /\ dynHidden \in BOOLEAN
        /\ budget \in [faults : 0 .. MaxFaults, acts : 0 .. MaxActs, edits : 0 .. MaxEdits]
    BY <1>1 DEF TypeOK
  <1>3. CASE AdoptionRefused
    <2>1. tfstate = NoState /\ Fail /\ UNCHANGED <<index, swapped, dynHidden, budget>>
      BY <1>1, <1>3, DoingCall DEF AdoptionRefused, OpsOK, PlanOK, history
    <2> QED  BY <1>2, <2>1, FailStep
  <1>4. CASE Refused
    <2>1. Fail /\ UNCHANGED <<index, swapped, budget>> /\ dynHidden' = (dynHidden \/ DynAtStake)
      BY <1>4 DEF Refused
    <2>2. dynHidden' \in BOOLEAN
      BY <1>2, <2>1 DEF DynAtStake
    <2>3. (tfstate # NoState /\ index # NoIndex /\ ~dynHidden') => tfstate.dyn = index.dyn
      BY <2>1, DynKept
    <2> QED  BY <1>2, <2>1, <2>2, <2>3, CoversItself, FailStep
  <1>5. CASE DeletionProtected
    <2>1. op = "delete" /\ Fail /\ UNCHANGED <<index, swapped, dynHidden, budget>>
      BY <1>1, <1>5, DoingCall DEF DeletionProtected, OpsOK, history
    <2>2. (tfstate # NoState /\ index # NoIndex /\ ~dynHidden) => tfstate.dyn = index.dyn
      BY <1>1, <2>1 DEF DynOK
    <2> QED  BY <1>2, <2>1, <2>2, CoversItself, FailStep
  <1>6. CASE CallFails
    <2>1. Fail /\ swapped' = swapped /\ dynHidden' = (dynHidden \/ DynAtStake) /\ Spend("faults", MaxFaults)
      BY <1>6 DEF CallFails
    <2>2. dynHidden' \in BOOLEAN
      BY <1>2, <2>1 DEF DynAtStake
    <2>3. (tfstate # NoState /\ index # NoIndex /\ ~dynHidden') => tfstate.dyn = index.dyn /\ ~Pending(ops, "settings")
      BY <2>1, DynKept
    <2>4. budget' \in [faults : 0 .. MaxFaults, acts : 0 .. MaxActs, edits : 0 .. MaxEdits]
      BY <1>1, <2>1, SpendType
    <2>5. CASE UNCHANGED index
      BY <1>2, <2>1, <2>2, <2>3, <2>4, <2>5, CoversItself, FailStep
    <2>6. CASE ~UNCHANGED index
      <3>1. PICK o \in Requests, a \in todo \cup {Null} : Doing(o) /\ Accepted(o) /\ (o = "alias" => a # Null) /\ Effect(o, a)
        BY <1>6, <2>6 DEF CallFails
      <3>2. o = "alias" => a \in Aliases
        BY <1>1, <3>1 DEF TypeOK
      <3>3. o # "put" \/ tfstate = NoState
        BY <1>1, <3>1, RequestCall
      <3>4. /\ index' \in Index \cup {NoIndex}
            /\ (tfstate # NoState /\ index' # NoIndex) =>
                  index # NoIndex /\ index'.static = index.static /\ Covers(index'.mappings, index.mappings)
        BY <1>1, <3>1, <3>2, <3>3, EffectFacts
      <3>5. Pending(ops, o)
        BY <1>1, <3>1, DoingCall
      <3>6. (tfstate # NoState /\ index' # NoIndex /\ ~dynHidden') => tfstate.dyn = index'.dyn
        <4> SUFFICES ASSUME tfstate # NoState, index' # NoIndex, ~dynHidden'
                     PROVE  tfstate.dyn = index'.dyn
          OBVIOUS
        <4>1. index # NoIndex /\ o # "settings" /\ tfstate.dyn = index.dyn
          BY <2>3, <3>4, <3>5
        <4>2. o \notin {"put", "delete"}
          BY <1>1, <3>1, <3>2, <3>3, EffectFacts
        <4>3. index'.dyn = index.dyn
          BY <1>1, <3>1, <3>2, <4>1, <4>2, EffectFacts
        <4> QED  BY <4>1, <4>3
      <3> QED  BY <2>1, <2>2, <2>4, <3>4, <3>6, FailStep
    <2> QED  BY <2>5, <2>6
  <1> QED  BY <1>3, <1>4, <1>5, <1>6

\* What a read makes of the index and of the model it is given.
LEMMA PopulateFacts ==
  ASSUME NEW m, m = plan, m \in Model, index \in Index
  PROVE  /\ PopulateFromAPI(m) \in Model
         /\ PopulateFromAPI(m).alias = index.alias
         /\ PopulateFromAPI(m).mappings = index.mappings
              \/ (m.mappings # Null /\ PopulateFromAPI(m).mappings = m.mappings)
         /\ PopulateFromAPI(m).dyn = IF op = "read" /\ hydrate /\ index.dyn # Null THEN index.dyn ELSE m.dyn
         /\ PopulateFromAPI(m).static = IF op = "read" /\ hydrate THEN index.static ELSE m.static
  <1> DEFINE n == IF KeepMappings(m) THEN m.mappings ELSE index.mappings
             d == IF index.dyn = Null THEN m.dyn ELSE index.dyn
             y == IF index.analysis = Null THEN m.analysis ELSE index.analysis
             u == IF op = "read" /\ hydrate THEN Hydrated(m) ELSE m
  <1>1. n = index.mappings \/ (m.mappings # Null /\ n = m.mappings)
    BY DEF KeepMappings
  <1>2. n \in Mappings
    BY <1>1 DEF Model, Index
  <1>3. d \in Setting /\ y \in Setting
    BY DEF Model, Index
  <1>4. Hydrated(m) = [m EXCEPT !.dyn = d, !.static = index.static, !.analysis = y]
    BY DEF Hydrated, Model
  <1>5. d = IF index.dyn # Null THEN index.dyn ELSE m.dyn
    OBVIOUS
  <1> HIDE DEF d, y
  <1>6. Hydrated(m) \in Model /\ Hydrated(m).mappings = m.mappings /\ Hydrated(m).dyn = d /\ Hydrated(m).static = index.static
    BY <1>3, <1>4 DEF Model, Index, Setting
  <1>7. /\ u \in Model /\ u.mappings = m.mappings
        /\ u.dyn = IF op = "read" /\ hydrate /\ index.dyn # Null THEN index.dyn ELSE m.dyn
        /\ u.static = IF op = "read" /\ hydrate THEN index.static ELSE m.static
    BY <1>5, <1>6
  <1>8. PopulateFromAPI(m) = [u EXCEPT !.alias = index.alias, !.mappings = IF KeepMappings(m) THEN @ ELSE index.mappings]
    BY DEF PopulateFromAPI
  <1> HIDE DEF u
  <1>9. PopulateFromAPI(m) = [u EXCEPT !.alias = index.alias, !.mappings = n]
    BY <1>7, <1>8 DEF Model
  <1> HIDE DEF n
  <1>10. index.alias \in SUBSET Aliases
    BY DEF Index
  <1> QED  BY <1>1, <1>2, <1>7, <1>9, <1>10 DEF Model

\* The steps that change what is in the state.
LEMMA SaveSteps ==
  ASSUME IndexIInv, Read \/ ReadNotFound \/ Delete \/ Import
  PROVE  IndexIInv'
  <1>1. TypeOK /\ PlanOK /\ OpsOK /\ AliasOK /\ DynOK /\ StaticOK /\ MappingsOK
    BY DEF IndexIInv
  <1>2. CASE Read
    <2>1. /\ Doing("read") /\ index # NoIndex /\ tfstate' = PopulateFromAPI(plan) /\ EndCall
          /\ refreshed' = (op = "read")
          /\ dynHidden' = /\ dynHidden \/ (op = "create" /\ index.dyn # plan.dyn)
                          /\ ~(op = "read" /\ hydrate /\ index.dyn # Null)
          /\ UNCHANGED <<swapped, index, config, hydrate, budget>>
      BY <1>2 DEF Read
    <2>2. index \in Index /\ op \in {"read", "create", "update"} /\ plan \in Model
      BY <1>1, <2>1, DoingRead, PlanType DEF TypeOK
    <2>3. /\ tfstate' \in Model /\ tfstate'.alias = index.alias
          /\ tfstate'.mappings = index.mappings \/ (plan.mappings # Null /\ tfstate'.mappings = plan.mappings)
          /\ tfstate'.dyn = IF op = "read" /\ hydrate /\ index.dyn # Null THEN index.dyn ELSE plan.dyn
          /\ tfstate'.static = IF op = "read" /\ hydrate THEN index.static ELSE plan.static
      <3>1. PICK m : m = plan
        OBVIOUS
      <3> QED  BY <2>1, <2>2, <3>1, PopulateFacts
    <2>4. op # "read" => Writing
      BY <1>1, <2>1, <2>2, DoingRead DEF Writing
    <2>5. ~dynHidden' => tfstate'.dyn = index'.dyn
      <3>1. CASE op = "read"
        BY <1>1, <2>1, <2>3, <3>1 DEF DynOK, PlanOK
      <3>2. CASE op # "read"
        BY <1>1, <2>1, <2>2, <2>3, <2>4, <3>2, DoingRead DEF DynOK
      <3> QED  BY <3>1, <3>2
    <2>6. ~swapped' => tfstate'.static \in {Null, index'.static}
      <3>1. CASE op = "read"
        BY <1>1, <2>1, <2>3, <3>1 DEF StaticOK, StaticIsReal, PlanOK
      <3>2. CASE op # "read"
        BY <1>1, <2>1, <2>3, <2>4, <3>2 DEF StaticOK
      <3> QED  BY <3>1, <3>2
    <2>7. ~swapped' => Covers(index'.mappings, tfstate'.mappings)
      <3>1. CASE tfstate'.mappings = index.mappings
        BY <2>1, <3>1, CoversItself
      <3>2. CASE op = "read" /\ tfstate'.mappings = plan.mappings
        BY <1>1, <2>1, <3>2 DEF MappingsOK, PlanOK
      <3>3. CASE op # "read" /\ plan.mappings # Null /\ tfstate'.mappings = plan.mappings
        BY <1>1, <2>1, <2>4, <3>3, DoingRead DEF MappingsOK
      <3> QED  BY <2>3, <3>1, <3>2, <3>3
    <2>8. refreshed' \in BOOLEAN /\ dynHidden' \in BOOLEAN
      BY <2>1
    <2>9. tfstate'.alias # Null /\ tfstate'.mappings # Null
      BY <2>2, <2>3, IndexAssumption DEF Index
    <2>10. TypeOK'
      BY <1>1, <2>1, <2>3, <2>8, <2>9, EndFacts DEF TypeOK, Operations
    <2> QED  BY <2>1, <2>3, <2>5, <2>6, <2>7, <2>10, EndFacts, IdleStep
  <1>3. CASE Import
    <2>1. /\ op = "idle" /\ index # NoIndex /\ UNCHANGED <<index, config, refreshed, callVars, budget>>
          /\ tfstate' = [alias |-> index.alias, dyn |-> index.dyn, static |-> index.static,
                         analysis |-> index.analysis, mappings |-> index.mappings, protect |-> TRUE, use |-> Null]
          /\ hydrate' = TRUE /\ swapped' = FALSE /\ dynHidden' = FALSE
      BY <1>3 DEF Import
    <2>2. index \in Index
      BY <1>1, <2>1 DEF TypeOK
    <2>3. /\ tfstate' \in Model /\ tfstate'.alias = index.alias /\ tfstate'.dyn = index.dyn
          /\ tfstate'.static = index.static /\ tfstate'.mappings = index.mappings
          /\ tfstate'.alias # Null /\ tfstate'.mappings # Null
      BY <2>1, <2>2, IndexAssumption DEF Index, Model, Setting
    <2>4. UNCHANGED <<op, ops, plan, base, todo, disturbed>>
      BY <2>1 DEF callVars
    <2>5. OpsOK'
      <3>1. ~Pending(ops, "delete")
        BY <1>1, <2>1 DEF OpsOK
      <3> QED  BY <1>1, <2>4, <3>1 DEF OpsOK
    <2>6. TypeOK'
      BY <1>1, <2>1, <2>3, <2>4 DEF TypeOK
    <2> QED  BY <2>1, <2>3, <2>4, <2>5, <2>6, CoversItself, IdleStep
  <1>4. CASE Delete \/ (ReadNotFound /\ op = "read")
    <2>1. /\ EndCall /\ tfstate' = NoState /\ hydrate' = FALSE /\ refreshed' = FALSE
          /\ UNCHANGED <<config, swapped, dynHidden, budget>>
      BY <1>4 DEF Delete, ReadNotFound, history
    <2>2. index' \in Index \cup {NoIndex}
      BY <1>1, <1>4 DEF Delete, ReadNotFound, Effect, TypeOK
    <2>3. TypeOK'
      BY <1>1, <2>1, <2>2, EndFacts DEF TypeOK, Operations
    <2> QED  BY <2>1, <2>3, EndFacts, IdleStep
  <1>5. CASE ReadNotFound /\ op # "read"
    <2>1. Fail /\ index = NoIndex /\ UNCHANGED <<index, swapped, dynHidden, budget>>
      BY <1>5 DEF ReadNotFound, history
    <2> QED  BY <1>1, <2>1, FailStep DEF TypeOK
  <1> QED  BY <1>2, <1>3, <1>4, <1>5

\* The practitioner and Terraform core between calls.
LEMMA IdleSteps ==
  ASSUME IndexIInv, EditConfig \/ NewRun \/ UNCHANGED vars
  PROVE  IndexIInv'
  <1>1. TypeOK /\ PlanOK /\ OpsOK /\ AliasOK /\ DynOK /\ StaticOK /\ MappingsOK
    BY DEF IndexIInv
  <1>2. CASE UNCHANGED vars
    <2>1. UNCHANGED <<index, config, tfstate, hydrate, refreshed, op, ops, plan, base, todo, disturbed, swapped, dynHidden, budget>>
      BY <1>2 DEF vars, tfVars, callVars, history
    <2>2. TypeOK' /\ OpsOK'
      BY <1>1, <2>1 DEF TypeOK, OpsOK
    <2>3. PlanOK' /\ SwapOK'
      BY <1>1, <2>1 DEF IndexIInv, PlanOK, SwapOK, RequiresReplace, Planned
    <2>4. AliasOK' /\ DynOK' /\ StaticOK' /\ MappingsOK'
      BY <1>1, <2>1 DEF AliasOK, DynOK, StaticOK, StaticIsReal, MappingsOK, Writing
    <2> QED  BY <2>2, <2>3, <2>4 DEF IndexIInv
  <1>3. CASE EditConfig \/ NewRun
    <2>1. op = "idle" /\ refreshed' = FALSE /\ config' \in Configs \cup {NoConfig}
      BY <1>1, <1>3 DEF EditConfig, NewRun, TypeOK
    <2>2. UNCHANGED <<index, tfstate, hydrate, op, ops, plan, base, todo, disturbed, swapped, dynHidden>>
      BY <1>3 DEF EditConfig, NewRun, callVars, history
    <2>3. budget' \in [faults : 0 .. MaxFaults, acts : 0 .. MaxActs, edits : 0 .. MaxEdits]
      BY <1>1, <1>3, SpendType DEF EditConfig, NewRun, TypeOK
    <2>4. TypeOK' /\ OpsOK'
      BY <1>1, <2>1, <2>2, <2>3 DEF TypeOK, OpsOK
    <2>5. (tfstate' # NoState /\ index' # NoIndex) =>
            /\ ~dynHidden' => tfstate'.dyn = index'.dyn
            /\ ~swapped' => tfstate'.static \in {Null, index'.static} /\ Covers(index'.mappings, tfstate'.mappings)
      BY <1>1, <2>1, <2>2 DEF DynOK, StaticOK, StaticIsReal, MappingsOK
    <2> QED  BY <2>1, <2>2, <2>4, <2>5, IdleStep
  <1> QED  BY <1>2, <1>3

\* Another client acts, in the middle of a call or between calls.
LEMMA OtherStep ==
  ASSUME IndexIInv, OtherClient
  PROVE  IndexIInv'
  <1>1. TypeOK /\ PlanOK /\ OpsOK /\ AliasOK /\ DynOK /\ StaticOK /\ MappingsOK
    BY DEF IndexIInv
  <1>2. UNCHANGED <<config, tfstate, hydrate, refreshed, op, ops, plan, base, todo>> /\ disturbed' = TRUE
    BY DEF OtherClient, tfVars
  <1>3. budget' \in [faults : 0 .. MaxFaults, acts : 0 .. MaxActs, edits : 0 .. MaxEdits]
    BY <1>1, SpendType DEF OtherClient
  <1>4. PlanOK' /\ OpsOK' /\ SwapOK' /\ AliasOK'
    BY <1>1, <1>2 DEF PlanOK, OpsOK, SwapOK, AliasOK, RequiresReplace, Planned
  <1> DEFINE New == [alias |-> {}, dyn |-> Null, static |-> DefaultStatic, analysis |-> Null, mappings |-> Template]
  <1>5. New \in Index
    BY IndexAssumption DEF Index, Setting
  <1> HIDE DEF New
  <1>6. CASE index' \in {New, NoIndex} /\ swapped' = TRUE /\ dynHidden' = TRUE
    <2>1. TypeOK'
      BY <1>1, <1>2, <1>3, <1>5, <1>6 DEF TypeOK
    <2>2. DynOK' /\ StaticOK' /\ MappingsOK'
      BY <1>6 DEF DynOK, StaticOK, StaticIsReal, MappingsOK
    <2> QED  BY <1>4, <2>1, <2>2 DEF IndexIInv
  <1>7. ASSUME index # NoIndex, index' \in Index, index'.static = index.static,
               Covers(index'.mappings, index.mappings), swapped' = swapped, dynHidden' \in BOOLEAN,
               ~dynHidden' => ~dynHidden /\ index'.dyn = index.dyn
        PROVE  IndexIInv'
    <2>1. TypeOK'
      BY <1>1, <1>2, <1>3, <1>7 DEF TypeOK
    <2>2. Writing' => Writing
      BY <1>2, <1>7 DEF Writing
    <2>3. DynOK'
      BY <1>1, <1>2, <1>7, <2>2 DEF DynOK
    <2>4. StaticOK'
      BY <1>1, <1>2, <1>7, <2>2 DEF StaticOK, StaticIsReal
    <2>5. MappingsOK'
      <3>1. ASSUME NEW m, Covers(index.mappings, m)
            PROVE  Covers(index'.mappings, m)
        BY <1>7, <3>1, CoversTransitive
      <3> QED  BY <1>1, <1>2, <1>7, <2>2, <3>1 DEF MappingsOK
    <2> QED  BY <1>4, <2>1, <2>3, <2>4, <2>5 DEF IndexIInv
  <1>8. ASSUME index # NoIndex
        PROVE  index \in Index /\ index.mappings \in Mappings
    BY <1>1, <1>8 DEF TypeOK, Index
  <1>9. CASE /\ index # NoIndex /\ UNCHANGED <<swapped, dynHidden>>
             /\ \E a \in Aliases : index' = [index EXCEPT !.alias = IF a \in @ THEN @ \ {a} ELSE @ \cup {a}]
    <2>1. PICK a \in Aliases : index' = [index EXCEPT !.alias = IF a \in @ THEN @ \ {a} ELSE @ \cup {a}]
      BY <1>9
    <2>2. index' \in Index /\ index'.static = index.static /\ index'.mappings = index.mappings /\ index'.dyn = index.dyn
      BY <1>8, <1>9, <2>1 DEF Index
    <2> QED  BY <1>1, <1>7, <1>9, <2>2, CoversItself DEF TypeOK
  <1>10. CASE /\ index # NoIndex /\ dynHidden' = TRUE /\ UNCHANGED swapped
              /\ \E v \in Setting \ {index.dyn} : index' = [index EXCEPT !.dyn = v]
    <2>1. index' \in Index /\ index'.static = index.static /\ index'.mappings = index.mappings
      BY <1>8, <1>10 DEF Index
    <2> QED  BY <1>7, <1>10, <2>1, CoversItself
  <1>11. CASE /\ index # NoIndex /\ UNCHANGED <<swapped, dynHidden>>
              /\ \E f \in Fields \ DOMAIN index.mappings, t \in FieldTypes :
                   index' = [index EXCEPT !.mappings = Overlay(@, [x \in {f} |-> t])]
    <2>1. PICK f \in Fields, t \in FieldTypes : index' = [index EXCEPT !.mappings = Overlay(@, [x \in {f} |-> t])]
      BY <1>11
    <2> DEFINE n == [x \in {f} |-> t]
               m == Overlay(index.mappings, n)
    <2>2. n \in Mappings
      BY MappingType
    <2>3. m \in Mappings /\ Covers(m, index.mappings)
      BY <1>8, <1>11, <2>2, OverlayFacts
    <2>4. index' = [index EXCEPT !.mappings = m]
      BY <1>8, <1>11, <2>1
    <2> HIDE DEF m
    <2>5. index' \in Index /\ index'.static = index.static /\ index'.mappings = m /\ index'.dyn = index.dyn
      BY <1>8, <1>11, <2>3, <2>4 DEF Index
    <2> QED  BY <1>1, <1>7, <1>11, <2>3, <2>5 DEF TypeOK
  <1> QED  BY <1>6, <1>9, <1>10, <1>11 DEF OtherClient, history, New

\* A refresh, a create, an update or a destroy begins.
LEMMA BeginSteps ==
  ASSUME IndexIInv, BeginRead \/ BeginCreate \/ BeginUpdate \/ BeginDelete
  PROVE  IndexIInv'
  <1>1. TypeOK /\ OpsOK /\ AliasOK /\ DynOK /\ StaticOK /\ MappingsOK
    BY DEF IndexIInv
  <1>2. ASSUME NEW o \in {"read", "create", "update", "delete"}, NEW p, NEW b, NEW s \in Seq(Operations), Begin(o, p, b, s),
               o = "update" => p.alias \in SUBSET Aliases, hydrate' \in BOOLEAN
        PROVE  /\ TypeOK' /\ op = "idle" /\ op' = o /\ plan' = p /\ base' = b /\ ops' = s
               /\ o = "update" => todo' = p.alias
               /\ o \in {"update", "delete"} => disturbed' = disturbed /\ swapped' = swapped
               /\ o = "read" => swapped' = swapped
               /\ o = "create" => swapped' = FALSE
               /\ UNCHANGED <<index, config, tfstate, refreshed, dynHidden>>
    <2>1. /\ op = "idle" /\ op' = o /\ plan' = p /\ base' = b /\ ops' = s
          /\ todo' = IF o = "update" THEN p.alias ELSE {}
          /\ disturbed' = (disturbed /\ o \notin {"read", "create"})
          /\ swapped' = (swapped /\ o # "create")
          /\ UNCHANGED <<index, config, tfstate, refreshed, dynHidden, budget>>
      BY <1>2 DEF Begin
    <2>2. disturbed' \in BOOLEAN /\ swapped' \in BOOLEAN /\ todo' \subseteq Aliases
      BY <1>2, <2>1
    <2>3. TypeOK'
      BY <1>1, <1>2, <2>1, <2>2 DEF TypeOK, Operations
    <2>4. /\ o \in {"update", "delete"} => disturbed' = disturbed /\ swapped' = swapped
          /\ o = "read" => swapped' = swapped
      BY <1>1, <2>1 DEF TypeOK
    <2> QED  BY <2>1, <2>3, <2>4
  <1>3. hydrate' \in BOOLEAN
    BY <1>1 DEF BeginRead, BeginCreate, BeginUpdate, BeginDelete, TypeOK
  <1>4. {"look", "read", "refuse", "delete"} \subseteq Operations
    BY DEF Operations, Requests
  <1>5. CASE BeginRead
    <2> DEFINE s == <<"read">>
    <2>1. Begin("read", tfstate, NoState, s) /\ tfstate # NoState /\ ~refreshed
      BY <1>5 DEF BeginRead
    <2>2. s \in Seq(Operations) /\ Ordered(s) /\ \A x : Pending(s, x) <=> x = "read"
      BY <1>4, FewPending
    <2> HIDE DEF s
    <2>3. /\ TypeOK' /\ op = "idle" /\ op' = "read" /\ plan' = tfstate /\ ops' = s /\ swapped' = swapped
          /\ UNCHANGED <<index, config, tfstate, refreshed, dynHidden>>
      BY <1>2, <1>3, <2>1, <2>2
    <2>4. OpsOK' /\ PlanOK' /\ SwapOK' /\ ~Writing'
      BY <2>1, <2>2, <2>3 DEF OpsOK, PlanOK, SwapOK, Writing
    <2>5. AliasOK' /\ DynOK' /\ StaticOK' /\ MappingsOK'
      BY <1>1, <2>1, <2>3, <2>4 DEF AliasOK, DynOK, StaticOK, StaticIsReal, MappingsOK
    <2> QED  BY <2>3, <2>4, <2>5 DEF IndexIInv
  <1>6. CASE BeginCreate
    <2> DEFINE s == IF config.use THEN <<"look">> ELSE <<"put", "read">>
    <2>1. Begin("create", config, NoState, s) /\ tfstate = NoState /\ config # NoConfig
      BY <1>6 DEF BeginCreate
    <2>2. /\ s \in Seq(Operations) /\ Ordered(s)
          /\ (\A x : Pending(s, x) <=> x = "look") \/ (\A x : Pending(s, x) <=> x \in {"put", "read"})
      BY <1>4, FewPending
    <2> HIDE DEF s
    <2>3. /\ TypeOK' /\ op' = "create" /\ plan' = config /\ ops' = s /\ swapped' = FALSE
          /\ UNCHANGED <<index, config, tfstate, refreshed, dynHidden>>
      BY <1>2, <1>3, <2>1, <2>2
    <2>4. PlanOK' /\ SwapOK' /\ ~Writing'
      BY <2>1, <2>2, <2>3 DEF PlanOK, SwapOK, Writing
    <2>5. OpsOK'
      BY <2>2, <2>3 DEF OpsOK
    <2>6. AliasOK' /\ DynOK' /\ StaticOK' /\ MappingsOK'
      BY <2>1, <2>3, <2>4 DEF AliasOK, DynOK, StaticOK, StaticIsReal, MappingsOK
    <2> QED  BY <2>3, <2>4, <2>5, <2>6 DEF IndexIInv
  <1>7. CASE BeginDelete
    <2> DEFINE s == IF tfstate.protect THEN <<"refuse">> ELSE <<"delete">>
    <2>1. Begin("delete", NoState, NoState, s) /\ tfstate # NoState
      BY <1>7 DEF BeginDelete
    <2>2. /\ s \in Seq(Operations) /\ Ordered(s)
          /\ (\A x : Pending(s, x) <=> x = "refuse") \/ (~tfstate.protect /\ \A x : Pending(s, x) <=> x = "delete")
      BY <1>4, FewPending
    <2> HIDE DEF s
    <2>3. /\ TypeOK' /\ op = "idle" /\ op' = "delete" /\ ops' = s /\ disturbed' = disturbed /\ swapped' = swapped
          /\ UNCHANGED <<index, config, tfstate, refreshed, dynHidden>>
      BY <1>2, <1>3, <2>1, <2>2
    <2>4. OpsOK' /\ PlanOK' /\ SwapOK' /\ ~Writing'
      BY <2>1, <2>2, <2>3 DEF OpsOK, PlanOK, SwapOK, Writing
    <2>5. AliasOK' /\ DynOK' /\ StaticOK' /\ MappingsOK'
      BY <1>1, <2>3, <2>4 DEF AliasOK, DynOK, StaticOK, StaticIsReal, MappingsOK
    <2> QED  BY <2>3, <2>4, <2>5 DEF IndexIInv
  <1>8. CASE BeginUpdate
    <2> DEFINE p == Planned
               s == WriteOps(p, tfstate)
    <2>1. Begin("update", p, tfstate, s) /\ tfstate # NoState /\ config # NoConfig /\ ~RequiresReplace /\ refreshed
      BY <1>8 DEF BeginUpdate
    <2>2. /\ p \in Model /\ p.alias \in SUBSET Aliases /\ p.alias # Null /\ p.mappings # Null
          /\ p.static = tfstate.static /\ tfstate.alias \in SUBSET Aliases
      BY <1>1, <2>1, PlannedFacts, StateType DEF RequiresReplace
    <2>3. /\ s \in Seq(Operations) /\ Ordered(s)
          /\ Pending(s, "unalias") <=> (p.alias \notin {Null, tfstate.alias} /\ tfstate.alias \ p.alias # {})
          /\ Pending(s, "alias") <=> p.alias \notin {Null, tfstate.alias, {}}
          /\ Pending(s, "settings") <=> p.dyn # tfstate.dyn
          /\ Pending(s, "mappings") <=> RequiresMappingsUpdate(p.mappings, tfstate.mappings)
          /\ \A x : Pending(s, x) => x \in {"unalias", "alias", "settings", "mappings", "read"}
      <3>1. PICK q, t : q = p /\ t = tfstate
        OBVIOUS
      <3>2. s = WriteOps(q, t)
        BY <3>1
      <3> HIDE DEF p, s
      <3> QED  BY <3>1, <3>2, WriteOpsPending
    <2>4. PlanOK'
      <3>1. op' = "update" /\ plan' = p /\ base' = tfstate /\ UNCHANGED <<config, tfstate>>
        BY <2>1 DEF Begin
      <3>2. plan' = Planned' /\ RequiresReplace' = RequiresReplace
        BY <3>1 DEF Planned, RequiresReplace
      <3> QED  BY <2>1, <3>1, <3>2 DEF PlanOK
    <2> HIDE DEF p, s
    <2>5. /\ TypeOK' /\ op = "idle" /\ op' = "update" /\ plan' = p /\ base' = tfstate /\ ops' = s /\ todo' = p.alias
          /\ disturbed' = disturbed /\ swapped' = swapped
          /\ UNCHANGED <<index, config, tfstate, refreshed, dynHidden>>
      <3>1. s \in Seq(Operations) /\ p.alias \in SUBSET Aliases /\ Begin("update", p, tfstate, s)
        BY <2>1, <2>2, <2>3
      <3> QED  BY <1>2, <1>3, <3>1
    <2>6. SwapOK' /\ (Writing' => index # NoIndex)
      BY <2>5 DEF SwapOK, Writing
    <2>7. OpsOK'
      BY <2>2, <2>3, <2>5 DEF OpsOK
    <2>8. AliasOK'
      <3>1. (index # NoIndex /\ ~disturbed) => tfstate.alias = index.alias
        BY <1>1, <2>1, <2>5 DEF AliasOK
      <3>2. ASSUME Writing', ~disturbed
            PROVE  /\ Pending(s, "unalias") => index.alias = tfstate.alias
                   /\ (~Pending(s, "unalias") /\ Pending(s, "alias")) => index.alias \cup p.alias = p.alias
                   /\ (~Pending(s, "unalias") /\ ~Pending(s, "alias")) => index.alias = p.alias
        BY <2>2, <2>3, <2>6, <3>1, <3>2
      <3> QED  BY <2>5, <3>2 DEF AliasOK
    <2>9. DynOK'
      BY <1>1, <2>1, <2>3, <2>5, <2>6 DEF DynOK
    <2>10. StaticOK'
      BY <1>1, <2>1, <2>2, <2>5, <2>6 DEF StaticOK, StaticIsReal
    <2>11. MappingsOK'
      <3>1. (index # NoIndex /\ ~swapped) => Covers(index.mappings, tfstate.mappings)
        BY <1>1, <2>1 DEF MappingsOK
      <3>2. ~Pending(s, "mappings") => Covers(tfstate.mappings, p.mappings)
        BY <2>2, <2>3 DEF RequiresMappingsUpdate
      <3>3. (index # NoIndex /\ ~swapped /\ ~Pending(s, "mappings")) => Covers(index.mappings, p.mappings)
        BY <3>1, <3>2, CoversTransitive
      <3> QED  BY <2>5, <2>6, <3>1, <3>3 DEF MappingsOK
    <2> QED  BY <2>4, <2>5, <2>6, <2>7, <2>8, <2>9, <2>10, <2>11 DEF IndexIInv
  <1> QED  BY <1>5, <1>6, <1>7, <1>8

\* The look of a create that may adopt.
LEMMA LookStep ==
  ASSUME IndexIInv, Look
  PROVE  IndexIInv'
  <1>1. TypeOK /\ PlanOK /\ OpsOK /\ SwapOK
    BY DEF IndexIInv
  <1>2. /\ Doing("look") /\ UNCHANGED <<index, config, tfstate, hydrate, refreshed, op, plan, disturbed, swapped, dynHidden, budget>>
    BY DEF Look, tfVars, history
  <1>3. op = "create" /\ tfstate = NoState
    BY <1>1, <1>2, DoingCall DEF OpsOK, PlanOK
  <1>4. /\ plan \in Model
        /\ plan.alias # Null => plan.alias \in SUBSET Aliases
        /\ plan.mappings # Null => plan.mappings \in Mappings
    BY <1>1, <1>3, PlanType
  <1>5. PlanOK' /\ SwapOK'
    BY <1>1, <1>2, <1>3 DEF PlanOK, SwapOK
  <1>6. CASE index = NoIndex
    <2>1. ops' = <<"put", "read">> /\ todo' = todo
      BY <1>6 DEF Look
    <2>2. /\ ops' \in Seq(Operations) /\ Ordered(ops') /\ \A x : Pending(ops', x) <=> x \in {"put", "read"}
      BY <2>1, FewPending
    <2>3. TypeOK'
      BY <1>1, <1>2, <2>1, <2>2 DEF TypeOK, Operations
    <2>4. OpsOK' /\ ~Writing'
      BY <1>2, <1>3, <2>2 DEF OpsOK, Writing
    <2>5. AliasOK' /\ DynOK' /\ StaticOK' /\ MappingsOK'
      BY <1>2, <1>3, <2>4 DEF AliasOK, DynOK, StaticOK, StaticIsReal, MappingsOK
    <2> QED  BY <1>5, <2>3, <2>4, <2>5 DEF IndexIInv
  <1>7. CASE index # NoIndex
    <2> DEFINE b == [alias |-> index.alias, dyn |-> Null, mappings |-> index.mappings]
               s == WriteOps(plan, b)
    <2>1. /\ Adoptable /\ base' = b /\ ops' = s
          /\ todo' = IF plan.alias = Null THEN {} ELSE plan.alias
      BY <1>7 DEF Look
    <2>2. b.alias = index.alias /\ b.dyn = Null /\ b.mappings = index.mappings
      OBVIOUS
    <2>3. /\ s \in Seq(Operations) /\ Ordered(s)
          /\ Pending(s, "unalias") <=> (plan.alias \notin {Null, b.alias} /\ b.alias \ plan.alias # {})
          /\ Pending(s, "alias") <=> plan.alias \notin {Null, b.alias, {}}
          /\ Pending(s, "settings") <=> plan.dyn # b.dyn
          /\ Pending(s, "mappings") <=> RequiresMappingsUpdate(plan.mappings, b.mappings)
          /\ \A x : Pending(s, x) => x \in {"unalias", "alias", "settings", "mappings", "read"}
      <3>1. PICK q, t : q = plan /\ t = b
        OBVIOUS
      <3>2. s = WriteOps(q, t)
        BY <3>1
      <3> HIDE DEF b, s
      <3> QED  BY <3>1, <3>2, WriteOpsPending
    <2> HIDE DEF b, s
    <2>4. todo' \subseteq Aliases
      BY <1>4, <2>1
    <2>5. TypeOK'
      BY <1>1, <1>2, <2>1, <2>3, <2>4 DEF TypeOK, Operations
    <2>6. OpsOK'
      BY <1>2, <1>3, <2>1, <2>3 DEF OpsOK, RequiresMappingsUpdate
    <2>7. AliasOK'
      <3>1. index.alias \in SUBSET Aliases
        BY <1>1, <1>7 DEF TypeOK, Index
      <3>2. ASSUME plan.alias # Null
            PROVE  /\ Pending(s, "unalias") => index.alias = b.alias
                   /\ (~Pending(s, "unalias") /\ Pending(s, "alias")) => index.alias \cup plan.alias = plan.alias
                   /\ (~Pending(s, "unalias") /\ ~Pending(s, "alias")) => index.alias = plan.alias
        BY <1>4, <2>2, <2>3, <3>1, <3>2
      <3> QED  BY <1>2, <1>3, <2>1, <3>2 DEF AliasOK
    <2>8. DynOK'
      BY <1>2, <1>3, <2>1, <2>2, <2>3 DEF DynOK
    <2>9. StaticOK'
      BY <1>2, <1>3, <2>1 DEF StaticOK, StaticIsReal, Adoptable
    <2>10. MappingsOK'
      BY <1>2, <1>3, <2>1, <2>2, <2>3 DEF MappingsOK, RequiresMappingsUpdate
    <2> QED  BY <1>5, <2>5, <2>6, <2>7, <2>8, <2>9, <2>10 DEF IndexIInv
  <1> QED  BY <1>6, <1>7

\* The requests that are left, once the first of them is made.
LEMMA TailOps ==
  ASSUME TypeOK, OpsOK, NEW o, Doing(o), ops' = Tail(ops), UNCHANGED <<op, plan, base, tfstate>>
  PROVE  OpsOK' /\ ops' \in Seq(Operations)
  <1>1. /\ ops' \in Seq(Operations) /\ Ordered(ops') /\ Pending(ops, o)
        /\ \A x : Pending(ops', x) <=> (Pending(ops, x) /\ x # o)
        /\ \A x : Pending(ops, x) => x = o \/ Rank(o) < Rank(x)
    BY DoingCall
  <1>2. ~(Rank("alias") < Rank("unalias"))
    BY DEF Rank
  <1>3. Pending(ops', "unalias") => plan.alias = {} \/ Pending(ops', "alias")
    <2>1. o = "alias" => ~Pending(ops, "unalias")
      BY <1>1, <1>2
    <2> QED  BY <1>1, <2>1 DEF OpsOK
  <1> QED  BY <1>1, <1>3 DEF OpsOK

\* A request of a write is made: but for the aliases, what it means.
LEMMA RequestStep ==
  ASSUME IndexIInv, NEW o \in {"unalias", "alias", "settings", "mappings"}, Doing(o), Accepted(o),
         NEW a, o = "alias" => a \in Aliases, Effect(o, a),
         UNCHANGED <<config, tfstate, hydrate, refreshed, op, plan, base, disturbed, swapped, budget>>,
         todo' \subseteq Aliases, dynHidden' = IF o = "settings" THEN FALSE ELSE dynHidden,
         ops' = Tail(ops) \/ (o = "alias" /\ ops' = ops),
         (Writing /\ Writing' /\ ~disturbed /\ plan.alias # Null) =>
           IF Pending(ops', "unalias") THEN index'.alias = base.alias /\ todo' = plan.alias
           ELSE IF Pending(ops', "alias") THEN index'.alias \cup todo' = plan.alias
           ELSE index'.alias = plan.alias
  PROVE  IndexIInv'
  <1>1. TypeOK /\ PlanOK /\ OpsOK /\ AliasOK /\ DynOK /\ StaticOK /\ MappingsOK /\ SwapOK
    BY DEF IndexIInv
  <1>2. o \in Requests
    BY DEF Requests
  <1>3. op \in {"create", "update"} /\ (op = "create" => tfstate = NoState)
    BY <1>1, <1>2, RequestCall DEF PlanOK
  <1>4. /\ index' \in Index \cup {NoIndex} /\ (index' # NoIndex => index # NoIndex)
        /\ index' # NoIndex =>
              /\ index' \in Index /\ index'.static = index.static /\ Covers(index'.mappings, index.mappings)
              /\ index'.dyn = IF o = "settings" THEN plan.dyn ELSE index.dyn
              /\ o = "mappings" => Covers(index'.mappings, plan.mappings)
    BY <1>1, <1>2, EffectFacts
  <1>5. OpsOK' /\ ops' \in Seq(Operations)
    <2>1. CASE ops' = Tail(ops)
      BY <1>1, <2>1, TailOps
    <2>2. CASE ops' = ops
      BY <1>1, <2>2 DEF OpsOK, TypeOK, Operations
    <2> QED  BY <2>1, <2>2
  <1>6. \A x : (Pending(ops, x) /\ x # o) => Pending(ops', x)
    BY <1>1, DoingCall
  <1>7. TypeOK'
    BY <1>1, <1>4, <1>5 DEF TypeOK, Operations
  <1>8. PlanOK' /\ SwapOK'
    BY <1>1 DEF PlanOK, SwapOK, RequiresReplace, Planned
  <1>9. Writing' => Writing /\ index' # NoIndex
    <2>1. Writing' => ~Pending(ops, "look") /\ ~Pending(ops, "put") /\ index' # NoIndex
      BY <1>6 DEF Writing
    <2> QED  BY <1>3, <1>4, <2>1 DEF Writing
  <1>10. AliasOK'
    BY <1>3, <1>9 DEF AliasOK
  <1>11. DynOK'
    <2>1. ASSUME Writing', ~dynHidden', ~Pending(ops', "settings")
          PROVE  plan.dyn = index'.dyn \/ (op = "create" /\ plan.dyn = Null)
      <3>1. CASE o = "settings"
        BY <1>4, <1>9, <2>1, <3>1
      <3>2. CASE o # "settings"
        BY <1>1, <1>4, <1>6, <1>9, <2>1, <3>2 DEF DynOK
      <3> QED  BY <3>1, <3>2
    <2> QED  BY <1>3, <2>1 DEF DynOK
  <1>12. StaticOK'
    BY <1>1, <1>4, <1>9 DEF StaticOK, StaticIsReal
  <1>13. MappingsOK'
    <2>1. ASSUME NEW m, Covers(index.mappings, m), index' # NoIndex
          PROVE  Covers(index'.mappings, m)
      BY <1>4, <2>1, CoversTransitive
    <2>2. (tfstate # NoState /\ index' # NoIndex /\ ~swapped) => Covers(index'.mappings, tfstate.mappings)
      BY <1>1, <1>4, <2>1 DEF MappingsOK
    <2>3. ASSUME Writing', ~swapped, plan.mappings # Null, ~Pending(ops', "mappings")
          PROVE  Covers(index'.mappings, plan.mappings)
      <3>1. CASE o = "mappings"
        BY <1>4, <1>9, <2>3, <3>1
      <3>2. CASE o # "mappings"
        BY <1>1, <1>6, <1>9, <2>1, <2>3, <3>2 DEF MappingsOK
      <3> QED  BY <3>1, <3>2
    <2> QED  BY <2>2, <2>3 DEF MappingsOK
  <1> QED  BY <1>1, <1>5, <1>7, <1>8, <1>10, <1>11, <1>12, <1>13 DEF IndexIInv

\* The aliases are put one by one; with the last of them, those of the plan are there.
LEMMA AliasStep ==
  ASSUME IndexIInv, PutAlias
  PROVE  IndexIInv'
  <1>1. TypeOK /\ PlanOK /\ OpsOK /\ AliasOK
    BY DEF IndexIInv
  <1>2. PICK a \in todo : Effect("alias", a) /\ todo' = todo \ {a}
    BY DEF PutAlias
  <1>3. /\ Doing("alias") /\ Accepted("alias") /\ ops' = IF todo' = {} THEN Tail(ops) ELSE ops
        /\ UNCHANGED <<config, tfstate, hydrate, refreshed, op, plan, base, disturbed, swapped, dynHidden, budget>>
    BY DEF PutAlias, tfVars, history
  <1>4. a \in Aliases /\ todo' \subseteq Aliases /\ "alias" \in Requests
    BY <1>1, <1>2 DEF TypeOK, Requests
  <1>5. /\ Pending(ops, "alias")
        /\ \A x : Pending(Tail(ops), x) <=> (Pending(ops, x) /\ x # "alias")
        /\ ~Pending(ops, "unalias")
    <2>1. ~(Rank("alias") < Rank("unalias"))
      BY DEF Rank
    <2> QED  BY <1>1, <1>3, <2>1, DoingCall
  <1>6. index # NoIndex /\ index'.alias = index.alias \cup {a}
    <2>1. index # NoIndex
      BY <1>3 DEF Accepted
    <2> QED  BY <1>1, <1>2, <1>3, <1>4, <2>1, EffectFacts
  <1>7. ASSUME Writing, ~disturbed, plan.alias # Null
        PROVE  IF Pending(ops', "unalias") THEN index'.alias = base.alias /\ todo' = plan.alias
               ELSE IF Pending(ops', "alias") THEN index'.alias \cup todo' = plan.alias
               ELSE index'.alias = plan.alias
    <2>1. index.alias \cup todo = plan.alias
      BY <1>1, <1>5, <1>7 DEF AliasOK
    <2>2. index'.alias \cup todo' = plan.alias
      BY <1>2, <1>6, <2>1
    <2>3. ~Pending(ops', "unalias") /\ (Pending(ops', "alias") \/ todo' = {})
      BY <1>3, <1>5
    <2> QED  BY <2>2, <2>3
  <1>8. dynHidden' = IF "alias" = "settings" THEN FALSE ELSE dynHidden
    BY <1>3
  <1> QED  BY <1>2, <1>3, <1>4, <1>7, <1>8, RequestStep

\* The creation of the index, and the other requests of a write.
LEMMA ExecuteStep ==
  ASSUME IndexIInv, Execute
  PROVE  IndexIInv'
  <1>1. TypeOK /\ PlanOK /\ OpsOK /\ AliasOK /\ SwapOK
    BY DEF IndexIInv
  <1>2. PICK o \in Requests \ {"alias", "delete"} :
          /\ Doing(o) /\ Accepted(o) /\ Effect(o, Null)
          /\ dynHidden' = IF o \in {"settings", "put"} THEN FALSE ELSE dynHidden
    BY DEF Execute
  <1>3. /\ ops' = Tail(ops)
        /\ UNCHANGED <<config, tfstate, hydrate, refreshed, op, plan, base, disturbed, swapped, budget, todo>>
    BY DEF Execute, Continue, tfVars
  <1>4. /\ Pending(ops, o) /\ \A x : Pending(ops', x) <=> (Pending(ops, x) /\ x # o)
        /\ \A x : Pending(ops, x) => x = o \/ Rank(o) < Rank(x)
    BY <1>1, <1>2, <1>3, DoingCall
  <1>5. CASE o = "put"
    <2>1. op = "create" /\ tfstate = NoState /\ plan \in Model
      BY <1>1, <1>2, <1>5, RequestCall
    <2>2. index' = NewIndex /\ index' \in Index
      BY <1>1, <1>2, <1>5, EffectFacts
    <2>3. /\ index'.alias = IF plan.alias = Null THEN {} ELSE plan.alias
          /\ index'.dyn = plan.dyn
          /\ index'.static = IF plan.static = Null THEN DefaultStatic ELSE plan.static
          /\ index'.mappings = IF plan.mappings = Null THEN Template ELSE Overlay(plan.mappings, Template)
      BY <2>2 DEF NewIndex
    <2>4. plan.mappings # Null => Covers(index'.mappings, plan.mappings)
      BY <2>1, <2>3, OverlayFacts, IndexAssumption DEF Model
    <2>5. OpsOK' /\ ops' \in Seq(Operations)
      BY <1>1, <1>2, <1>3, TailOps
    <2>6. TypeOK'
      BY <1>1, <1>2, <1>3, <1>5, <2>2, <2>5 DEF TypeOK, Operations
    <2>7. PlanOK' /\ SwapOK'
      BY <1>1, <1>3 DEF PlanOK, SwapOK, RequiresReplace, Planned
    <2>8. ~Pending(ops', "unalias") /\ ~Pending(ops', "alias")
      <3>1. {"unalias", "alias"} \subseteq Operations
        BY DEF Operations, Requests
      <3> QED  BY <1>1, <1>4, <1>5, <3>1 DEF OpsOK
    <2>9. AliasOK'
      BY <1>3, <2>1, <2>3, <2>8 DEF AliasOK
    <2>10. DynOK' /\ StaticOK' /\ MappingsOK'
      BY <1>3, <2>1, <2>3, <2>4 DEF DynOK, StaticOK, StaticIsReal, MappingsOK
    <2> QED  BY <2>5, <2>6, <2>7, <2>9, <2>10 DEF IndexIInv
  <1>6. CASE o # "put"
    <2>1. o \in {"unalias", "settings", "mappings"}
      BY <1>2, <1>6 DEF Requests
    <2>2. todo' \subseteq Aliases /\ dynHidden' = IF o = "settings" THEN FALSE ELSE dynHidden
      BY <1>1, <1>2, <1>3, <1>6 DEF TypeOK
    <2>3. ASSUME Writing, ~disturbed, plan.alias # Null
          PROVE  IF Pending(ops', "unalias") THEN index'.alias = base.alias /\ todo' = plan.alias
                 ELSE IF Pending(ops', "alias") THEN index'.alias \cup todo' = plan.alias
                 ELSE index'.alias = plan.alias
      <3>1. index # NoIndex
        BY <2>3 DEF Writing
      <3>2. CASE o = "unalias"
        <4>1. index'.alias = index.alias \ (base.alias \ plan.alias)
          BY <1>1, <1>2, <3>1, <3>2, EffectFacts
        <4>2. index.alias = base.alias /\ todo = plan.alias
          BY <1>1, <1>4, <2>3, <3>2 DEF AliasOK
        <4>3. plan.alias = {} \/ Pending(ops', "alias")
          BY <1>1, <1>4, <3>2 DEF OpsOK
        <4>4. ~Pending(ops', "unalias")
          BY <1>4, <3>2
        <4>5. index.alias \in SUBSET Aliases /\ plan.alias \in SUBSET Aliases
          BY <1>1, <1>2, <3>1, <3>2, RequestCall DEF TypeOK, Index
        <4>6. index'.alias \cup plan.alias = plan.alias /\ (plan.alias = {} => index'.alias = plan.alias)
          BY <4>1, <4>2, <4>5
        <4> QED  BY <1>3, <4>2, <4>3, <4>4, <4>6
      <3>3. CASE o \in {"settings", "mappings"}
        <4>1. index'.alias = index.alias
          BY <1>1, <1>2, <3>1, <3>3, EffectFacts
        <4>2. (Pending(ops', "unalias") <=> Pending(ops, "unalias")) /\ (Pending(ops', "alias") <=> Pending(ops, "alias"))
          BY <1>4, <3>3
        <4> QED  BY <1>1, <1>3, <2>3, <4>1, <4>2 DEF AliasOK
      <3> QED  BY <2>1, <3>2, <3>3
    <2> QED  BY <1>2, <1>3, <2>1, <2>2, <2>3, RequestStep
  <1> QED  BY <1>5, <1>6

(***************************************************************************)
(* The theorems.                                                           *)
(***************************************************************************)

\* What a call works on, which requests it has left and what they have still to
\* change in the index, in every state of every behaviour.
THEOREM IndexIInvariant == Spec => []IndexIInv
  <1>1. Init => IndexIInv
    <2> SUFFICES ASSUME Init
                 PROVE  IndexIInv
      OBVIOUS
    <2> DEFINE v == CHOOSE v \in Values : v # DefaultStatic
    <2>1. v \in Values
      <3>1. \E w \in Values : w # DefaultStatic
        BY IndexAssumption
      <3> QED  BY <3>1
    <2>2. index \in {NoIndex, [alias |-> {}, dyn |-> v, static |-> DefaultStatic, analysis |-> Null, mappings |-> Template]}
      BY DEF Init
    <2> HIDE DEF v
    <2>3. index \in Index \cup {NoIndex}
      BY <2>1, <2>2, IndexAssumption DEF Index, Setting
    <2>4. ops \in Seq(Operations) /\ Ordered(ops) /\ \A x : ~Pending(ops, x)
      BY FewPending DEF Init
    <2>5. TypeOK
      <3>1. budget \in [faults : 0 .. MaxFaults, acts : 0 .. MaxActs, edits : 0 .. MaxEdits]
        BY IndexAssumption DEF Init
      <3> QED  BY <2>3, <2>4, <3>1 DEF Init, TypeOK, Operations
    <2>6. OpsOK /\ PlanOK /\ SwapOK /\ ~Writing
      BY <2>4 DEF Init, OpsOK, PlanOK, SwapOK, Writing
    <2>7. AliasOK /\ DynOK /\ StaticOK /\ MappingsOK
      BY <2>6 DEF Init, AliasOK, DynOK, StaticOK, StaticIsReal, MappingsOK
    <2> QED  BY <2>5, <2>6, <2>7 DEF IndexIInv
  <1>2. IndexIInv /\ [Next]_vars => IndexIInv'
    BY BeginSteps, LookStep, AliasStep, ExecuteStep, FailSteps, SaveSteps, IdleSteps, OtherStep DEF Next, Provider
  <1> QED  BY <1>1, <1>2, PTL DEF Spec

\* The state's static setting is the one of the index unless another client replaced
\* it, and its dynamic setting differs only if another client changed it, an update
\* of it failed, or the index was adopted with it.
THEOREM IndexInvariant == Spec => []IndexInv
  <1>1. IndexIInv => IndexInv
    BY DEF IndexIInv, IndexInv, StaticOK, DynOK, DynGapsAreKnown
  <1> QED  BY <1>1, IndexIInvariant, PTL

\* No step of the provider removes an index that is not in the state, or is in it
\* with deletion protection.
LEMMA DeletesUnprotected ==
  ASSUME IndexIInv, Next, Deleted, budget'.acts = budget.acts
  PROVE  tfstate # NoState /\ ~tfstate.protect
  <1>1. TypeOK /\ PlanOK /\ OpsOK /\ index # NoIndex /\ index' = NoIndex
    BY DEF IndexIInv, Deleted
  <1>2. ASSUME NEW o \in Requests, NEW a, Doing(o), Accepted(o), o = "alias" => a \in Aliases, Effect(o, a)
        PROVE  tfstate # NoState /\ ~tfstate.protect
    <2>1. o = "delete"
      BY <1>1, <1>2, EffectFacts, IndexAssumption
    <2> QED  BY <1>1, <1>2, <2>1, RequestCall
  <1>3. CASE UNCHANGED index
    BY <1>1, <1>3
  <1>4. CASE PutAlias
    <2>1. PICK a \in todo : Effect("alias", a)
      BY <1>4 DEF PutAlias
    <2> QED  BY <1>1, <1>2, <1>4, <2>1 DEF PutAlias, TypeOK, Requests
  <1>5. CASE Execute
    <2>1. PICK o \in Requests \ {"alias", "delete"} : Doing(o) /\ Accepted(o) /\ Effect(o, Null)
      BY <1>5 DEF Execute
    <2> QED  BY <1>2, <2>1
  <1>6. CASE CallFails
    <2>1. PICK o \in Requests, a \in todo \cup {Null} : Doing(o) /\ Accepted(o) /\ (o = "alias" => a # Null) /\ Effect(o, a)
      BY <1>1, <1>6 DEF CallFails
    <2> QED  BY <1>1, <1>2, <2>1 DEF TypeOK
  <1>7. CASE Delete
    <2>1. Doing("delete") /\ "delete" \in Requests
      BY <1>7 DEF Delete, Requests
    <2> QED  BY <1>1, <2>1, RequestCall
  <1>8. ~OtherClient
    <2>1. OtherClient => budget'.acts = budget.acts + 1
      BY <1>1 DEF OtherClient, Spend, TypeOK
    <2>2. budget.acts \in Nat
      BY <1>1, IndexAssumption DEF TypeOK
    <2> QED  BY <2>1, <2>2
  <1> QED
    BY <1>3, <1>4, <1>5, <1>6, <1>7, <1>8
    DEF Next, Provider, BeginRead, BeginCreate, BeginUpdate, BeginDelete, Begin, NewRun, Look, AdoptionRefused, Refused,
        Read, ReadNotFound, DeletionProtected, Import, EditConfig

\* Terraform deletes an index only if it is in the state, unprotected.
THEOREM ProtectedIndexSurvives == Spec => ProtectedSurvives
  <1> DEFINE Spares == (Deleted /\ budget'.acts = budget.acts) => tfstate # NoState /\ ~tfstate.protect
  <1>1. IndexIInv /\ [Next]_vars => [Spares]_vars
    BY DeletesUnprotected
  <1> QED  BY <1>1, IndexIInvariant, PTL DEF Spec, ProtectedSurvives

\* A create or an update saves its result only by its read, the last of its requests.
LEMMA SavedByRead ==
  ASSUME IndexIInv, Next, Saved
  PROVE  Read
  <1>1. TypeOK /\ PlanOK /\ OpsOK /\ op \in {"create", "update"} /\ tfstate' # tfstate
    BY DEF IndexIInv, Saved
  <1>2. ~Delete
    <2>1. Delete => Pending(ops, "delete")
      BY <1>1, DoingCall DEF Delete
    <2> QED  BY <1>1, <2>1 DEF OpsOK
  <1>3. ~Import
    BY <1>1 DEF Import
  <1>4. ~ReadNotFound
    BY <1>1 DEF ReadNotFound, Fail
  <1> QED
    BY <1>1, <1>2, <1>3, <1>4
    DEF Next, Provider, BeginRead, BeginCreate, BeginUpdate, BeginDelete, Begin, NewRun, Look, AdoptionRefused, Refused,
        PutAlias, Execute, Continue, CallFails, DeletionProtected, Fail, OtherClient, EditConfig, tfVars

\* A create, an adoption or an update that ends well has applied the aliases and the
\* mappings of the configuration, and the dynamic setting unless the state hides it:
\* another client changed it, or an earlier update of it failed.
THEOREM WritesApply == Spec => WriteApplies
  <1> DEFINE Applied == /\ config.alias \in {Null, index.alias}
                        /\ config.mappings # Null => Covers(index.mappings, config.mappings)
                        /\ ~dynHidden => config.dyn \in {Null, index.dyn}
             Applies == (Saved /\ ~disturbed /\ (op = "update" => ~swapped)) => Applied
  <1>1. ASSUME IndexIInv, Next, Saved, ~disturbed, op = "update" => ~swapped
        PROVE  Applied
    <2>1. /\ TypeOK /\ PlanOK /\ OpsOK /\ AliasOK /\ DynOK /\ MappingsOK /\ SwapOK
          /\ op \in {"create", "update"} /\ tfstate' # tfstate
      BY <1>1 DEF IndexIInv, Saved
    <2>2. Doing("read") /\ index # NoIndex
      BY <1>1, SavedByRead DEF Read
    <2>3. Writing /\ ~Pending(ops, "unalias") /\ ~Pending(ops, "alias") /\ ~Pending(ops, "settings") /\ ~Pending(ops, "mappings")
      BY <2>1, <2>2, DoingRead DEF Writing
    <2>4. ~swapped
      BY <1>1, <2>1 DEF SwapOK
    <2>5. /\ plan.alias # Null => index.alias = plan.alias
          /\ plan.mappings # Null => Covers(index.mappings, plan.mappings)
          /\ ~dynHidden => plan.dyn = index.dyn \/ (op = "create" /\ plan.dyn = Null)
      BY <1>1, <2>1, <2>3, <2>4 DEF AliasOK, MappingsOK, DynOK
    <2>6. CASE op = "create"
      BY <2>1, <2>5, <2>6 DEF PlanOK
    <2>7. CASE op = "update"
      <3>1. /\ plan.alias # Null /\ config.alias \in {Null, plan.alias} /\ plan.mappings # Null
            /\ config.mappings # Null => Covers(plan.mappings, config.mappings)
            /\ plan.dyn = config.dyn
        BY <2>1, <2>7, PlannedFacts DEF PlanOK
      <3>2. config.mappings # Null => Covers(index.mappings, config.mappings)
        BY <2>5, <3>1, CoversTransitive
      <3> QED  BY <2>5, <2>7, <3>1, <3>2
    <2> QED  BY <2>1, <2>6, <2>7
  <1>2. IndexIInv /\ [Next]_vars => [Applies]_vars
    BY <1>1
  <1> QED  BY <1>2, IndexIInvariant, PTL DEF Spec, WriteApplies
=============================================================================
