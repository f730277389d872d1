---------------------------- MODULE EphemeralKey ----------------------------
(***************************************************************************)
(* The ephemeral resource envelope with its API key resource: Open creates *)
(* a key and saves in the private state what Close needs to invalidate it, *)
(* the connection and the close state, in two slots.  Several ephemeral    *)
(* resources are open at once, on the provider's cluster or on one of      *)
(* their own, and every step of Open and of Close may fail.                *)
(*                                                                         *)
(* External: the clusters and Terraform core, which closes what it opened  *)
(* without an error, unless it is killed.                                  *)
(***************************************************************************)
EXTENDS Integers

CONSTANTS
  Opens,     \* the ephemeral resources of a run, which also name their keys
  Clusters, Default, \* the clusters, and the one the provider is configured for
  NoConn,    \* no elasticsearch_connection block
  Missing    \* an empty slot of the private state

Conns == Clusters \cup {NoConn}
Config == [conn : Conns, invalidate : BOOLEAN]
CloseState == [key : Opens, invalidate : BOOLEAN]

ASSUME EphemeralAssumption ==
  /\ Default \in Clusters
  /\ NoConn \notin Clusters /\ Missing \notin Conns /\ Missing \notin CloseState

VARIABLES
  config,    \* the configuration of each resource
  step,      \* how far its Open or Close is
  live,      \* the keys that are valid, each with its cluster
  connSlot,  \* the private state: the connection ...
  stateSlot, \* ... and the close state
  reported,  \* an error diagnostic was returned for the resource
  alive      \* Terraform has not been killed

keyVars == <<config, step, live, connSlot, stateSlot, reported, alive>>
slots == <<connSlot, stateSlot>>

Steps == {"unopened", "create", "saveConn", "saveState", "setResult", "open", "closing",
          "failed", "closed"}

KeyInit ==
  /\ config \in [Opens -> Config]
  /\ step = [i \in Opens |-> "unopened"]
  /\ live = {}
  /\ connSlot = [i \in Opens |-> Missing] /\ stateSlot = [i \in Opens |-> Missing]
  /\ reported = [i \in Opens |-> FALSE]
  /\ alive = TRUE

\* Defect: the provider's own cluster is no fallback.
ClientForBlock(conn) == conn

\* The cluster a client is made for from a connection block, or without one.
ClientFor(conn) == IF conn = NoConn THEN Default ELSE conn

At(i, s) == alive /\ step[i] = s
Go(i, s) == step' = [step EXCEPT ![i] = s]
Error(i, s) == Go(i, s) /\ reported' = [reported EXCEPT ![i] = TRUE] /\ UNCHANGED <<config, alive>>

(***************************************************************************)
(* Open.                                                                   *)
(***************************************************************************)

\* The client is made and the version is good enough.
BeginOpen(i) ==
  /\ At(i, "unopened")
  /\ Go(i, "create")
  /\ UNCHANGED <<config, live, slots, reported, alive>>

OpenRejected(i) ==
  /\ At(i, "unopened")
  /\ Error(i, "failed") /\ UNCHANGED <<live, slots>>

\* Defect: the connection block is left out of Open.
CreateOnDefault(i) ==
  /\ At(i, "create")
  /\ live' = live \cup {<<i, Default>>}
  /\ Go(i, "saveConn")
  /\ UNCHANGED <<config, slots, reported, alive>>

CreateAPIKey(i) ==
  /\ At(i, "create")
  /\ live' = live \cup {<<i, ClientFor(config[i].conn)>>}
  /\ Go(i, "saveConn")
  /\ UNCHANGED <<config, slots, reported, alive>>

\* The answer may be lost after the key was created.
CreateFails(i) ==
  /\ At(i, "create")
  /\ live' \in {live, live \cup {<<i, ClientFor(config[i].conn)>>}}
  /\ Error(i, "failed") /\ UNCHANGED slots

\* Defect: no connection block leaves the slot empty.
SaveConnectionUnmarked(i) ==
  /\ At(i, "saveConn")
  /\ connSlot' = [connSlot EXCEPT ![i] = IF config[i].conn = NoConn THEN Missing ELSE config[i].conn]
  /\ Go(i, "saveState")
  /\ UNCHANGED <<config, live, stateSlot, reported, alive>>

\* No connection block is saved as a marker, so that the slot is not empty.
SaveConnection(i) ==
  /\ At(i, "saveConn")
  /\ connSlot' = [connSlot EXCEPT ![i] = config[i].conn]
  /\ Go(i, "saveState")
  /\ UNCHANGED <<config, live, stateSlot, reported, alive>>

SaveCloseState(i) ==
  /\ At(i, "saveState")
  /\ stateSlot' = [stateSlot EXCEPT ![i] = [key |-> i, invalidate |-> config[i].invalidate]]
  /\ Go(i, "setResult")
  /\ UNCHANGED <<config, live, connSlot, reported, alive>>

SetResult(i) ==
  /\ At(i, "setResult")
  /\ Go(i, "open")
  /\ UNCHANGED <<config, live, slots, reported, alive>>

\* Defect: a failure to save is not appended to the diagnostics.
SaveFailsSilently(i) ==
  /\ At(i, "saveConn") \/ At(i, "saveState")
  /\ Go(i, "open")
  /\ UNCHANGED <<config, live, slots, reported, alive>>

\* The key exists by now, and Terraform does not close what failed to open.
SaveFails(i) ==
  /\ At(i, "saveConn") \/ At(i, "saveState") \/ At(i, "setResult")
  /\ Error(i, "failed") /\ UNCHANGED <<live, slots>>

(***************************************************************************)
(* Close.                                                                  *)
(***************************************************************************)

BeginClose(i) ==
  /\ At(i, "open")
  /\ Go(i, "closing")
  /\ UNCHANGED <<config, live, slots, reported, alive>>

NothingSaved(i) == connSlot[i] = Missing \/ stateSlot[i] = Missing

\* Defect: the key is invalidated whatever was configured.
InvalidatesAlways(s) == TRUE

Invalidates(s) == s.invalidate

\* A key that the cluster does not know counts as invalidated.
Close(i) ==
  /\ At(i, "closing")
  /\ live' = IF NothingSaved(i) \/ ~Invalidates(stateSlot[i]) THEN live
             ELSE live \ {<<stateSlot[i].key, ClientFor(connSlot[i])>>}
  /\ Go(i, "closed")
  /\ UNCHANGED <<config, slots, reported, alive>>

\* No client, no answer or a refusal.
CloseFails(i) ==
  /\ At(i, "closing") /\ ~NothingSaved(i)
  /\ live' \in {live, live \ {<<stateSlot[i].key, ClientFor(connSlot[i])>>}}
  /\ live' # live => Invalidates(stateSlot[i])
  /\ Error(i, "closed") /\ UNCHANGED slots

Killed ==
  /\ alive /\ alive' = FALSE
  /\ UNCHANGED <<config, step, live, slots, reported>>

KeyNext ==
  \/ \E i \in Opens :
       \/ BeginOpen(i) \/ OpenRejected(i) \/ CreateAPIKey(i) \/ CreateFails(i)
       \/ SaveConnection(i) \/ SaveCloseState(i) \/ SetResult(i) \/ SaveFails(i)
       \/ BeginClose(i) \/ Close(i) \/ CloseFails(i)
  \/ Killed

KeySpec == KeyInit /\ [][KeyNext]_keyVars

(***************************************************************************)
(* Properties.                                                             *)
(***************************************************************************)

\* Types of the calls, the keys and the private state.
KeyTypeOK ==
  /\ config \in [Opens -> Config]
  /\ step \in [Opens -> Steps]
  /\ live \subseteq Opens \X Clusters
  /\ connSlot \in [Opens -> Conns \cup {Missing}]
  /\ stateSlot \in [Opens -> CloseState \cup {Missing}]
  /\ reported \in [Opens -> BOOLEAN]
  /\ alive \in BOOLEAN

\* What Close needs is in the private state of everything Terraform will close:
\* the configured connection, the key Open created there and whether to
\* invalidate it.
OpenIsCloseable ==
  \A i \in Opens : step[i] \in {"open", "closing"} =>
    /\ connSlot[i] = config[i].conn
    /\ stateSlot[i] = [key |-> i, invalidate |-> config[i].invalidate]

KeysOf(i) == {k \in live : k[1] = i}

\* A key is valid on the cluster of its resource only, and not before Open
\* asked for it.
KeyPlaces ==
  \A i \in Opens :
    /\ KeysOf(i) \subseteq {<<i, ClientFor(config[i].conn)>>}
    /\ step[i] \in {"unopened", "create"} => KeysOf(i) = {}
    /\ step[i] = "failed" => reported[i]

\* A key with invalidate_on_close is left behind by a resource that is done
\* only if an error was reported for it: no failure between the creation of
\* the key and its invalidation, and no mistake of the cluster, goes unnoticed
\* (an unknown key counts as invalidated).
NoSilentLeak ==
  \A i \in Opens :
    step[i] \in {"closed", "failed"} /\ config[i].invalidate /\ ~reported[i] => KeysOf(i) = {}

\* How the slots are filled while Open is on its way: OpenIsCloseable is not
\* inductive without the two steps before the result is set.
SlotsFilled ==
  \A i \in Opens :
    /\ step[i] \in {"saveState", "setResult", "open", "closing"} => connSlot[i] = config[i].conn
    /\ step[i] \in {"setResult", "open", "closing"} =>
         stateSlot[i] = [key |-> i, invalidate |-> config[i].invalidate]

\* The inductive invariant: types, filled slots, keys in their places and no
\* silent leak.
EInv == KeyTypeOK /\ SlotsFilled /\ KeyPlaces /\ NoSilentLeak

\* Only its own Close invalidates a key, and only if the configuration says so:
\* another resource of the run never takes it away.
InvalidatedByItsClose ==
  [][\A i \in Opens : \A k \in KeysOf(i) :
       k \notin live' => step[i] = "closing" /\ config[i].invalidate]_keyVars
=============================================================================
