----------------------------- MODULE MatterStore -----------------------------
(***************************************************************************)
(* The durable store of the Matter processes: storage.cpp with the         *)
(* endpoint registry of bridge_storage.cpp.                                *)
(*                                                                         *)
(*   content  what store.json holds: identity, endpoint and device type of *)
(*            every live Thing, the next endpoint, and the SDK's values    *)
(*            (a version: what they are does not matter here)              *)
(*   disk     now: the directory as processes see it; safe: what its last  *)
(*            synchronisation made durable                                 *)
(*                                                                         *)
(* A commit is seven durable steps; the process may die, or the machine    *)
(* lose power, between any two.  After a loss of power each name of the    *)
(* directory is as seen or as last synchronised.                           *)
(***************************************************************************)
EXTENDS Naturals, FiniteSets

CONSTANTS Things,        \* the bridged Things
          Types,         \* device types
          MaxLive,       \* kMaximumLiveEndpoints
          FirstEndpoint, \* kFirstEndpoint
          LastEndpoint   \* kMaximumEndpoint

ASSUME StoreAssumption ==
    /\ FirstEndpoint \in Nat \ {0} /\ LastEndpoint \in Nat /\ MaxLive \in Nat
    /\ FirstEndpoint <= LastEndpoint

NoType == "untyped"

\* A store that has no store.json: its next endpoint is 0.
Blank == [id |-> 0, ep |-> [t \in Things |-> 0], ty |-> [t \in Things |-> NoType],
          next |-> 0, vals |-> 0]

\* What OpenStore commits into a new store.
Fresh(id) == [Blank EXCEPT !.id = id, !.next = FirstEndpoint]

NoDir == [dir |-> FALSE, st |-> Blank, tmp |-> FALSE, intent |-> FALSE]

NewDisk == [now |-> NoDir, safe |-> NoDir]

Live(content) == {t \in Things : content.ep[t] # 0}

\* ParseBridge, beyond the identity: what a committed document always meets.
WellFormed(content) ==
    /\ content.next \in FirstEndpoint..(LastEndpoint + 1)
    /\ Cardinality(Live(content)) <= MaxLive
    /\ \A t \in Live(content) : /\ content.ep[t] \in FirstEndpoint..(content.next - 1)
                                /\ content.ty[t] \in Types
    /\ \A t, u \in Live(content) : content.ep[t] = content.ep[u] => t = u

\* CleanCommitState: neither store.tmp nor store.pending is there.
Clean(d) == ~d.tmp /\ ~d.intent

\* OpenStore of an existing store: locked by nobody, clean, readable, its own.
Openable(d, id) == d.dir /\ Clean(d) /\ d.st.id = id /\ WellFormed(d.st)

\* OpenStore of a new one: the path must not exist.
Creatable(d) == ~d.dir

\* mkdir and the lock file; the parent directory is taken to be durable.
Create(f) == [now |-> [f.now EXCEPT !.dir = TRUE], safe |-> [f.safe EXCEPT !.dir = TRUE]]

-----------------------------------------------------------------------------
(* Commit.                                                                 *)

\* Mutant: the intent is removed before the directory holds the new state.
StagesEarlyUnlink ==
    <<"temporary", "intent", "intent_sync", "rename", "unlink", "rename_sync", "final_sync">>

Stages == <<"temporary", "intent", "intent_sync", "rename", "rename_sync", "unlink", "final_sync">>

SyncDirectory(f) == [f EXCEPT !.safe = f.now]

\* The effect of one stage; the state file's bytes are synchronised before it
\* gets its name.
CommitEffect(f, stage, content) ==
    CASE stage = "temporary" -> [f EXCEPT !.now.tmp = TRUE]
      [] stage = "intent" -> [f EXCEPT !.now.intent = TRUE]
      [] stage = "rename" -> [f EXCEPT !.now.tmp = FALSE, !.now.st = content]
      [] stage = "unlink" -> [f EXCEPT !.now.intent = FALSE]
      [] OTHER -> SyncDirectory(f)

\* What may be left of the directory when power is lost.
AfterPowerLoss(f) ==
    {[now |-> d, safe |-> d] :
        d \in {[dir |-> f.now.dir, st |-> s, tmp |-> t, intent |-> i] :
                  s \in {f.now.st, f.safe.st}, t \in {f.now.tmp, f.safe.tmp},
                  i \in {f.now.intent, f.safe.intent}}}

-----------------------------------------------------------------------------
(* The endpoint registry.                                                  *)

\* Allocate refuses another type for a live Thing, a full table and an exhausted
\* range.
AllocateRefused(content, thing, type) ==
    \/ thing \in Live(content) /\ content.ty[thing] # type
    \/ thing \notin Live(content)
         /\ (Cardinality(Live(content)) >= MaxLive \/ content.next > LastEndpoint)

Allocated(content, thing, type) ==
    [content EXCEPT !.ep[thing] = content.next, !.ty[thing] = type, !.next = @ + 1]

Removed(content, thing) == [content EXCEPT !.ep[thing] = 0, !.ty[thing] = NoType]

\* SyncSetKeyValue and SyncDeleteKeyValue.
Stored(content) == [content EXCEPT !.vals = @ + 1]
=============================================================================
