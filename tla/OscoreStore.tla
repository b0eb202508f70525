---------------------------- MODULE OscoreStore ----------------------------
(***************************************************************************)
(* The registry of consumed OSCORE contexts (store.c) with the sender of   *)
(* libcoap that asks it for sequence numbers (exchange.c, save_sequence).  *)
(*                                                                         *)
(* Worker processes share one directory with the names lock, reg and tmp.  *)
(* A process may crash between any two system calls; a power loss ends all *)
(* of them and leaves every name at the entry of the last directory sync   *)
(* or at a later one.  An OSCORE key and sequence number used twice breaks *)
(* the confidentiality of both messages: that must not happen whatever     *)
(* the crashes and the interleaving.                                       *)
(***************************************************************************)
EXTENDS Naturals, Sequences

CONSTANTS Procs,       \* worker processes
          Materials,   \* key material workers open: [secret, salt, context, sender, recipient]
          SaltPad,     \* bytes HMAC pads a salt to
          MaxContexts, \* records a registry holds, 4096
          Limit,       \* WCO_STORE_SEQUENCE_LIMIT, 2^40
          Freq,        \* sequence numbers of one reservation, 32
          MaxOpens,    \* bound: openings
          MaxLosses    \* bound: power losses

ASSUME StoreAssumption ==
    /\ MaxContexts \in Nat \ {0} /\ Limit \in Nat \ {0} /\ Freq \in 1..Limit
    /\ MaxOpens \in Nat /\ MaxLosses \in Nat /\ SaltPad \in Nat /\ Materials # {}
    /\ \A m \in Materials : DOMAIN m = {"secret", "salt", "context", "sender", "recipient"}

VARIABLES
    disk,   \* name -> the entry seen now and those a power loss may leave
    holder, \* processes holding the flock of the lock file
    proc,   \* process -> struct wco_store with its position in the code
    sent,   \* history: protected messages
    opens, losses

vars == <<disk, holder, proc, sent, opens, losses>>

\* HKDF extracts with HMAC, whose key is the salt padded with zeros: salts
\* that differ in trailing zeros give the same keys.
Derive(m, id) ==
    [secret |-> m.secret, context |-> m.context, id |-> id,
     salt |-> [j \in 1..SaltPad |-> IF j <= Len(m.salt) THEN m.salt[j] ELSE 0]]

\* wco_oscore_identity: the digest of the material as given, and one of the
\* key and nonce prefix of each direction.  Digests and keys are taken to be
\* equal only when what they are computed from is.
Identity(m) == [ctx |-> m, snd |-> Derive(m, m.sender), rcv |-> Derive(m, m.recipient)]

Identities == {Identity(m) : m \in Materials}

Names == {"lock", "reg", "tmp"}

\* A file: "cached" content may be torn by a power loss, "synced" may not.
NoFile == [k |-> "none", recs |-> <<>>]
Empty == [k |-> "synced", recs |-> <<>>]
Torn == [k |-> "torn", recs |-> <<>>]

Idle == [pc |-> "idle", id |-> CHOOSE i \in Identities : TRUE, gen |-> 0, fresh |-> FALSE,
         recs |-> <<>>, base |-> NoFile, boundary |-> 0, target |-> 0,
         seq |-> 0, granted |-> 0, failed |-> "ok"]

Init ==
    /\ disk = [n \in Names |-> [now |-> NoFile, may |-> {NoFile}]]
    /\ holder = {} /\ proc = [p \in Procs |-> Idle] /\ sent = {}
    /\ opens = 0 /\ losses = 0

\* wco_oscore_identity_overlaps.
Overlaps(a, b) ==
    a.ctx = b.ctx \/ {a.snd, a.rcv} \cap {b.snd, b.rcv} # {}

Now(n) == disk[n].now

Put(d, n, f) == [d EXCEPT ![n] = [now |-> f, may |-> @.may \cup {f}]]

\* The process closes its descriptors; only the status remains.
Closed(p, status) ==
    /\ proc' = [proc EXCEPT ![p] = [Idle EXCEPT !.failed = status]]
    /\ holder' = holder \ {p}

To(p, pc) == proc' = [proc EXCEPT ![p].pc = pc]

-----------------------------------------------------------------------------
\* wco_store_open: the directory is open, the lock name has been looked up.
OpenStore(p, i) ==
    /\ proc[p].pc = "idle" /\ opens < MaxOpens
    /\ opens' = opens + 1
    /\ proc' = [proc EXCEPT ![p] = [Idle EXCEPT !.id = i, !.gen = opens + 1,
                    !.pc = IF Now("lock") = NoFile THEN "unclaimed" ELSE "claim"]]
    /\ UNCHANGED <<disk, holder, sent, losses>>

\* No lock: an old registry or a pending file refuses a new lease.
CheckUnclaimed(p) ==
    /\ proc[p].pc = "unclaimed"
    /\ IF Now("reg") # NoFile \/ Now("tmp") # NoFile
       THEN Closed(p, "corrupt") ELSE To(p, "claim") /\ UNCHANGED holder
    /\ UNCHANGED <<disk, sent, opens, losses>>

\* openat O_CREAT | O_EXCL, else open the existing lock.
ClaimLock(p) ==
    /\ proc[p].pc = "claim"
    /\ proc' = [proc EXCEPT ![p].pc = "flock", ![p].fresh = Now("lock") = NoFile]
    /\ disk' = IF Now("lock") = NoFile THEN Put(disk, "lock", Empty) ELSE disk
    /\ UNCHANGED <<holder, sent, opens, losses>>

\* Mutant: the lease is not waited for and not refused.
FlockShared(p) ==
    /\ proc[p].pc = "flock" /\ holder' = holder \cup {p} /\ To(p, "read")
    /\ UNCHANGED <<disk, sent, opens, losses>>

Flock(p) ==
    /\ proc[p].pc = "flock"
    /\ IF holder = {} THEN holder' = {p} /\ To(p, "read") ELSE Closed(p, "locked")
    /\ UNCHANGED <<disk, sent, opens, losses>>

ReadRegistry(s, f) ==
    CASE f = NoFile -> IF s.fresh THEN "ok" ELSE "corrupt"
      [] s.fresh \/ f.k = "torn" -> "corrupt"
      [] OTHER -> "ok"

\* Mutant: only the context digest is compared, not the key spaces.
AdmitContext(s, f) ==
    CASE \E j \in DOMAIN f.recs : f.recs[j].id.ctx = s.id.ctx -> "fresh_required"
      [] Len(f.recs) = MaxContexts -> "full"
      [] OTHER -> "ok"

Admit(s, f) ==
    CASE \E j \in DOMAIN f.recs : Overlaps(f.recs[j].id, s.id) -> "fresh_required"
      [] Len(f.recs) = MaxContexts -> "full"
      [] OTHER -> "ok"

\* read_registry and admit, up to the write of the new registry.
ReadAndAdmit(p) ==
    LET s == proc[p]
        f == Now("reg")
        read == ReadRegistry(s, f)
        status == IF read = "ok" THEN Admit(s, f) ELSE read
    IN /\ s.pc = "read"
       /\ IF status # "ok" THEN Closed(p, status)
          ELSE /\ proc' = [proc EXCEPT ![p] = [s EXCEPT !.pc = "clean", !.base = f,
                               !.recs = Append(f.recs, [id |-> s.id, bound |-> Freq]),
                               !.target = Freq]]
               /\ UNCHANGED holder
       /\ UNCHANGED <<disk, sent, opens, losses>>

-----------------------------------------------------------------------------
\* persist, one action per system call.  A process that has not opened yet
\* closes on a failure; one that sends is poisoned.
Fail(p, status) ==
    IF proc[p].boundary = 0 THEN Closed(p, status)
    ELSE /\ proc' = [proc EXCEPT ![p].pc = "ready", ![p].failed = status]
         /\ UNCHANGED holder

\* owned_registry: the registry is the file this process read or renamed.
Owned(p) == Now("reg") = proc[p].base

\* remove_pending
Removed == IF Now("tmp") = NoFile THEN disk ELSE Put(disk, "tmp", NoFile)

CleanPending(p) ==
    /\ proc[p].pc = "clean"
    /\ \/ Owned(p) /\ disk' = Removed /\ To(p, "temp") /\ UNCHANGED holder
       \/ disk' = disk /\ Fail(p, "corrupt")
    /\ UNCHANGED <<sent, opens, losses>>

OpenTemp(p) ==
    /\ proc[p].pc = "temp"
    /\ \/ Now("tmp") = NoFile /\ disk' = Put(disk, "tmp", [k |-> "torn", recs |-> <<>>])
          /\ To(p, "write") /\ UNCHANGED holder
       \/ disk' = disk /\ Fail(p, "unavailable")
    /\ UNCHANGED <<sent, opens, losses>>

\* A call after the temporary file exists fails: it is removed, best effort.
PersistFails(p) ==
    /\ proc[p].pc \in {"write", "sync", "rename", "dirsync"}
    /\ disk' \in {disk, Removed}
    /\ Fail(p, "unavailable")
    /\ UNCHANGED <<sent, opens, losses>>

\* The content of an open file changes in every entry that names it.
SetTemp(f) == [disk EXCEPT !["tmp"] = [now |-> f, may |-> (@.may \ {Now("tmp")}) \cup {f}]]

WriteTemp(p) ==
    /\ proc[p].pc = "write"
    /\ disk' = SetTemp([k |-> "cached", recs |-> proc[p].recs])
    /\ To(p, "sync")
    /\ UNCHANGED <<holder, sent, opens, losses>>

SyncTemp(p) ==
    /\ proc[p].pc = "sync"
    /\ disk' = SetTemp([k |-> "synced", recs |-> proc[p].recs])
    /\ To(p, "rename")
    /\ UNCHANGED <<holder, sent, opens, losses>>

RenameTemp(p) ==
    /\ proc[p].pc = "rename" /\ Owned(p)
    /\ disk' = Put(Put(disk, "reg", Now("tmp")), "tmp", NoFile)
    /\ proc' = [proc EXCEPT ![p].pc = "dirsync", ![p].base = Now("tmp")]
    /\ UNCHANGED <<holder, sent, opens, losses>>

\* The sender uses its sequence number n under the reservation granted.
Protect(p, s) ==
    sent' = sent \cup {[id |-> s.id, n |-> s.seq, gen |-> s.gen]}

\* The open or the reserve that persisted succeeds; a pending send goes out.
Persisted(p) ==
    LET s == proc[p]
        first == s.boundary = 0
    IN /\ s.pc = "dirsync"
       /\ proc' = [proc EXCEPT ![p] = [s EXCEPT !.pc = "ready", !.boundary = s.target,
                       !.granted = IF first THEN 0 ELSE s.target,
                       !.seq = IF first THEN 0 ELSE s.seq + 1]]
       /\ IF first THEN sent' = sent ELSE Protect(p, s)

\* Mutant: success is reported without the directory sync.
SyncDirectorySkipped(p) ==
    Persisted(p) /\ UNCHANGED <<disk, holder, opens, losses>>

\* fsync of the directory makes every name durable.
SyncDirectory(p) ==
    /\ Persisted(p)
    /\ disk' = [n \in Names |-> [now |-> Now(n), may |-> {Now(n)}]]
    /\ UNCHANGED <<holder, opens, losses>>

-----------------------------------------------------------------------------
\* libcoap protects a message: a number beyond the granted ones asks for Freq
\* more, and wco_store_reserve decides.
SendReserved(p) ==
    LET s == proc[p]
        next == IF s.seq + 1 > s.granted THEN s.granted + Freq ELSE s.granted
    IN /\ s.pc = "ready" /\ s.failed = "ok" /\ next <= s.boundary
       /\ proc' = [proc EXCEPT ![p].seq = @ + 1, ![p].granted = next]
       /\ Protect(p, s)
       /\ UNCHANGED <<disk, holder, opens, losses>>

Reserve(p) ==
    LET s == proc[p]
        next == s.granted + Freq
    IN /\ s.pc = "ready" /\ s.failed = "ok" /\ s.seq + 1 > s.granted /\ next > s.boundary
       /\ proc' = [proc EXCEPT ![p] =
              IF next > Limit THEN [s EXCEPT !.failed = "exhausted"]
              ELSE [s EXCEPT !.pc = "clean", !.target = next,
                             !.recs = [@ EXCEPT ![Len(@)].bound = next]]]
       /\ UNCHANGED <<disk, holder, sent, opens, losses>>

\* wco_store_close; a poisoned store admits nothing else.
CloseStore(p) ==
    /\ proc[p].pc = "ready" /\ Closed(p, proc[p].failed)
    /\ UNCHANGED <<disk, sent, opens, losses>>

Crash(p) ==
    /\ proc[p].pc # "idle" /\ Closed(p, "crashed")
    /\ UNCHANGED <<disk, sent, opens, losses>>

\* Every name is left at one of its possible entries, unsynced content torn.
Survivors(n) ==
    disk[n].may \cup (IF \E f \in disk[n].may : f.k = "cached" THEN {Torn} ELSE {})

PowerLoss ==
    /\ losses < MaxLosses /\ losses' = losses + 1
    /\ \E l \in Survivors("lock"), r \in Survivors("reg"), t \in Survivors("tmp") :
          LET kept == [n \in Names |-> IF n = "lock" THEN l ELSE IF n = "reg" THEN r ELSE t]
          IN disk' = [n \in Names |-> [now |-> kept[n], may |-> {kept[n]}]]
    /\ holder' = {} /\ proc' = [p \in Procs |-> [Idle EXCEPT !.failed = "crashed"]]
    /\ UNCHANGED <<sent, opens>>

Next ==
    \/ PowerLoss
    \/ \E p \in Procs :
          \/ \E i \in Identities : OpenStore(p, i)
          \/ CheckUnclaimed(p) \/ ClaimLock(p) \/ Flock(p) \/ ReadAndAdmit(p)
          \/ CleanPending(p) \/ OpenTemp(p) \/ WriteTemp(p) \/ SyncTemp(p)
          \/ RenameTemp(p) \/ SyncDirectory(p) \/ PersistFails(p)
          \/ SendReserved(p) \/ Reserve(p) \/ CloseStore(p) \/ Crash(p)

Spec == Init /\ [][Next]_vars

-----------------------------------------------------------------------------
Records == [id : Identities, bound : 1..Limit]
Files == [k : {"none", "torn", "cached", "synced"}, recs : Seq(Records)]

\* Every entry of the directory is a file with whole records, a process is at
\* a known place of store.c, and only processes inside the store hold a lock.
TypeOK ==
    /\ \A n \in Names : disk[n].now \in Files /\ disk[n].may \subseteq Files
    /\ holder \subseteq {p \in Procs : proc[p].pc \notin {"idle", "unclaimed", "claim", "flock"}}
    /\ \A p \in Procs :
          /\ proc[p].id \in Identities /\ proc[p].recs \in Seq(Records)
          /\ proc[p].boundary \in 0..Limit /\ proc[p].granted \in 0..Limit
          /\ proc[p].seq \in 0..Limit
    /\ opens \in 0..MaxOpens /\ losses \in 0..MaxLosses

\* No two openings protect a message under the same key and sequence number,
\* and none sends in the key space another one receives in: wco_store_open
\* consumes an identity once, whatever crashes and power losses interrupt.
NonceUnique ==
    \A a, b \in sent :
        a.gen # b.gen => a.id.snd \notin {b.id.snd, b.id.rcv}

\* Whatever a crash or a power loss leaves of the registry is absent or complete
\* (only synced content is ever renamed over it), and it records the identity of
\* every message ever sent with a boundary beyond its sequence number
\* (store.h: success means the boundary is durable).
SequenceReserved ==
    /\ \A f \in Survivors("reg") : f.k \in {"none", "synced"}
    /\ \A m \in sent : \A f \in disk["reg"].may :
        \E j \in DOMAIN f.recs : f.recs[j].id = m.id /\ f.recs[j].bound > m.n

\* A lease is exclusive and its owner's view is the registry: nobody else
\* replaced the file it read or renamed while it can still write.
LeaseExclusive ==
    /\ TypeOK
    /\ \A p, q \in holder : p = q
    /\ \A p \in holder : proc[p].pc # "read" => Owned(p)
=============================================================================
