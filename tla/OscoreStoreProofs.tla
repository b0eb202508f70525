------------------------- MODULE OscoreStoreProofs -------------------------
(***************************************************************************)
(* No OSCORE key and sequence number is ever used twice, for every number  *)
(* of processes, every key material and all limits, whatever crashes and   *)
(* power losses interrupt the store.                                       *)
(***************************************************************************)
EXTENDS OscoreStore, TLAPS

Inside == {"read", "clean", "temp", "write", "sync", "rename", "dirsync", "ready"}
Outside == {"idle", "unclaimed", "claim", "flock"}
Statuses == {"ok", "corrupt", "locked", "fresh_required", "full", "unavailable",
             "exhausted", "crashed"}

\* What a process keeps of the store; nothing is granted before admission.
States ==
    {s \in [pc : Inside \cup Outside, id : Identities, gen : Nat, fresh : BOOLEAN,
            recs : Seq(Records), base : Files, boundary : 0..Limit, target : 0..Limit,
            seq : 0..Limit, granted : 0..Limit, failed : Statuses] :
        s.pc \in Outside \cup {"read"} => s.boundary = 0 /\ s.seq = 0 /\ s.granted = 0}

IsDisk(d) == DOMAIN d = Names /\ \A n \in Names : d[n].now \in Files /\ d[n].may \subseteq Files

StateType ==
    /\ IsDisk(disk) /\ proc \in [Procs -> States] /\ holder \subseteq Procs
    /\ \A m \in sent : m.id \in Identities /\ m.n \in Nat
    /\ opens \in 0..MaxOpens /\ losses \in 0..MaxLosses

\* The flock is held by at most one process, the one inside the store.
Lease ==
    /\ \A p \in Procs : p \in holder <=> proc[p].pc \in Inside
    /\ \A p, q \in holder : p = q

\* A list of records reserves the numbers of an identity below b.
Reserved(recs, id, b) == \E j \in DOMAIN recs : recs[j].id = id /\ recs[j].bound >= b

Covers(recs, sn) == \A m \in sn : Reserved(recs, m.id, m.n + 1)

\* Whatever the registry is after a crash or power loss: whole, and with a
\* reservation for every message sent.
Durable(reg, sn) ==
    /\ reg.now \in reg.may
    /\ \A f \in reg.may : f.k \in {"none", "synced"} /\ Covers(f.recs, sn)

\* What the process that has been admitted to the registry knows: the registry
\* is the file it read or renamed; what it is about to write covers everything
\* sent and ends in its own reservation; what it may send is reserved in every
\* registry a crash can leave; and nobody else ever sent in its key spaces.
Lessee(s, d, sn) ==
    /\ d["reg"].now = s.base
    /\ s.recs # <<>> /\ s.recs[Len(s.recs)].id = s.id /\ s.recs[Len(s.recs)].bound = s.target
    /\ Covers(s.recs, sn)
    /\ s.seq <= s.granted /\ s.granted <= s.boundary /\ s.boundary <= s.target
    /\ s.pc # "ready" => s.seq = s.granted /\ s.seq < s.target
    /\ s.pc = "ready" /\ s.failed = "ok" => s.target = s.boundary
    /\ s.boundary > 0 => \A f \in d["reg"].may : Reserved(f.recs, s.id, s.boundary)
    /\ s.pc = "rename" => d["tmp"].now.k = "synced" /\ d["tmp"].now.recs = s.recs
    /\ s.pc = "dirsync" => d["reg"].now.recs = s.recs
    /\ \A m \in sn : m.gen = s.gen \/ ~Overlaps(m.id, s.id)

IInv ==
    /\ StateType /\ Lease /\ Durable(disk["reg"], sent) /\ NonceUnique
    /\ \A p \in holder : proc[p].pc # "read" => Lessee(proc[p], disk, sent)

-----------------------------------------------------------------------------
(* Files and records *)

LEMMA IdleState ==
  ASSUME NEW status \in Statuses
  PROVE  /\ [Idle EXCEPT !.failed = status] \in States
         /\ [Idle EXCEPT !.failed = status].pc = "idle" /\ Idle \in States /\ Idle.pc = "idle"
  <1>1. (CHOOSE i \in Identities : TRUE) \in Identities
    BY StoreAssumption DEF Identities
  <1>2. NoFile \in Files /\ <<>> \in Seq(Records)
    BY DEF NoFile, Files
  <1>3. 0 \in 0..Limit
    BY StoreAssumption
  <1>4. Idle \in States /\ Idle.pc = "idle"
    <2> HIDE DEF Files, Records, Identities, NoFile
    <2> QED BY <1>1, <1>2, <1>3 DEF Idle, States, Inside, Outside, Statuses
  <1> QED BY <1>4 DEF States, Outside

LEMMA SomeFiles ==
  /\ NoFile \in Files /\ Empty \in Files /\ Torn \in Files
  /\ \A f \in Files : f.recs \in Seq(Records) /\ f.k \in {"none", "torn", "cached", "synced"}
  /\ \A r \in Seq(Records) : \A k \in {"torn", "cached", "synced"} :
        [k |-> k, recs |-> r] \in Files
  BY DEF NoFile, Empty, Torn, Files

LEMMA PutDisk ==
  ASSUME NEW d, IsDisk(d), NEW n \in Names, NEW f \in Files
  PROVE  /\ IsDisk(Put(d, n, f))
         /\ Put(d, n, f)[n].now = f /\ Put(d, n, f)[n].may = d[n].may \cup {f}
         /\ \A o \in Names \ {n} : Put(d, n, f)[o] = d[o]
  BY DEF Put, IsDisk

LEMMA RemovedDisk ==
  ASSUME IsDisk(disk)
  PROVE  IsDisk(Removed) /\ Removed["reg"] = disk["reg"] /\ Removed["lock"] = disk["lock"]
  <1>1. /\ IsDisk(Put(disk, "tmp", NoFile))
        /\ \A o \in Names \ {"tmp"} : Put(disk, "tmp", NoFile)[o] = disk[o]
    BY PutDisk, SomeFiles DEF Names
  <1> QED BY <1>1 DEF Removed, Names

LEMMA SetTempDisk ==
  ASSUME IsDisk(disk), NEW f \in Files
  PROVE  /\ IsDisk(SetTemp(f)) /\ SetTemp(f)["reg"] = disk["reg"] /\ SetTemp(f)["tmp"].now = f
  BY DEF SetTemp, IsDisk, Names

\* Adding a record keeps every reservation.
LEMMA AppendReserves ==
  ASSUME NEW recs \in Seq(Records), NEW r \in Records, NEW sn, Covers(recs, sn)
  PROVE  /\ Append(recs, r) \in Seq(Records) /\ Append(recs, r) # <<>>
         /\ Append(recs, r)[Len(Append(recs, r))] = r
         /\ Covers(Append(recs, r), sn)
  <1> DEFINE a == Append(recs, r)
  <1> HIDE DEF Records
  <1>1. /\ a \in Seq(Records) /\ Len(recs) \in Nat /\ Len(a) = Len(recs) + 1 /\ a[Len(a)] = r
        /\ DOMAIN a = 1..Len(a) /\ DOMAIN recs = 1..Len(recs)
        /\ \A j \in 1..Len(recs) : a[j] = recs[j]
    OBVIOUS
  <1>2. a # <<>>
    BY <1>1
  <1>3. \A j \in DOMAIN recs : j \in DOMAIN a /\ a[j] = recs[j]
    BY <1>1
  <1>4. Covers(a, sn)
    BY <1>3 DEF Covers, Reserved
  <1> QED BY <1>1, <1>2, <1>4

\* Raising the last bound keeps every reservation.
LEMMA RaiseReserves ==
  ASSUME NEW recs \in Seq(Records), recs # <<>>, NEW b \in 1..Limit,
         recs[Len(recs)].bound <= b, NEW sn, \A m \in sn : m.n \in Nat, Covers(recs, sn)
  PROVE  LET w == [recs EXCEPT ![Len(recs)].bound = b]
         IN /\ w \in Seq(Records) /\ w # <<>> /\ Covers(w, sn)
            /\ w[Len(w)].id = recs[Len(recs)].id /\ w[Len(w)].bound = b
  <1> DEFINE w == [recs EXCEPT ![Len(recs)].bound = b]
  <1>1. Len(recs) \in Nat \ {0} /\ DOMAIN recs = 1..Len(recs) /\ Limit \in Nat
    BY StoreAssumption
  <1>2. \A j \in 1..Len(recs) : recs[j] \in Records
    <2> HIDE DEF Records
    <2> QED BY <1>1
  <1>3. /\ DOMAIN w = 1..Len(recs)
        /\ \A j \in 1..Len(recs) : j # Len(recs) => w[j] = recs[j]
        /\ w[Len(recs)] = [recs[Len(recs)] EXCEPT !.bound = b]
    BY <1>1
  <1>4. /\ w[Len(recs)] \in Records /\ w[Len(recs)].id = recs[Len(recs)].id
        /\ w[Len(recs)].bound = b
    BY <1>1, <1>2, <1>3 DEF Records
  <1>5. w \in Seq(Records) /\ Len(w) = Len(recs)
    <2>1. \A j \in 1..Len(recs) : w[j] \in Records
      BY <1>2, <1>3, <1>4
    <2> HIDE DEF w, Records
    <2>2. w \in [1..Len(recs) -> Records]
      <3>1. w = [j \in 1..Len(recs) |-> w[j]]
        BY <1>3 DEF w
      <3> QED BY <2>1, <3>1
    <2> QED BY <1>1, <2>2
  <1>6. ASSUME NEW j \in DOMAIN recs
        PROVE  j \in DOMAIN w /\ w[j].id = recs[j].id /\ w[j].bound >= recs[j].bound
               /\ w[j].bound \in Nat /\ recs[j].bound \in Nat
    <2>1. recs[j].bound \in Nat
      BY <1>1, <1>2 DEF Records
    <2> QED BY <1>1, <1>3, <1>4, <2>1
  <1> HIDE DEF w
  <1>7. Covers(w, sn)
    <2> SUFFICES ASSUME NEW m \in sn PROVE Reserved(w, m.id, m.n + 1)
      BY DEF Covers
    <2>1. PICK j \in DOMAIN recs : recs[j].id = m.id /\ recs[j].bound >= m.n + 1
      BY DEF Covers, Reserved
    <2>2. m.n \in Nat
      OBVIOUS
    <2> QED BY <1>6, <2>1, <2>2 DEF Reserved
  <1>8. w # <<>>
    BY <1>1, <1>5
  <1> QED BY <1>4, <1>5, <1>7, <1>8 DEF w

-----------------------------------------------------------------------------
(* Steps outside the store, and leaving it *)

\* A process outside the store, or leaving it, disturbs nobody: the registry
\* stays, and the temporary file is its own to change if it held the lease.
LEMMA OutsideKeeps ==
  ASSUME IInv, NEW p \in Procs, NEW s \in States, s.pc \in Outside,
         proc' = [proc EXCEPT ![p] = s], holder' = holder \ {p}, sent' = sent,
         IsDisk(disk'), disk'["reg"] = disk["reg"],
         p \in holder \/ disk'["tmp"] = disk["tmp"],
         opens' \in 0..MaxOpens, losses' = losses
  PROVE  IInv'
  <1>1. StateType /\ Lease /\ proc \in [Procs -> States] /\ holder \subseteq Procs
    BY DEF IInv, StateType
  <1>2. StateType'
    BY <1>1 DEF StateType
  <1>3. proc'[p] = s /\ \A q \in Procs \ {p} : proc'[q] = proc[q]
    BY <1>1
  <1>4. Lease'
    <2>1. s.pc \notin Inside
      BY DEF Inside, Outside
    <2> QED BY <1>1, <1>3, <2>1 DEF Lease
  <1>5. Durable(disk'["reg"], sent') /\ NonceUnique'
    BY DEF IInv, NonceUnique
  <1>6. ASSUME NEW q \in holder', proc'[q].pc # "read" PROVE Lessee(proc'[q], disk', sent')
    <2>1. q \in holder /\ q # p /\ proc'[q] = proc[q]
      BY <1>1, <1>3
    <2>2. disk'["tmp"] = disk["tmp"]
      BY <1>1, <2>1 DEF Lease
    <2>3. Lessee(proc[q], disk, sent)
      BY <1>6, <2>1 DEF IInv
    <2> QED BY <2>1, <2>2, <2>3 DEF Lessee
  <1> QED BY <1>2, <1>4, <1>5, <1>6 DEF IInv

LEMMA ClosedKeeps ==
  ASSUME IInv, NEW p \in Procs, NEW status \in Statuses, Closed(p, status), sent' = sent,
         IsDisk(disk'), disk'["reg"] = disk["reg"],
         p \in holder \/ disk'["tmp"] = disk["tmp"],
         opens' = opens, losses' = losses
  PROVE  IInv'
  <1>1. opens' \in 0..MaxOpens
    BY DEF IInv, StateType
  <1>2. /\ [Idle EXCEPT !.failed = status] \in States
        /\ [Idle EXCEPT !.failed = status].pc \in Outside
    BY IdleState DEF Outside
  <1> HIDE DEF Idle
  <1> QED BY <1>1, <1>2, OutsideKeeps DEF Closed

LEMMA OpenKeeps == ASSUME IInv, NEW p \in Procs, NEW i \in Identities, OpenStore(p, i) PROVE IInv'
  <1> DEFINE s == [Idle EXCEPT !.id = i, !.gen = opens + 1,
                     !.pc = IF Now("lock") = NoFile THEN "unclaimed" ELSE "claim"]
  <1>1. opens \in 0..MaxOpens /\ opens < MaxOpens /\ opens' = opens + 1 /\ MaxOpens \in Nat
        /\ IsDisk(disk) /\ Lease
    BY StoreAssumption DEF IInv, StateType, OpenStore
  <1>2. opens + 1 \in Nat /\ opens' \in 0..MaxOpens
    BY <1>1
  <1>3. Idle \in States /\ Idle.pc = "idle"
    BY IdleState DEF Statuses
  <1>4. s \in States /\ s.pc \in Outside
    <2> HIDE DEF Idle, NoFile, Identities, Files, Records
    <2> QED BY <1>2, <1>3 DEF States, Outside
  <1>5. /\ proc' = [proc EXCEPT ![p] = s] /\ UNCHANGED <<disk, holder, sent, losses>>
        /\ p \notin holder
    BY <1>1 DEF OpenStore, Lease, Inside
  <1> HIDE DEF s
  <1>6. holder' = holder \ {p} /\ IsDisk(disk') /\ disk'["reg"] = disk["reg"]
        /\ disk'["tmp"] = disk["tmp"] /\ sent' = sent /\ losses' = losses
    BY <1>1, <1>5
  <1> QED BY <1>2, <1>4, <1>5, <1>6, OutsideKeeps

LEMMA OutsideState ==
  ASSUME IInv, NEW p \in Procs
  PROVE  /\ proc[p] \in States /\ IsDisk(disk) /\ opens \in 0..MaxOpens
         /\ (p \in holder <=> proc[p].pc \in Inside)
         /\ Now("reg") \in Files /\ Now("tmp") \in Files /\ Now("reg") \in disk["reg"].may
  BY DEF IInv, StateType, Lease, IsDisk, Now, Names, Durable

LEMMA CheckKeeps == ASSUME IInv, NEW p \in Procs, CheckUnclaimed(p) PROVE IInv'
  <1>1. /\ UNCHANGED <<disk, sent, opens, losses>> /\ proc[p].pc = "unclaimed"
        /\ Closed(p, "corrupt") \/ (To(p, "claim") /\ UNCHANGED holder)
    BY DEF CheckUnclaimed
  <1>2. /\ proc[p] \in States /\ IsDisk(disk') /\ opens' \in 0..MaxOpens /\ p \notin holder
        /\ disk'["reg"] = disk["reg"] /\ disk'["tmp"] = disk["tmp"]
        /\ sent' = sent /\ losses' = losses /\ opens' = opens
    BY <1>1, OutsideState DEF Inside
  <1>3. CASE Closed(p, "corrupt")
    BY <1>2, <1>3, ClosedKeeps DEF Statuses
  <1>4. CASE To(p, "claim") /\ UNCHANGED holder
    <2> DEFINE s == [proc[p] EXCEPT !.pc = "claim"]
    <2>1. s \in States /\ s.pc \in Outside
      BY <1>1, <1>2 DEF States, Outside
    <2>2. proc' = [proc EXCEPT ![p] = s] /\ holder' = holder \ {p}
      BY <1>2, <1>4 DEF To
    <2> HIDE DEF s
    <2> QED BY <1>2, <2>1, <2>2, OutsideKeeps
  <1> QED BY <1>1, <1>3, <1>4

LEMMA ClaimKeeps == ASSUME IInv, NEW p \in Procs, ClaimLock(p) PROVE IInv'
  <1>1. /\ UNCHANGED <<holder, sent, opens, losses>> /\ proc[p].pc = "claim"
        /\ proc' = [proc EXCEPT ![p].pc = "flock", ![p].fresh = Now("lock") = NoFile]
        /\ disk' = IF Now("lock") = NoFile THEN Put(disk, "lock", Empty) ELSE disk
    BY DEF ClaimLock
  <1>2. proc[p] \in States /\ IsDisk(disk) /\ opens' \in 0..MaxOpens /\ p \notin holder
    BY <1>1, OutsideState DEF Inside
  <1>3. IsDisk(disk') /\ disk'["reg"] = disk["reg"] /\ disk'["tmp"] = disk["tmp"]
    <2>1. /\ IsDisk(Put(disk, "lock", Empty))
          /\ \A o \in Names \ {"lock"} : Put(disk, "lock", Empty)[o] = disk[o]
      BY <1>2, PutDisk, SomeFiles DEF Names
    <2> QED BY <1>1, <1>2, <2>1 DEF Names
  <1> DEFINE s == [proc[p] EXCEPT !.pc = "flock", !.fresh = Now("lock") = NoFile]
  <1>4. s \in States /\ s.pc \in Outside
    BY <1>1, <1>2 DEF States, Outside
  <1>5. proc' = [proc EXCEPT ![p] = s] /\ holder' = holder \ {p}
    BY <1>1, <1>2 DEF States
  <1> HIDE DEF s
  <1> QED BY <1>1, <1>2, <1>3, <1>4, <1>5, OutsideKeeps

LEMMA FlockKeeps == ASSUME IInv, NEW p \in Procs, Flock(p) PROVE IInv'
  <1>1. UNCHANGED <<disk, sent, opens, losses>> /\ proc[p].pc = "flock"
    BY DEF Flock
  <1>2. /\ proc[p] \in States /\ IsDisk(disk) /\ p \notin holder
        /\ StateType /\ Lease /\ proc \in [Procs -> States] /\ holder \subseteq Procs
    BY <1>1, OutsideState DEF Inside, IInv, StateType
  <1>3. CASE holder = {}
    <2>1. holder' = {p} /\ proc' = [proc EXCEPT ![p].pc = "read"]
      BY <1>3 DEF Flock, To
    <2>2. proc' \in [Procs -> States]
      <3>1. [proc[p] EXCEPT !.pc = "read"] \in States
        BY <1>1, <1>2 DEF States, Inside, Outside
      <3> QED BY <1>2, <2>1, <3>1
    <2>3. StateType'
      BY <1>1, <1>2, <2>1, <2>2 DEF StateType
    <2>4. proc'[p].pc = "read" /\ \A q \in Procs \ {p} : proc'[q] = proc[q]
      BY <1>2, <2>1 DEF States
    <2>5. Lease'
      BY <1>2, <1>3, <2>1, <2>4 DEF Lease, Inside
    <2>6. Durable(disk'["reg"], sent') /\ NonceUnique'
      BY <1>1 DEF IInv, NonceUnique
    <2> QED BY <2>1, <2>3, <2>4, <2>5, <2>6 DEF IInv
  <1>4. CASE holder # {}
    <2>1. Closed(p, "locked")
      BY <1>4 DEF Flock
    <2> QED BY <1>1, <1>2, <2>1, ClosedKeeps DEF Statuses
  <1> QED BY <1>3, <1>4

-----------------------------------------------------------------------------
(* Steps of the process that holds the lease *)

LEMMA LesseeKeeps ==
  ASSUME IInv, NEW p \in holder, NEW s \in States, s.pc \in Inside \ {"read"},
         proc' = [proc EXCEPT ![p] = s], UNCHANGED <<holder, opens, losses>>, IsDisk(disk'),
         Durable(disk'["reg"], sent'), Lessee(s, disk', sent'), NonceUnique',
         \A m \in sent' : m.id \in Identities /\ m.n \in Nat
  PROVE  IInv'
  <1>1. /\ StateType /\ Lease /\ proc \in [Procs -> States] /\ holder \subseteq Procs
        /\ p \in Procs
    BY DEF IInv, StateType
  <1>2. StateType'
    BY <1>1 DEF StateType
  <1>3. proc'[p] = s /\ \A q \in Procs \ {p} : proc'[q] = proc[q]
    BY <1>1
  <1>4. Lease'
    BY <1>1, <1>3 DEF Lease
  <1>5. \A q \in holder' : q = p
    BY <1>1 DEF Lease
  <1> QED BY <1>2, <1>3, <1>4, <1>5 DEF IInv

LEMMA Admitted ==
  ASSUME IInv, NEW p \in Procs, proc[p].pc \in Inside
  PROVE  /\ p \in holder /\ proc[p] \in States /\ IsDisk(disk)
         /\ Durable(disk["reg"], sent) /\ NonceUnique
         /\ \A m \in sent : m.id \in Identities /\ m.n \in Nat
         /\ proc[p].pc # "read" => Lessee(proc[p], disk, sent)
         /\ Now("reg") \in Files /\ Now("tmp") \in Files /\ Now("reg") \in disk["reg"].may
  BY OutsideState DEF IInv, StateType, Lease

\* A step that changes at most the temporary file and the position in the code,
\* and not into "rename" or "dirsync".
LEMMA MoveKeeps ==
  ASSUME IInv, NEW p \in Procs, proc[p].pc \in Inside \ {"read", "ready"},
         NEW c \in Inside \ {"read", "dirsync"}, NEW status \in Statuses,
         proc' = [proc EXCEPT ![p] = [@ EXCEPT !.pc = c, !.failed = status]],
         UNCHANGED <<holder, sent, opens, losses>>,
         IsDisk(disk'), disk'["reg"] = disk["reg"],
         c = "rename" => disk'["tmp"].now.k = "synced" /\ disk'["tmp"].now.recs = proc[p].recs,
         c = "ready" => status # "ok"
  PROVE  IInv'
  <1> DEFINE s == [proc[p] EXCEPT !.pc = c, !.failed = status]
  <1>1. /\ p \in holder /\ proc[p] \in States /\ Lessee(proc[p], disk, sent)
        /\ Durable(disk["reg"], sent) /\ NonceUnique
        /\ \A m \in sent : m.id \in Identities /\ m.n \in Nat
    BY Admitted
  <1>2. /\ s \in States /\ s.pc = c /\ s.id = proc[p].id /\ s.gen = proc[p].gen
        /\ s.recs = proc[p].recs /\ s.base = proc[p].base /\ s.boundary = proc[p].boundary
        /\ s.target = proc[p].target /\ s.seq = proc[p].seq /\ s.granted = proc[p].granted
        /\ s.failed = status
    BY <1>1 DEF States, Inside, Outside
  <1>3. proc' = [proc EXCEPT ![p] = s]
    OBVIOUS
  <1> HIDE DEF s
  <1>4. Lessee(s, disk', sent')
    BY <1>1, <1>2 DEF Lessee
  <1>5. NonceUnique'
    BY <1>1 DEF NonceUnique
  <1> QED BY <1>1, <1>2, <1>3, <1>4, <1>5, LesseeKeeps

\* A failure inside the store ends the lease or poisons the process.
LEMMA FailKeeps ==
  ASSUME IInv, NEW p \in Procs, proc[p].pc \in Inside \ {"read", "ready"},
         NEW status \in Statuses \ {"ok"}, Fail(p, status), UNCHANGED <<sent, opens, losses>>,
         IsDisk(disk'), disk'["reg"] = disk["reg"]
  PROVE  IInv'
  <1>1. p \in holder /\ proc[p] \in States
    BY Admitted
  <1>2. CASE proc[p].boundary = 0
    BY <1>1, <1>2, ClosedKeeps DEF Fail
  <1>3. CASE proc[p].boundary # 0
    <2>1. /\ proc' = [proc EXCEPT ![p] = [@ EXCEPT !.pc = "ready", !.failed = status]]
          /\ UNCHANGED holder
      BY <1>1, <1>3 DEF Fail, States
    <2> QED BY <2>1, MoveKeeps DEF Inside
  <1> QED BY <1>2, <1>3

\* Admission: no record of the registry, hence no message ever sent, is in the
\* key spaces of the new identity.
LEMMA ReadKeeps == ASSUME IInv, NEW p \in Procs, ReadAndAdmit(p) PROVE IInv'
  <1> DEFINE f == Now("reg")
             r == [id |-> proc[p].id, bound |-> Freq]
             s == [proc[p] EXCEPT !.pc = "clean", !.base = f, !.recs = Append(f.recs, r),
                                  !.target = Freq]
             read == ReadRegistry(proc[p], f)
             status == IF read = "ok" THEN Admit(proc[p], f) ELSE read
  <1>0. proc[p].pc = "read" /\ UNCHANGED <<disk, sent, opens, losses>>
    BY DEF ReadAndAdmit
  <1>1. /\ p \in holder /\ proc[p] \in States /\ IsDisk(disk)
        /\ Durable(disk["reg"], sent) /\ NonceUnique
        /\ \A m \in sent : m.id \in Identities /\ m.n \in Nat
        /\ f \in Files /\ f \in disk["reg"].may /\ f.recs \in Seq(Records)
    BY <1>0, Admitted, SomeFiles DEF Inside
  <1>2. status \in Statuses
    BY DEF ReadRegistry, Admit, Statuses
  <1>3. CASE status # "ok"
    <2>1. Closed(p, status)
      BY <1>3 DEF ReadAndAdmit
    <2> HIDE DEF status
    <2> QED BY <1>0, <1>1, <1>2, <2>1, ClosedKeeps
  <1>4. CASE status = "ok"
    <2>1. proc' = [proc EXCEPT ![p] = s] /\ UNCHANGED holder
      BY <1>4 DEF ReadAndAdmit
    <2>2. \A j \in DOMAIN f.recs : ~Overlaps(f.recs[j].id, proc[p].id)
      BY <1>4 DEF Admit, ReadRegistry
    <2> HIDE DEF f, status, read
    <2>3. Covers(f.recs, sent) /\ disk["reg"].now = f
      BY <1>1 DEF Durable, f, Now
    <2>4. \A m \in sent : ~Overlaps(m.id, proc[p].id)
      BY <2>2, <2>3 DEF Covers, Reserved
    <2>5. r \in Records /\ r.id = proc[p].id /\ r.bound = Freq /\ Freq \in 1..Limit
          /\ Limit \in Nat
      BY <1>1, StoreAssumption DEF Records, States
    <2> HIDE DEF r
    <2>6. /\ Append(f.recs, r) \in Seq(Records) /\ Append(f.recs, r) # <<>>
          /\ Append(f.recs, r)[Len(Append(f.recs, r))] = r
          /\ Covers(Append(f.recs, r), sent)
      BY <1>1, <2>3, <2>5, AppendReserves
    <2>7. /\ s \in States /\ s.pc = "clean" /\ s.id = proc[p].id /\ s.gen = proc[p].gen
          /\ s.base = f /\ s.recs = Append(f.recs, r) /\ s.target = Freq
          /\ s.boundary = 0 /\ s.seq = 0 /\ s.granted = 0
      <3> HIDE DEF Records, Files, Identities
      <3>1. Freq \in 0..Limit
        BY <2>5
      <3> QED BY <1>0, <1>1, <2>6, <3>1 DEF States, Inside, Outside
    <2> HIDE DEF s
    <2>8. Lessee(s, disk', sent')
      BY <1>0, <2>3, <2>4, <2>5, <2>6, <2>7 DEF Lessee
    <2>9. NonceUnique' /\ IsDisk(disk') /\ Durable(disk'["reg"], sent')
      BY <1>0, <1>1 DEF NonceUnique
    <2> QED BY <1>0, <1>1, <2>1, <2>7, <2>8, <2>9, LesseeKeeps DEF Inside
  <1> QED BY <1>3, <1>4

LEMMA CleanKeeps == ASSUME IInv, NEW p \in Procs, CleanPending(p) PROVE IInv'
  <1>1. proc[p].pc = "clean" /\ UNCHANGED <<sent, opens, losses>>
    BY DEF CleanPending
  <1>2. proc[p].pc \in Inside \ {"read", "ready"}
    BY <1>1 DEF Inside
  <1>3. p \in holder /\ proc[p] \in States /\ IsDisk(disk)
    BY <1>2, Admitted
  <1>4. CASE disk' = Removed /\ To(p, "temp") /\ UNCHANGED holder
    <2> DEFINE c == "temp"
    <2>0. c \in Inside \ {"read", "dirsync"} /\ c # "rename" /\ c # "ready"
      BY DEF Inside
    <2>1. proc' = [proc EXCEPT ![p] = [@ EXCEPT !.pc = c, !.failed = proc[p].failed]]
      BY <1>3, <1>4 DEF To, States
    <2>2. IsDisk(disk') /\ disk'["reg"] = disk["reg"] /\ proc[p].failed \in Statuses
      BY <1>3, <1>4, RemovedDisk DEF States
    <2> HIDE DEF c
    <2> QED BY <1>1, <1>2, <1>4, <2>0, <2>1, <2>2, MoveKeeps
  <1>5. CASE disk' = disk /\ Fail(p, "corrupt")
    BY <1>1, <1>2, <1>3, <1>5, FailKeeps DEF Statuses
  <1> QED BY <1>4, <1>5 DEF CleanPending

LEMMA OpenTempKeeps == ASSUME IInv, NEW p \in Procs, OpenTemp(p) PROVE IInv'
  <1> DEFINE t == [k |-> "torn", recs |-> <<>>]
  <1>1. proc[p].pc = "temp" /\ UNCHANGED <<sent, opens, losses>>
    BY DEF OpenTemp
  <1>2. proc[p].pc \in Inside \ {"read", "ready"}
    BY <1>1 DEF Inside
  <1>3. p \in holder /\ proc[p] \in States /\ IsDisk(disk)
    BY <1>2, Admitted
  <1>4. CASE disk' = Put(disk, "tmp", t) /\ To(p, "write") /\ UNCHANGED holder
    <2> DEFINE c == "write"
    <2>0. c \in Inside \ {"read", "dirsync"} /\ c # "rename" /\ c # "ready"
      BY DEF Inside
    <2>1. proc' = [proc EXCEPT ![p] = [@ EXCEPT !.pc = c, !.failed = proc[p].failed]]
          /\ proc[p].failed \in Statuses
      BY <1>3, <1>4 DEF To, States
    <2>2. t \in Files
      BY DEF Files
    <2> HIDE DEF t
    <2>3. IsDisk(disk') /\ disk'["reg"] = disk["reg"]
      BY <1>3, <1>4, <2>2, PutDisk DEF Names
    <2> HIDE DEF c
    <2> QED BY <1>1, <1>2, <1>4, <2>0, <2>1, <2>3, MoveKeeps
  <1>5. CASE disk' = disk /\ Fail(p, "unavailable")
    BY <1>1, <1>2, <1>3, <1>5, FailKeeps DEF Statuses
  <1> QED BY <1>4, <1>5 DEF OpenTemp

LEMMA PersistFailsKeeps == ASSUME IInv, NEW p \in Procs, PersistFails(p) PROVE IInv'
  <1>1. /\ proc[p].pc \in Inside \ {"read", "ready"} /\ UNCHANGED <<sent, opens, losses>>
        /\ disk' \in {disk, Removed} /\ Fail(p, "unavailable")
    BY DEF PersistFails, Inside
  <1>2. IsDisk(disk) /\ p \in holder
    BY <1>1, Admitted
  <1>3. IsDisk(disk') /\ disk'["reg"] = disk["reg"]
    BY <1>1, <1>2, RemovedDisk
  <1> QED BY <1>1, <1>3, FailKeeps DEF Statuses

LEMMA WriteKeeps == ASSUME IInv, NEW p \in Procs, WriteTemp(p) \/ SyncTemp(p) PROVE IInv'
  <1>1. PICK k \in {"cached", "synced"}, c \in {"sync", "rename"} :
          /\ proc[p].pc \in {"write", "sync"} /\ UNCHANGED <<holder, sent, opens, losses>>
          /\ disk' = SetTemp([k |-> k, recs |-> proc[p].recs]) /\ To(p, c)
          /\ c = "rename" => k = "synced"
    BY DEF WriteTemp, SyncTemp
  <1>2. proc[p].pc \in Inside \ {"read", "ready"} /\ c \in Inside \ {"read", "dirsync"}
    BY <1>1 DEF Inside
  <1>3. proc[p] \in States /\ IsDisk(disk)
    BY <1>2, Admitted
  <1>4. proc' = [proc EXCEPT ![p] = [@ EXCEPT !.pc = c, !.failed = proc[p].failed]]
        /\ proc[p].failed \in Statuses
    BY <1>1, <1>3 DEF To, States
  <1> DEFINE t == [k |-> k, recs |-> proc[p].recs]
  <1>5. t \in Files /\ t.k = k /\ t.recs = proc[p].recs
    <2> HIDE DEF Records
    <2> QED BY <1>3 DEF Files, States
  <1>6. disk' = SetTemp(t)
    BY <1>1
  <1> HIDE DEF t
  <1>7. IsDisk(disk') /\ disk'["reg"] = disk["reg"] /\ disk'["tmp"].now = t
    BY <1>3, <1>5, <1>6, SetTempDisk
  <1> QED BY <1>1, <1>2, <1>4, <1>5, <1>7, MoveKeeps

\* The rename replaces the registry by a file with all reservations.
LEMMA RenameKeeps == ASSUME IInv, NEW p \in Procs, RenameTemp(p) PROVE IInv'
  <1> DEFINE t == Now("tmp")
             s == [proc[p] EXCEPT !.pc = "dirsync", !.base = t]
             d == Put(disk, "reg", t)
  <1>1. /\ proc[p].pc = "rename" /\ UNCHANGED <<holder, sent, opens, losses>>
        /\ disk' = Put(d, "tmp", NoFile)
        /\ proc' = [proc EXCEPT ![p].pc = "dirsync", ![p].base = t]
    BY DEF RenameTemp
  <1>2. /\ p \in holder /\ proc[p] \in States /\ IsDisk(disk)
        /\ Durable(disk["reg"], sent) /\ NonceUnique
        /\ \A m \in sent : m.id \in Identities /\ m.n \in Nat
        /\ Lessee(proc[p], disk, sent) /\ t \in Files
    BY <1>1, Admitted DEF Inside
  <1>3. t.k = "synced" /\ t.recs = proc[p].recs
    BY <1>1, <1>2 DEF Lessee, Now
  <1>4. /\ s \in States /\ s.pc = "dirsync" /\ s.id = proc[p].id /\ s.gen = proc[p].gen
        /\ s.base = t /\ s.recs = proc[p].recs /\ s.boundary = proc[p].boundary
        /\ s.target = proc[p].target /\ s.seq = proc[p].seq /\ s.granted = proc[p].granted
        /\ proc' = [proc EXCEPT ![p] = s]
    <2> HIDE DEF t, Files, Records, Identities
    <2> QED BY <1>1, <1>2 DEF States, Inside, Outside
  <1> HIDE DEF s, t
  <1>5. IsDisk(d) /\ d["reg"].now = t /\ d["reg"].may = disk["reg"].may \cup {t}
    BY <1>2, PutDisk DEF Names
  <1> HIDE DEF d
  <1>6. IsDisk(disk') /\ disk'["reg"].now = t /\ disk'["reg"].may = disk["reg"].may \cup {t}
    <2>1. /\ IsDisk(Put(d, "tmp", NoFile))
          /\ \A o \in Names \ {"tmp"} : Put(d, "tmp", NoFile)[o] = d[o]
      BY <1>5, PutDisk, SomeFiles DEF Names
    <2>2. IsDisk(disk') /\ disk'["reg"] = d["reg"]
      BY <1>1, <2>1 DEF Names
    <2> QED BY <1>5, <2>2
  <1>7. Covers(t.recs, sent)
    BY <1>2, <1>3 DEF Lessee
  <1>8. Durable(disk'["reg"], sent')
    BY <1>1, <1>2, <1>3, <1>6, <1>7 DEF Durable
  <1>9. Reserved(t.recs, s.id, s.boundary)
    <2>1. /\ proc[p].recs \in Seq(Records) /\ proc[p].recs # <<>>
          /\ proc[p].recs[Len(proc[p].recs)].id = proc[p].id
          /\ proc[p].recs[Len(proc[p].recs)].bound = proc[p].target
          /\ proc[p].boundary <= proc[p].target
          /\ proc[p].boundary \in 0..Limit /\ proc[p].target \in 0..Limit
      BY <1>2 DEF Lessee, States
    <2>2. Len(proc[p].recs) \in DOMAIN proc[p].recs
      <3> HIDE DEF Records
      <3> QED BY <2>1
    <2>3. proc[p].target >= proc[p].boundary
      BY <2>1, StoreAssumption
    <2> QED BY <1>3, <1>4, <2>1, <2>2, <2>3 DEF Reserved
  <1>10. Lessee(s, disk', sent')
    BY <1>1, <1>2, <1>3, <1>4, <1>6, <1>9 DEF Lessee
  <1>11. NonceUnique'
    BY <1>1, <1>2 DEF NonceUnique
  <1> QED BY <1>1, <1>2, <1>4, <1>6, <1>8, <1>10, <1>11, LesseeKeeps DEF Inside

\* A message under a number that every registry a crash can leave reserves.
LEMMA ProtectKeeps ==
  ASSUME IInv, NEW p \in holder, proc[p] \in States, NEW d, NEW s \in States,
         Durable(d["reg"], sent), Lessee(proc[p], disk, sent),
         proc[p].seq + 1 <= s.boundary,
         \A f \in d["reg"].may : Reserved(f.recs, proc[p].id, s.boundary),
         \A f \in d["reg"].may : f \in Files,
         Protect(p, proc[p])
  PROVE  /\ Durable(d["reg"], sent') /\ NonceUnique'
         /\ \A m \in sent' : m.id \in Identities /\ m.n \in Nat
         /\ \A m \in sent' : m.gen = proc[p].gen \/ ~Overlaps(m.id, proc[p].id)
  <1> DEFINE m == [id |-> proc[p].id, n |-> proc[p].seq, gen |-> proc[p].gen]
  <1>1. sent' = sent \cup {m}
    BY DEF Protect
  <1>2. /\ m.id = proc[p].id /\ m.n = proc[p].seq /\ m.gen = proc[p].gen
        /\ m.id \in Identities /\ m.n \in Nat
    BY StoreAssumption DEF States
  <1> HIDE DEF m
  <1>3. \A x \in sent : x.id \in Identities /\ x.n \in Nat
    BY DEF IInv, StateType
  <1>4. \A x \in sent : x.gen = m.gen \/ ~Overlaps(x.id, m.id)
    BY <1>2 DEF Lessee
  <1>5. NonceUnique'
    <2> SUFFICES ASSUME NEW a \in sent', NEW b \in sent', a.gen # b.gen
                 PROVE  a.id.snd \notin {b.id.snd, b.id.rcv}
      BY DEF NonceUnique
    <2>1. CASE a \in sent /\ b \in sent
      BY <2>1 DEF IInv, NonceUnique
    <2>2. CASE a = m /\ b \in sent
      BY <1>4, <2>2 DEF Overlaps
    <2>3. CASE a \in sent /\ b = m
      BY <1>4, <2>3 DEF Overlaps
    <2> QED BY <1>1, <2>1, <2>2, <2>3
  <1>6. Durable(d["reg"], sent')
    <2>1. ASSUME NEW f \in d["reg"].may PROVE Reserved(f.recs, m.id, m.n + 1)
      <3>1. PICK j \in DOMAIN f.recs : f.recs[j].id = m.id /\ f.recs[j].bound >= s.boundary
        BY <1>2, <2>1 DEF Reserved
      <3>2. f.recs[j].bound \in Nat
        <4>1. f.recs \in Seq(Records)
          BY <2>1, SomeFiles
        <4>2. f.recs[j] \in Records
          <5> HIDE DEF Records
          <5> QED BY <4>1
        <4> QED BY <4>2, StoreAssumption DEF Records
      <3>3. s.boundary \in Nat
        BY StoreAssumption DEF States
      <3>4. f.recs[j].bound >= m.n + 1
        BY <1>2, <3>1, <3>2, <3>3
      <3> QED BY <3>1, <3>4 DEF Reserved
    <2> QED BY <1>1, <2>1 DEF Durable, Covers
  <1> QED BY <1>1, <1>2, <1>3, <1>4, <1>5, <1>6

\* The directory sync leaves one registry, with the new reservation.
LEMMA SyncDirectoryKeeps == ASSUME IInv, NEW p \in Procs, SyncDirectory(p) PROVE IInv'
  <1> DEFINE old == proc[p]
             first == old.boundary = 0
             s == [old EXCEPT !.pc = "ready", !.boundary = old.target,
                       !.granted = IF first THEN 0 ELSE old.target,
                       !.seq = IF first THEN 0 ELSE old.seq + 1]
  <1>1. /\ old.pc = "dirsync" /\ proc' = [proc EXCEPT ![p] = s]
        /\ IF first THEN sent' = sent ELSE Protect(p, old)
        /\ disk' = [n \in Names |-> [now |-> Now(n), may |-> {Now(n)}]]
        /\ UNCHANGED <<holder, opens, losses>>
    BY DEF SyncDirectory, Persisted
  <1>2. /\ p \in holder /\ old \in States /\ IsDisk(disk)
        /\ Durable(disk["reg"], sent) /\ NonceUnique
        /\ \A m \in sent : m.id \in Identities /\ m.n \in Nat
        /\ Lessee(old, disk, sent) /\ Now("reg") \in Files /\ Now("reg") \in disk["reg"].may
    BY <1>1, Admitted DEF Inside
  <1>3. /\ old.seq \in Nat /\ old.granted \in Nat /\ old.boundary \in Nat /\ old.target \in Nat
        /\ old.seq = old.granted /\ old.seq + 1 <= old.target /\ old.target <= Limit
        /\ old.granted <= old.boundary /\ old.boundary <= old.target /\ Limit \in Nat
    BY <1>1, <1>2, StoreAssumption DEF Lessee, States
  <1>4. /\ s \in States /\ s.pc = "ready" /\ s.id = old.id /\ s.gen = old.gen
        /\ s.base = old.base /\ s.recs = old.recs /\ s.target = old.target
        /\ s.boundary = old.target
        /\ s.seq = (IF first THEN 0 ELSE old.seq + 1)
        /\ s.granted = (IF first THEN 0 ELSE old.target)
    <2>1. /\ old.target \in 0..Limit /\ (IF first THEN 0 ELSE old.target) \in 0..Limit
          /\ (IF first THEN 0 ELSE old.seq + 1) \in 0..Limit
      BY <1>3
    <2> HIDE DEF Files, Records, Identities, first
    <2> QED BY <1>1, <1>2, <2>1 DEF States, Inside, Outside
  <1> HIDE DEF s
  <1>5. /\ IsDisk(disk') /\ disk'["reg"].now = Now("reg") /\ disk'["reg"].may = {Now("reg")}
    BY <1>1, <1>2 DEF IsDisk, Names, Now
  <1>6. Durable(disk'["reg"], sent)
    BY <1>2, <1>5 DEF Durable
  <1>7. Now("reg").recs = old.recs /\ Now("reg") = old.base /\ Covers(old.recs, sent)
    BY <1>1, <1>2 DEF Lessee, Now
  <1>8. Reserved(Now("reg").recs, old.id, s.boundary)
    <2>1. /\ old.recs \in Seq(Records) /\ old.recs # <<>>
          /\ old.recs[Len(old.recs)].id = old.id
          /\ old.recs[Len(old.recs)].bound = old.target
      BY <1>2 DEF Lessee, States
    <2>2. Len(old.recs) \in DOMAIN old.recs
      <3> HIDE DEF Records
      <3> QED BY <2>1
    <2>3. old.target >= old.target
      BY <1>3
    <2> QED BY <1>4, <1>7, <2>1, <2>2, <2>3 DEF Reserved
  <1>9. /\ Durable(disk'["reg"], sent') /\ NonceUnique'
        /\ \A m \in sent' : m.id \in Identities /\ m.n \in Nat
        /\ \A m \in sent' : m.gen = old.gen \/ ~Overlaps(m.id, old.id)
    <2>1. CASE first
      <3>1. sent' = sent
        BY <1>1, <2>1
      <3> QED BY <1>2, <1>6, <3>1 DEF Lessee, NonceUnique
    <2>2. CASE ~first
      <3>1. Protect(p, old)
        BY <1>1, <2>2
      <3>2. old.seq + 1 <= s.boundary
        BY <1>3, <1>4
      <3> HIDE DEF first
      <3> QED BY <1>2, <1>4, <1>5, <1>6, <1>8, <3>1, <3>2, ProtectKeeps
    <2> QED BY <2>1, <2>2
  <1>10. Covers(s.recs, sent')
    BY <1>4, <1>5, <1>7, <1>9 DEF Durable
  <1>11. s.seq <= s.granted /\ s.granted <= s.boundary /\ s.boundary <= s.target
    BY <1>3, <1>4
  <1>12. Lessee(s, disk', sent')
    <2>1. s.recs # <<>> /\ s.recs[Len(s.recs)].id = s.id /\ s.recs[Len(s.recs)].bound = s.target
      BY <1>2, <1>4 DEF Lessee
    <2>2. \A f \in disk'["reg"].may : Reserved(f.recs, s.id, s.boundary)
      BY <1>4, <1>5, <1>8
    <2> QED BY <1>4, <1>5, <1>7, <1>9, <1>10, <1>11, <2>1, <2>2 DEF Lessee
  <1> QED BY <1>1, <1>2, <1>4, <1>5, <1>9, <1>12, LesseeKeeps DEF Inside

LEMMA SendKeeps == ASSUME IInv, NEW p \in Procs, SendReserved(p) PROVE IInv'
  <1> DEFINE old == proc[p]
             next == IF old.seq + 1 > old.granted THEN old.granted + Freq ELSE old.granted
             s == [old EXCEPT !.seq = @ + 1, !.granted = next]
  <1>1. /\ old.pc = "ready" /\ next <= old.boundary
        /\ proc' = [proc EXCEPT ![p].seq = @ + 1, ![p].granted = next]
        /\ Protect(p, old) /\ UNCHANGED <<disk, holder, opens, losses>>
    BY DEF SendReserved
  <1>2. /\ p \in holder /\ old \in States /\ IsDisk(disk)
        /\ Durable(disk["reg"], sent) /\ NonceUnique /\ Lessee(old, disk, sent)
    BY <1>1, Admitted DEF Inside
  <1>3. /\ old.seq \in Nat /\ old.granted \in Nat /\ old.boundary \in 0..Limit
        /\ old.target \in 0..Limit /\ Limit \in Nat /\ Freq \in Nat \ {0}
        /\ old.seq <= old.granted /\ old.granted <= old.boundary /\ old.boundary <= old.target
    BY <1>2, StoreAssumption DEF Lessee, States
  <1>4. /\ next \in 0..Limit /\ old.seq + 1 \in 0..Limit /\ old.seq + 1 <= next
        /\ next <= old.boundary /\ old.seq + 1 <= old.boundary /\ old.boundary > 0
    BY <1>1, <1>3
  <1> HIDE DEF next
  <1>5. /\ s \in States /\ s.pc = "ready" /\ s.id = old.id /\ s.gen = old.gen
        /\ s.base = old.base /\ s.recs = old.recs /\ s.target = old.target
        /\ s.boundary = old.boundary /\ s.seq = old.seq + 1 /\ s.granted = next
        /\ s.failed = old.failed
        /\ proc' = [proc EXCEPT ![p] = s]
    <2> HIDE DEF Files, Records, Identities
    <2> QED BY <1>1, <1>2, <1>4 DEF States, Inside, Outside
  <1> HIDE DEF s
  <1>6. \A f \in disk["reg"].may : Reserved(f.recs, old.id, s.boundary) /\ f \in Files
    BY <1>2, <1>4, <1>5 DEF Lessee, IsDisk, Names
  <1>7. /\ Durable(disk["reg"], sent')
        /\ NonceUnique' /\ \A m \in sent' : m.id \in Identities /\ m.n \in Nat
        /\ \A m \in sent' : m.gen = old.gen \/ ~Overlaps(m.id, old.id)
    BY <1>1, <1>2, <1>4, <1>5, <1>6, ProtectKeeps
  <1>8. Covers(s.recs, sent')
    <2>1. Covers(old.recs, sent) /\ old.recs \in Seq(Records) /\ old.recs # <<>>
          /\ old.recs[Len(old.recs)].id = old.id /\ old.recs[Len(old.recs)].bound = old.target
      BY <1>2 DEF Lessee, States
    <2>2. Len(old.recs) \in DOMAIN old.recs
      <3> HIDE DEF Records
      <3> QED BY <2>1
    <2>3. old.target >= old.seq + 1
      BY <1>3, <1>4
    <2>4. Reserved(old.recs, old.id, old.seq + 1)
      BY <2>1, <2>2, <2>3 DEF Reserved
    <2> DEFINE m == [id |-> old.id, n |-> old.seq, gen |-> old.gen]
    <2>5. sent' = sent \cup {m} /\ m.id = old.id /\ m.n = old.seq
      BY <1>1 DEF Protect
    <2> HIDE DEF m
    <2> QED BY <1>5, <2>1, <2>4, <2>5 DEF Covers
  <1>9. Lessee(s, disk', sent')
    <2>1. s.seq <= s.granted /\ s.granted <= s.boundary /\ s.boundary <= s.target
      BY <1>3, <1>4, <1>5
    <2>2. s.recs # <<>> /\ s.recs[Len(s.recs)].id = s.id /\ s.recs[Len(s.recs)].bound = s.target
          /\ disk["reg"].now = s.base /\ (s.failed = "ok" => s.target = s.boundary)
      BY <1>1, <1>2, <1>5 DEF Lessee
    <2> QED BY <1>1, <1>5, <1>6, <1>7, <1>8, <2>1, <2>2 DEF Lessee
  <1>10. IsDisk(disk') /\ Durable(disk'["reg"], sent')
    BY <1>1, <1>2, <1>7
  <1> QED BY <1>1, <1>2, <1>5, <1>7, <1>9, <1>10, LesseeKeeps DEF Inside

LEMMA ReserveKeeps == ASSUME IInv, NEW p \in Procs, Reserve(p) PROVE IInv'
  <1> DEFINE old == proc[p]
             next == old.granted + Freq
             w == [old.recs EXCEPT ![Len(old.recs)].bound = next]
             x == [old EXCEPT !.failed = "exhausted"]
             s == [old EXCEPT !.pc = "clean", !.target = next, !.recs = w]
  <1>1. /\ old.pc = "ready" /\ old.failed = "ok" /\ old.seq + 1 > old.granted
        /\ next > old.boundary /\ UNCHANGED <<disk, holder, sent, opens, losses>>
        /\ proc' = [proc EXCEPT ![p] = IF next > Limit THEN x ELSE s]
    BY DEF Reserve
  <1>2. /\ p \in holder /\ old \in States /\ IsDisk(disk')
        /\ Durable(disk'["reg"], sent') /\ Lessee(old, disk, sent)
        /\ \A m \in sent' : m.id \in Identities /\ m.n \in Nat
    BY <1>1, Admitted DEF Inside
  <1>3. NonceUnique'
    BY <1>1 DEF IInv, NonceUnique
  <1>4. CASE next > Limit
    <2>1. /\ x \in States /\ x.pc = "ready" /\ x.id = old.id /\ x.gen = old.gen
          /\ x.base = old.base /\ x.recs = old.recs /\ x.target = old.target
          /\ x.boundary = old.boundary /\ x.seq = old.seq /\ x.granted = old.granted
          /\ x.failed = "exhausted"
      <3> HIDE DEF Files, Records, Identities
      <3> QED BY <1>1, <1>2 DEF States, Inside, Outside, Statuses
    <2>2. proc' = [proc EXCEPT ![p] = x]
      BY <1>1, <1>4
    <2> HIDE DEF x
    <2>3. Lessee(x, disk', sent')
      BY <1>1, <1>2, <2>1 DEF Lessee
    <2> QED BY <1>1, <1>2, <1>3, <2>1, <2>2, <2>3, LesseeKeeps DEF Inside
  <1>5. CASE ~(next > Limit)
    <2>1. /\ old.seq \in Nat /\ old.granted \in Nat /\ old.boundary \in Nat
          /\ Limit \in Nat /\ Freq \in Nat \ {0}
          /\ old.seq <= old.granted /\ old.granted <= old.boundary
          /\ old.target = old.boundary /\ old.recs \in Seq(Records) /\ old.recs # <<>>
          /\ old.recs[Len(old.recs)].id = old.id /\ old.recs[Len(old.recs)].bound = old.target
          /\ Covers(old.recs, sent)
      BY <1>1, <1>2, StoreAssumption DEF Lessee, States
    <2>2. /\ next \in 1..Limit /\ next \in 0..Limit /\ old.target <= next
          /\ old.seq = old.granted /\ old.seq < next /\ old.boundary <= next
      BY <1>1, <1>5, <2>1
    <2> HIDE DEF next
    <2>3. /\ w \in Seq(Records) /\ w # <<>> /\ Covers(w, sent)
          /\ w[Len(w)].id = old.id /\ w[Len(w)].bound = next
      BY <1>2, <1>1, <2>1, <2>2, RaiseReserves
    <2> HIDE DEF w
    <2>4. /\ s \in States /\ s.pc = "clean" /\ s.id = old.id /\ s.gen = old.gen
          /\ s.base = old.base /\ s.recs = w /\ s.target = next
          /\ s.boundary = old.boundary /\ s.seq = old.seq /\ s.granted = old.granted
      <3> HIDE DEF Files, Records, Identities
      <3> QED BY <1>1, <1>2, <2>2, <2>3 DEF States, Inside, Outside
    <2>5. proc' = [proc EXCEPT ![p] = s]
      BY <1>1, <1>5 DEF next
    <2> HIDE DEF s
    <2>6. Lessee(s, disk', sent')
      BY <1>1, <1>2, <2>1, <2>2, <2>3, <2>4 DEF Lessee
    <2> QED BY <1>1, <1>2, <1>3, <2>4, <2>5, <2>6, LesseeKeeps DEF Inside
  <1> QED BY <1>4, <1>5

-----------------------------------------------------------------------------
(* Ends, crashes and power losses *)

LEMMA EndKeeps == ASSUME IInv, NEW p \in Procs, CloseStore(p) \/ Crash(p) PROVE IInv'
  <1>1. proc[p] \in States /\ IsDisk(disk)
    BY OutsideState
  <1>2. PICK status \in Statuses : Closed(p, status) /\ UNCHANGED <<disk, sent, opens, losses>>
    <2>1. proc[p].failed \in Statuses /\ "crashed" \in Statuses
      BY <1>1 DEF States, Statuses
    <2> QED BY <2>1 DEF CloseStore, Crash
  <1> QED BY <1>1, <1>2, ClosedKeeps

\* A power loss leaves one of the registries a crash can leave: none of them
\* is cached content that could be torn.
LEMMA PowerLossKeeps == ASSUME IInv, PowerLoss PROVE IInv'
  <1> DEFINE c == [Idle EXCEPT !.failed = "crashed"]
  <1>1. /\ losses < MaxLosses /\ losses' = losses + 1
        /\ holder' = {} /\ proc' = [p \in Procs |-> c] /\ UNCHANGED <<sent, opens>>
    BY DEF PowerLoss
  <1>2. PICK l \in Survivors("lock"), r \in Survivors("reg"), t \in Survivors("tmp") :
          disk' = [n \in Names |->
                     [now |-> IF n = "lock" THEN l ELSE IF n = "reg" THEN r ELSE t,
                      may |-> {IF n = "lock" THEN l ELSE IF n = "reg" THEN r ELSE t}]]
    <2> DEFINE kept(l, r, t) == [n \in Names |->
                                   IF n = "lock" THEN l ELSE IF n = "reg" THEN r ELSE t]
    <2>1. PICK l \in Survivors("lock"), r \in Survivors("reg"), t \in Survivors("tmp") :
            disk' = [n \in Names |-> [now |-> kept(l, r, t)[n], may |-> {kept(l, r, t)[n]}]]
      BY DEF PowerLoss
    <2>2. \A n \in Names :
            kept(l, r, t)[n] = IF n = "lock" THEN l ELSE IF n = "reg" THEN r ELSE t
      OBVIOUS
    <2> HIDE DEF kept, Names
    <2>3. disk' = [n \in Names |->
                     [now |-> IF n = "lock" THEN l ELSE IF n = "reg" THEN r ELSE t,
                      may |-> {IF n = "lock" THEN l ELSE IF n = "reg" THEN r ELSE t}]]
      BY <2>1, <2>2
    <2> QED BY <2>3
  <1>3. /\ IsDisk(disk) /\ losses \in 0..MaxLosses /\ MaxLosses \in Nat
        /\ Durable(disk["reg"], sent) /\ \A m \in sent : m.id \in Identities /\ m.n \in Nat
        /\ opens \in 0..MaxOpens /\ NonceUnique
    BY StoreAssumption DEF IInv, StateType
  <1>4. \A n \in Names : Survivors(n) \subseteq Files
    <2>1. \A n \in Names : disk[n].may \subseteq Files
      BY <1>3 DEF IsDisk
    <2> QED BY <2>1, SomeFiles DEF Survivors
  <1>5. Survivors("reg") = disk["reg"].may
    BY <1>3 DEF Survivors, Durable
  <1>6. IsDisk(disk') /\ disk'["reg"].now = r /\ disk'["reg"].may = {r}
    BY <1>2, <1>4 DEF IsDisk, Names
  <1>7. Durable(disk'["reg"], sent')
    BY <1>1, <1>3, <1>5, <1>6 DEF Durable
  <1>8. c \in States /\ c.pc = "idle"
    BY IdleState DEF Statuses
  <1> HIDE DEF c
  <1>9. StateType'
    <2>1. losses' \in 0..MaxLosses
      BY <1>1, <1>3
    <2> QED BY <1>1, <1>3, <1>6, <1>8, <2>1 DEF StateType
  <1>10. Lease'
    BY <1>1, <1>8 DEF Lease, Inside
  <1>11. NonceUnique'
    BY <1>1, <1>3 DEF NonceUnique
  <1> QED BY <1>1, <1>7, <1>9, <1>10, <1>11 DEF IInv

-----------------------------------------------------------------------------
(* The invariant *)

LEMMA InitIInv == ASSUME Init PROVE IInv
  <1>1. Idle \in States /\ Idle.pc = "idle"
    BY IdleState DEF Statuses
  <1>2. NoFile \in Files /\ NoFile.k = "none"
    BY SomeFiles DEF NoFile
  <1> HIDE DEF Idle, NoFile
  <1>3. /\ IsDisk(disk) /\ disk["reg"].now = NoFile /\ disk["reg"].may = {NoFile}
        /\ holder = {} /\ sent = {} /\ proc = [p \in Procs |-> Idle]
    BY <1>2 DEF Init, IsDisk, Names
  <1>4. opens \in 0..MaxOpens /\ losses \in 0..MaxLosses
    BY StoreAssumption DEF Init
  <1>5. StateType
    BY <1>1, <1>3, <1>4 DEF StateType
  <1>6. Lease
    BY <1>1, <1>3 DEF Lease, Inside
  <1>7. Durable(disk["reg"], sent) /\ NonceUnique
    BY <1>2, <1>3 DEF Durable, Covers, NonceUnique
  <1> QED BY <1>3, <1>5, <1>6, <1>7 DEF IInv

LEMMA NextIInv == ASSUME IInv, [Next]_vars PROVE IInv'
  <1>1. CASE UNCHANGED vars
    BY <1>1 DEF vars, IInv, StateType, Lease, NonceUnique
  <1>2. CASE PowerLoss
    BY <1>2, PowerLossKeeps
  <1>3. ASSUME NEW p \in Procs, NEW i \in Identities, OpenStore(p, i) PROVE IInv'
    BY <1>3, OpenKeeps
  <1>4. ASSUME NEW p \in Procs, CheckUnclaimed(p) \/ ClaimLock(p) \/ Flock(p) \/ ReadAndAdmit(p)
        PROVE IInv'
    BY <1>4, CheckKeeps, ClaimKeeps, FlockKeeps, ReadKeeps
  <1>5. ASSUME NEW p \in Procs,
               CleanPending(p) \/ OpenTemp(p) \/ WriteTemp(p) \/ SyncTemp(p) \/ RenameTemp(p)
        PROVE IInv'
    BY <1>5, CleanKeeps, OpenTempKeeps, WriteKeeps, RenameKeeps
  <1>6. ASSUME NEW p \in Procs, SyncDirectory(p) \/ PersistFails(p) \/ SendReserved(p)
                                \/ Reserve(p) \/ CloseStore(p) \/ Crash(p)
        PROVE IInv'
    BY <1>6, SyncDirectoryKeeps, PersistFailsKeeps, SendKeeps, ReserveKeeps, EndKeeps
  <1> QED BY <1>1, <1>2, <1>3, <1>4, <1>5, <1>6 DEF Next

LEMMA IInvAlways == Spec => []IInv
  BY InitIInv, NextIInv, PTL DEF Spec

\* No key and sequence number of OSCORE is used by two openings of the store,
\* and none sends where another receives, for any processes, key materials and
\* limits, through every crash and power loss of store.c.
THEOREM NonceNeverReused == Spec => []NonceUnique
  <1>1. IInv => NonceUnique
    BY DEF IInv
  <1> QED BY <1>1, IInvAlways, PTL

\* Every registry that a crash or a power loss can leave is whole and reserves
\* every number ever sent: persist renames synced content only, and a number is
\* used only after the directory sync (store.c, persist and wco_store_reserve).
THEOREM SequencesReserved == Spec => []SequenceReserved
  <1>1. ASSUME IInv PROVE SequenceReserved
    <2>1. /\ Durable(disk["reg"], sent) /\ disk["reg"].may \subseteq Files
          /\ \A m \in sent : m.n \in Nat
      BY <1>1 DEF IInv, StateType, IsDisk, Names
    <2>2. \A f \in Survivors("reg") : f.k \in {"none", "synced"}
      BY <2>1 DEF Survivors, Durable
    <2>3. ASSUME NEW m \in sent, NEW f \in disk["reg"].may
          PROVE  \E j \in DOMAIN f.recs : f.recs[j].id = m.id /\ f.recs[j].bound > m.n
      <3>1. PICK j \in DOMAIN f.recs : f.recs[j].id = m.id /\ f.recs[j].bound >= m.n + 1
        BY <2>1, <2>3 DEF Durable, Covers, Reserved
      <3>2. f.recs[j].bound \in Nat
        <4>1. f.recs \in Seq(Records)
          BY <2>1, <2>3, SomeFiles
        <4>2. f.recs[j] \in Records
          <5> HIDE DEF Records
          <5> QED BY <4>1
        <4> QED BY <4>2, StoreAssumption DEF Records
      <3>3. f.recs[j].bound > m.n
        BY <2>1, <3>1, <3>2
      <3> QED BY <3>1, <3>3
    <2> QED BY <2>2, <2>3 DEF SequenceReserved
  <1> QED BY <1>1, IInvAlways, PTL

\* The flock of wco_store_open admits one process, and while it can write the
\* registry on disk is the one it read or renamed itself.
THEOREM LeaseAlwaysExclusive == Spec => []LeaseExclusive
  <1>1. ASSUME IInv PROVE LeaseExclusive
    <2>1. \A p \in Procs : proc[p] \in States
      BY <1>1 DEF IInv, StateType
    <2>2. \A p \in Procs :
            /\ proc[p].id \in Identities /\ proc[p].recs \in Seq(Records)
            /\ proc[p].boundary \in 0..Limit /\ proc[p].granted \in 0..Limit
            /\ proc[p].seq \in 0..Limit
      BY <2>1 DEF States
    <2>3. holder \subseteq {p \in Procs : proc[p].pc \notin {"idle", "unclaimed", "claim", "flock"}}
      BY <1>1 DEF IInv, StateType, Lease, Inside
    <2>4. TypeOK
      BY <1>1, <2>2, <2>3 DEF TypeOK, IInv, StateType, IsDisk
    <2>5. \A p \in holder : proc[p].pc # "read" => Owned(p)
      BY <1>1 DEF IInv, Lessee, Owned, Now
    <2> QED BY <1>1, <2>4, <2>5 DEF LeaseExclusive, IInv, Lease
  <1> QED BY <1>1, IInvAlways, PTL
=============================================================================
