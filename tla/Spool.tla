------------------------------- MODULE Spool -------------------------------
(***************************************************************************)
(* The agent's offline spool (agent/src/spool.rs) driven by the telemetry  *)
(* loop that owns it (flush_and_send and drain_spool in                    *)
(* agent/src/main.rs).                                                     *)
(*                                                                         *)
(* The spool directory is the sequence of its files in the order list()    *)
(* returns them, which is the order of their names: a file stored while    *)
(* the wall clock runs forward comes last, one stored after the clock was  *)
(* set back may land anywhere.  A file stands for its batch: an identity,  *)
(* the priority tier in its name, its length, and whether it still decodes.*)
(* The server refuses requests over a limit, which here is a limit on that *)
(* length, for a longer file holds a longer request.                       *)
(*                                                                         *)
(* The loop is one thread, so every variable but the directory and what    *)
(* the outside world does to it (the network, the file system, the disk's  *)
(* free space, bit rot, a crash) changes only in its own steps.            *)
(***************************************************************************)
EXTENDS Integers, Sequences, SequencesExt

CONSTANTS
  MaxFiles,     \* MAX_FILES
  MaxBytes,     \* MAX_BYTES
  Lens,         \* the lengths an encrypted batch can have
  Limit,        \* the longest batch of which the server takes the request
  ClockSteps,   \* may the wall clock be set back?
  DiskFaults    \* may the disk fill up or become read-only?

ASSUME MaxFilesAssumption == MaxFiles \in Nat \ {0}
ASSUME MaxBytesAssumption == MaxBytes \in Nat
ASSUME LensAssumption     == Lens \subseteq 1..MaxBytes /\ Limit \in Nat
ASSUME SwitchAssumption   == {ClockSteps, DiskFaults} \subseteq BOOLEAN

\* Batch identities: enough for the directory and the batch in hand; the lowest
\* one not in use names the next batch.
Ids == 1..(MaxFiles + 1)

Tiers == {"b", "c"}          \* bulk; critical (some event is high/critical)

File == [id : Ids, tier : Tiers, len : Lens, good : BOOLEAN]

VARIABLES
  dir,        \* the .spool files, in list() order
  pc,         \* where the loop is
  cur,        \* the batch in hand (a sequence of at most one file)
  tries,      \* iterations of enforce_limits so far
  online,     \* does the server answer?
  readonly,   \* do removals and writes in the directory fail?
  lowDisk,    \* disk_free(dir) < MIN_FREE_BYTES
  stepped,    \* has the wall clock been set back?
  calm,       \* the outside world has settled: no more faults
  accepted,   \* history: batches of the directory or in hand the server took
  age         \* history: the ids in the directory, in the order stored

vars == <<dir, pc, cur, tries, online, readonly, lowDisk,
          stepped, calm, accepted, age>>
disk == <<dir, age>>
env  == <<online, readonly, lowDisk, stepped, calm>>

PCs == {"idle", "send", "enforce", "write", "commit", "drain", "replay", "ack"}

\* The bytes of the first n files, and of all.
Total(s) ==
  LET sum[n \in 0..Len(s)] == IF n = 0 THEN 0 ELSE sum[n - 1] + s[n].len
  IN  sum
Bytes(s) == Total(s)[Len(s)]

DirIds == {dir[i].id : i \in DOMAIN dir}

Batch == cur[1]

TypeOK ==
  /\ dir \in Seq(File)
  /\ pc \in PCs
  /\ cur \in Seq(File)
  /\ Len(cur) = (IF pc \in {"idle", "drain"} THEN 0 ELSE 1)
  /\ tries \in 0..MaxFiles
  /\ online \in BOOLEAN /\ readonly \in BOOLEAN
  /\ lowDisk \in BOOLEAN /\ stepped \in BOOLEAN /\ calm \in BOOLEAN
  /\ accepted \subseteq Ids
  /\ age \in Seq(Ids)

Init ==
  /\ dir = <<>>
  /\ pc = "idle" /\ cur = <<>> /\ tries = 0
  /\ online \in BOOLEAN /\ readonly = FALSE /\ lowDisk = FALSE
  /\ stepped = FALSE /\ calm = FALSE
  /\ accepted = {} /\ age = <<>>

-----------------------------------------------------------------------------
(* flush_and_send *)

\* A tick's batch: never empty, since it carries at least the heartbeat.
Tick ==
  /\ pc = "idle"
  /\ \E f \in File :
       /\ f.id \notin DirIds /\ 1..(f.id - 1) \subseteq DirIds
       /\ f.good
       /\ cur' = <<f>>
  /\ accepted' = accepted \cap DirIds
  /\ pc' = "send"
  /\ UNCHANGED <<disk, tries, env>>

\* The server answers 400 to a body over 8 MB.
Fits(f) == f.len <= Limit

\* The server is reachable and its request limit lets the batch through.
Acceptable(f) == online /\ Fits(f)

\* sender.send(&batch) returned Ok: start draining.
SendOk ==
  /\ pc = "send" /\ Acceptable(Batch)
  /\ UNCHANGED accepted
  /\ cur' = <<>>
  /\ pc' = "drain"
  /\ UNCHANGED <<disk, tries, env>>

\* The server took the batch in hand and its answer was lost.
AnswerLost == ~online /\ Fits(Batch) /\ accepted' = accepted \cup {Batch.id}

\* sender.send(&batch) returned Err: spool.store(&batch) begins.
SendErr ==
  /\ pc = "send" /\ ~Acceptable(Batch)
  /\ (UNCHANGED accepted \/ AnswerLost)
  /\ tries' = 0
  /\ pc' = "enforce"
  /\ UNCHANGED <<disk, cur, env>>

-----------------------------------------------------------------------------
(* store *)

\* Variant: off by one on the file count.
OverLimitsOffByOne ==
  \/ Len(dir) > MaxFiles
  \/ Bytes(dir) + Batch.len > MaxBytes
  \/ lowDisk

OverLimits ==
  \/ Len(dir) >= MaxFiles
  \/ Bytes(dir) + Batch.len > MaxBytes
  \/ lowDisk

\* Variant: a plain ring, the oldest file whatever its tier.
VictimOldest(i) == i = 1

\* The i-th file is the oldest bulk file, or the oldest of all if none is bulk.
Victim(i) ==
  LET Bulk(j) == dir[j].tier = "b"
  IN  \/ Bulk(i) /\ \A j \in 1..(i - 1) : ~Bulk(j)
      \/ i = 1 /\ \A j \in DOMAIN dir : ~Bulk(j)

\* s without an occurrence of x.
Forget(s, x) ==
  LET at == {k \in DOMAIN s : s[k] = x}
  IN  IF at = {} THEN s ELSE RemoveAt(s, CHOOSE k \in at : TRUE)

\* fs::remove_file of the i-th file: fails on a read-only directory.
Unlink(i) ==
  IF readonly THEN UNCHANGED <<dir, age>>
  ELSE /\ dir' = RemoveAt(dir, i)
       /\ age' = Forget(age, dir[i].id)

\* One iteration of enforce_limits that finds a victim.
Evict ==
  /\ pc = "enforce" /\ OverLimits
  /\ tries < MaxFiles /\ dir # <<>>
  /\ \E i \in DOMAIN dir : Victim(i) /\ Unlink(i)
  /\ tries' = tries + 1
  /\ UNCHANGED <<pc, cur, env, accepted>>

\* enforce_limits returns: under the caps, nothing left, or out of iterations.
LetThrough ==
  /\ pc = "enforce"
  /\ ~OverLimits \/ dir = <<>> \/ tries = MaxFiles
  /\ tries' = 0
  /\ pc' = "write"
  /\ UNCHANGED <<disk, cur, env, accepted>>

\* write_private(.tmp).
WriteTmp ==
  /\ pc = "write" /\ ~readonly
  /\ pc' = "commit"
  /\ UNCHANGED <<disk, cur, tries, env, accepted>>

\* write_private failed: "spool store failed (events dropped)".
StoreFails ==
  /\ pc = "write"
  /\ readonly \/ lowDisk
  /\ cur' = <<>>
  /\ pc' = "idle"
  /\ UNCHANGED <<disk, tries, env, accepted>>

\* Variant: list() in directory order, without the sort.
CommitUnsorted ==
  /\ pc = "commit"
  /\ \E i \in 1..(Len(dir) + 1) : dir' = InsertAt(dir, i, Batch)
  /\ age' = Append(age, Batch.id)
  /\ cur' = <<>>
  /\ pc' = "idle"
  /\ UNCHANGED <<tries, env, accepted>>

\* rename(.tmp, .spool): the batch appears in the directory, complete.
Commit ==
  /\ pc = "commit"
  /\ \E i \in 1..(Len(dir) + 1) :
       /\ stepped \/ i = Len(dir) + 1
       /\ dir' = InsertAt(dir, i, Batch)
  /\ age' = Append(age, Batch.id)
  /\ cur' = <<>>
  /\ pc' = "idle"
  /\ UNCHANGED <<tries, env, accepted>>

-----------------------------------------------------------------------------
(* drain_spool *)

\* take_oldest: the first file decodes.
Take ==
  /\ pc = "drain" /\ dir # <<>> /\ Head(dir).good
  /\ cur' = <<Head(dir)>>
  /\ pc' = "replay"
  /\ UNCHANGED <<disk, tries, env, accepted>>

\* Variant: stop draining at a corrupt file instead of passing over it.
QuarantineStops ==
  /\ pc = "drain" /\ dir # <<>> /\ ~Head(dir).good
  /\ pc' = "idle"
  /\ UNCHANGED <<disk, cur, tries, env, accepted>>

\* take_oldest: the first file is corrupt; remove it and look again.
Quarantine ==
  /\ pc = "drain" /\ dir # <<>> /\ ~Head(dir).good
  /\ Unlink(1)
  /\ UNCHANGED <<pc, cur, tries, env, accepted>>

\* take_oldest cannot read the first file: "spool read error", stop draining.
ReadFails ==
  /\ ~calm
  /\ pc = "drain" /\ dir # <<>>
  /\ pc' = "idle"
  /\ UNCHANGED <<disk, cur, tries, env, accepted>>

DrainEnd ==
  /\ pc = "drain" /\ dir = <<>>
  /\ pc' = "idle"
  /\ UNCHANGED <<disk, cur, tries, env, accepted>>

ReplayOk ==
  /\ pc = "replay" /\ Acceptable(Batch)
  /\ accepted' = accepted \cup {Batch.id}
  /\ pc' = "ack"
  /\ UNCHANGED <<disk, cur, tries, env>>

\* Variant: acknowledge the batch whatever the outcome of the send.
ReplayErrAcks ==
  /\ pc = "replay" /\ ~Acceptable(Batch)
  /\ (UNCHANGED accepted \/ AnswerLost)
  /\ pc' = "ack"
  /\ UNCHANGED <<disk, cur, tries, env>>

\* "still offline; stop draining"
ReplayErr ==
  /\ pc = "replay" /\ ~Acceptable(Batch)
  /\ (UNCHANGED accepted \/ AnswerLost)
  /\ cur' = <<>>
  /\ pc' = "idle"
  /\ UNCHANGED <<disk, tries, env>>

\* ack(&path): the file just replayed is still the first of the directory.
Ack ==
  /\ pc = "ack"
  /\ Unlink(1)
  /\ cur' = <<>>
  /\ pc' = "drain"
  /\ UNCHANGED <<tries, env, accepted>>

-----------------------------------------------------------------------------
(* The world outside the loop *)

\* The process dies anywhere and the service manager starts it again.  A .tmp
\* it leaves behind is nothing that list() would ever return.
Crash ==
  /\ ~calm /\ pc # "idle"
  /\ cur' = <<>> /\ pc' = "idle" /\ tries' = 0
  /\ UNCHANGED <<disk, env, accepted>>

\* A stored file no longer decrypts or decompresses.
Rot ==
  /\ ~calm
  /\ \E i \in DOMAIN dir :
       /\ dir[i].good
       /\ dir' = [dir EXCEPT ![i].good = FALSE]
  /\ UNCHANGED <<pc, cur, tries, env, accepted, age>>

Network ==
  /\ ~calm
  /\ online' = ~online
  /\ UNCHANGED <<disk, pc, cur, tries, readonly, lowDisk, stepped, calm,
                 accepted>>

\* Other programs fill the disk, or free it.
DiskSpace ==
  /\ DiskFaults /\ ~calm
  /\ lowDisk' = ~lowDisk
  /\ UNCHANGED <<disk, pc, cur, tries, online, readonly, stepped, calm,
                 accepted>>

\* The file system is remounted; assumed not to happen inside one store().
Remount ==
  /\ DiskFaults /\ ~calm
  /\ pc \notin {"enforce", "write", "commit"}
  /\ readonly' = ~readonly
  /\ UNCHANGED <<disk, pc, cur, tries, online, lowDisk, stepped, calm,
                 accepted>>

\* The wall clock is set back: names need no longer ascend.
ClockBack ==
  /\ ClockSteps /\ ~calm
  /\ stepped' = TRUE
  /\ UNCHANGED <<disk, pc, cur, tries, online, readonly, lowDisk, calm,
                 accepted>>

Settle ==
  /\ ~calm
  /\ calm' = TRUE
  /\ UNCHANGED <<disk, pc, cur, tries, online, readonly, lowDisk, stepped,
                 accepted>>

Loop ==
  \/ Tick \/ SendOk \/ SendErr
  \/ Evict \/ LetThrough \/ WriteTmp \/ StoreFails \/ Commit
  \/ Take \/ Quarantine \/ DrainEnd \/ ReplayOk \/ ReplayErr \/ Ack

World ==
  \/ ReadFails \/ Crash \/ Rot
  \/ Network \/ DiskSpace \/ Remount \/ ClockBack \/ Settle

Next == Loop \/ World

Spec == Init /\ [][Next]_vars

\* The service manager keeps the process running and the process keeps
\* stepping: every step of the loop returns (requests have a timeout).
FairSpec == Spec /\ WF_vars(Loop)
-----------------------------------------------------------------------------
(* Properties *)

Gone(i) == dir[i].id \notin DirIds'

\* Eviction sheds bulk first: a batch with high or critical telemetry is
\* evicted only when no bulk batch is left in the directory
\* (enforce_limits, "only as a last resort").
ShedBulkFirst ==
  [][pc = "enforce" =>
       \A i \in DOMAIN dir : Gone(i) /\ dir[i].tier = "c" =>
         \A j \in DOMAIN dir : dir[j].tier = "c"]_vars

\* Nothing stored is lost in any other way: a batch leaves the directory only
\* when the limits evict it, when bit rot made it undecodable, or when the
\* server has taken it.  Crashes, failed sends and lost answers included.
LeavesForCause ==
  [][\A i \in DOMAIN dir : Gone(i) =>
       \/ pc = "enforce" /\ OverLimits
       \/ ~dir[i].good
       \/ dir[i].id \in accepted]_vars

\* The backlog stays under the file cap and under the byte cap, whatever the
\* interleaving of batches, failed sends, a full or read-only disk, and crashes
\* ("the disk can't be filled").
FileCap == Len(dir) <= MaxFiles
ByteCap == Bytes(dir) <= MaxBytes
WithinCaps == FileCap /\ ByteCap

\* What keeps them true: enforce_limits makes room before each write, one file an
\* iteration unless removals fail, and then the write fails as well.
RoomMade ==
  /\ pc = "enforce" /\ ~readonly => Len(dir) <= MaxFiles - tries
  /\ pc \in {"write", "commit"} /\ ~readonly =>
       Len(dir) < MaxFiles /\ Bytes(dir) + Batch.len <= MaxBytes
  /\ pc = "commit" => ~readonly

\* What makes Ack safe: the batch being replayed is the first of the directory,
\* and by the time it is acknowledged the server has it.
HeldIsFirst ==
  /\ pc \in {"replay", "ack"} => dir # <<>> /\ dir[1].id = cur[1].id
  /\ pc = "ack" => cur[1].id \in accepted

\* No two files are of one batch, and none is of a batch that is still to be stored.
OneFileEach == \A i, j \in DOMAIN dir : dir[i].id = dir[j].id => i = j
HeldIsNew == pc \in {"send", "enforce", "write", "commit"} => Batch.id \notin DirIds

\* While the clock runs forward the names of the files are in the order of storing.
NamedByAge ==
  ~stepped => Len(age) = Len(dir) /\ \A i \in DOMAIN dir : age[i] = dir[i].id

\* The inductive invariant.
IInv ==
  /\ TypeOK /\ WithinCaps /\ RoomMade
  /\ HeldIsFirst /\ HeldIsNew /\ OneFileEach /\ NamedByAge

\* Replay is first in, first out among the batches that still decode, as long
\* as the wall clock runs forward (names start with a timestamp).
Decodable(x) == \E i \in DOMAIN dir : dir[i].id = x /\ dir[i].good
Oldest(x) ==
  \E i \in DOMAIN age : age[i] = x /\ \A j \in 1..(i - 1) : ~Decodable(age[j])
ReplayOldestFirst ==
  [][pc = "drain" /\ pc' = "replay" /\ ~stepped =>
       Decodable(Batch'.id) /\ Oldest(Batch'.id)]_vars

\* Once the world has settled with the server reachable and the directory
\* writable, and none of the batches is too large for the server, the backlog
\* is replayed until nothing is left; corrupt files are passed over and none of
\* them blocks newer data.
Recovered ==
  /\ calm /\ online /\ ~readonly
  /\ \A i \in DOMAIN dir : Fits(dir[i])
  /\ \A i \in DOMAIN cur : Fits(cur[i])
BacklogDrains == <>[]Recovered => <>[](dir = <<>>)
=============================================================================
