------------------------- MODULE OutputTransaction -------------------------
(***************************************************************************)
(* Staged, synced, atomic replacement of output files: the class           *)
(* OutputTransaction (src/OutputTransaction.{hpp,cpp}), the exclusive open *)
(* and the write/close path of FileIO it uses, and the signal handler that *)
(* main.cpp installs around it.                                            *)
(*                                                                         *)
(* Several processes each drive transactions over one directory.  A        *)
(* transaction is cut where another actor can get in between: another      *)
(* process, a signal, a kill, a power loss, or a program that rebinds the  *)
(* destination.  Memory is local to a process; `dir` is what the running   *)
(* system sees of the directory and `pend` what a power loss may leave.    *)
(*                                                                         *)
(* A staged file is the inode named after its transaction, so two          *)
(* transactions never share one.                                           *)
(***************************************************************************)
EXTENDS Integers, FiniteSets

CONSTANTS
    Proc,           \* processes
    Txn,            \* OutputTransaction objects; also the inodes they create
    Owner,          \* [Txn -> Proc]
    NumSlots,       \* entries of staged_paths (16 in the code)
    MaxAttempts,    \* candidate names tried by open() (32 in the code)
    Size,           \* write_chunk calls that make up one output
    Path,           \* destination and input paths
    Dest,           \* [Txn -> Path]
    Inputs,         \* [Txn -> SUBSET Path]
    Given,          \* inodes that exist before the system starts
    Initial,        \* [Path -> Given \cup {None, Directory}]
    Taken,          \* staged names an earlier run left behind
    Perm,           \* permission bits
    NewPerm,        \* those of a newly created file
    GivenPerm,      \* [Given \cup {Stub, Leftover, Directory} -> Perm]
    Stub,           \* the empty inode of a failed fopen("wbx") + reopen
    Leftover,       \* the inode bound to every name of Taken
    Directory,      \* a binding that is not a regular file
    None,           \* no binding, no name, no transaction
    HaveNoreplace,  \* RH_HAVE_STD_NOREPLACE
    MaxRebinds      \* bound on what other programs do to the destinations

(* The names open() builds; distinct by construction, as the random words  *)
(* and the counter make them in the code.                                  *)
Staged == Txn \X (1 .. MaxAttempts)
Name   == Path \cup Staged
Inode  == Txn \cup Given \cup {Stub, Leftover}
Entry  == Inode \cup {None, Directory}

ASSUME ConstantsAssumption ==
    /\ NumSlots \in Nat \ {0} /\ MaxAttempts \in Nat \ {0} /\ Size \in Nat \ {0}
    /\ MaxRebinds \in Nat /\ HaveNoreplace \in BOOLEAN
    /\ Owner \in [Txn -> Proc] /\ Dest \in [Txn -> Path]
    /\ Inputs \in [Txn -> SUBSET Path]
    /\ Initial \in [Path -> Given \cup {None, Directory}]
    /\ \A t \in Txn : \A n \in Inputs[t] : Initial[n] \in Given
    /\ Taken \subseteq Staged
    /\ NewPerm \in Perm
    /\ GivenPerm \in [Given \cup {Stub, Leftover, Directory} -> Perm]

ASSUME DistinctAssumption ==
    /\ Path \cap Staged = {} /\ None \notin Name /\ None \notin Perm
    /\ Txn \cap (Given \cup {Stub, Leftover, Directory, None}) = {}
    /\ Given \cap {Stub, Leftover, Directory, None} = {}
    /\ Stub # Leftover /\ Stub # Directory /\ Stub # None
    /\ Leftover # Directory /\ Leftover # None /\ Directory # None

Phases == {"new", "create", "created", "tracked", "inspected", "staged", "closed",
           "synced", "validated", "renamed", "untracked", "committed", "failed",
           "closing", "removed", "gone"}

(* Between calls: where a single-threaded process may turn to another      *)
(* transaction.                                                            *)
AtRest == {"new", "staged", "failed", "committed", "gone"}

VARIABLES
    pc,       \* [Txn -> Phases]
    attempt,  \* [Txn -> 0 .. MaxAttempts]: candidates tried
    temp,     \* temporary_, or None for an empty path
    slot,     \* slot_ + 1
    table,    \* staged_paths of each process: the transaction whose path it points to
    found,    \* permissions that copyPermissions() found, or None
    written,  \* write_chunk calls the stream accepted
    ioErr,    \* FileIO's sticky io_error_
    result,   \* what open()/commit() told the caller: "none", "ok" or "error"
    mode,     \* of a process: "run", "handler", "signalled" (died of it) or "killed"
    next,     \* the slot the handler's loop is at
    dir,      \* [Name -> Entry]
    pend,     \* [Name -> SUBSET Entry]: bindings a power loss may leave
    cache,    \* chunks of a staged inode the kernel has
    disk,     \* chunks of it on stable storage
    perm,     \* permissions of a staged inode
    stuck,    \* transactions whose unlink failed
    rebinds   \* rebindings by other programs so far

local == <<attempt, temp, slot, table, found>>
data  == <<written, ioErr, cache, disk>>
store == <<dir, pend>>
proc  == <<mode, next>>
vars  == <<pc, local, data, result, proc, store, perm, stuck, rebinds>>

-----------------------------------------------------------------------------
Runs(t) == /\ mode[Owner[t]] = "run"
           /\ \A u \in Txn \ {t} : Owner[u] = Owner[t] => pc[u] \in AtRest

(* Transaction t of a running process goes from one phase to another.      *)
Goto(t, from, to) == /\ Runs(t)
                     /\ pc[t] = from
                     /\ pc' = [pc EXCEPT ![t] = to]

(* The call under way returns an error.                                    *)
Error(t, from) == /\ Goto(t, from, "failed")
                  /\ result' = [result EXCEPT ![t] = "error"]

(* A directory operation: visible at once, durable at some time unknown.   *)
Bind(n, e) == /\ dir'  = [dir EXCEPT ![n] = e]
              /\ pend' = [pend EXCEPT ![n] = @ \cup {e}]

Unlink(n) == Bind(n, None)

(* Mutant: permissions are never copied.                                   *)
PermOf_New(e) == NewPerm

PermOf(e) == IF e \in Txn THEN perm[e] ELSE GivenPerm[e]

(* Mutant: an input is accepted as destination.                            *)
DestinationValid_Alias(t) == dir[Dest[t]] # Directory

(* validateDestination(): may succeed when the path is free, or names a    *)
(* regular file that is none of the inputs'.  (It may fail at any time: an *)
(* inspection can.)                                                        *)
DestinationValid(t) ==
    LET existing == dir[Dest[t]]
    IN  existing # None => /\ existing # Directory
                           /\ \A i \in Inputs[t] : dir[i] # existing

Init ==
    /\ pc = [t \in Txn |-> "new"]
    /\ attempt = [t \in Txn |-> 0]
    /\ temp = [t \in Txn |-> None]
    /\ slot = [t \in Txn |-> 0]
    /\ table = [p \in Proc |-> [i \in 1 .. NumSlots |-> None]]
    /\ found = [t \in Txn |-> None]
    /\ written = [t \in Txn |-> 0]
    /\ ioErr = [t \in Txn |-> FALSE]
    /\ result = [t \in Txn |-> "none"]
    /\ mode = [p \in Proc |-> "run"]
    /\ next = [p \in Proc |-> 1]
    /\ dir = [n \in Name |-> IF n \in Path THEN Initial[n]
                             ELSE IF n \in Taken THEN Leftover ELSE None]
    /\ pend = [n \in Name |-> {dir[n]}]
    /\ cache = [t \in Txn |-> 0]
    /\ disk = [t \in Txn |-> 0]
    /\ perm = [t \in Txn |-> NewPerm]
    /\ stuck = {}
    /\ rebinds = 0

-----------------------------------------------------------------------------
(* open(destination, inputs)                                               *)

Open(t) ==
    /\ \/ DestinationValid(t) /\ Goto(t, "new", "create") /\ UNCHANGED result
       \/ Error(t, "new")
    /\ UNCHANGED <<local, data, proc, store, perm, stuck, rebinds>>

(* The name file_.open(candidate, EXCLUSIVE_OUT) is called with.           *)
Candidate(t) == <<t, attempt[t] + 1>>

(* Mutant: the staged file is not opened exclusively.                      *)
CreateStaged_Shared(t) ==
    /\ Goto(t, "create", "created")
    /\ Bind(Candidate(t), t)
    /\ attempt' = [attempt EXCEPT ![t] = @ + 1]
    /\ UNCHANGED <<temp, slot, table, found, data, result, proc, perm, stuck, rebinds>>

CreateStaged(t) ==
    /\ Goto(t, "create", "created")
    /\ dir[Candidate(t)] = None
    /\ Bind(Candidate(t), t)
    /\ attempt' = [attempt EXCEPT ![t] = @ + 1]
    /\ UNCHANGED <<temp, slot, table, found, data, result, proc, perm, stuck, rebinds>>

(* Mutant: the loop tries the same name again and again.                   *)
CreateCollides_SameName(t) ==
    /\ Goto(t, "create", "create")
    /\ \/ dir[Candidate(t)] # None /\ UNCHANGED store
       \/ ~HaveNoreplace /\ dir[Candidate(t)] = None /\ Bind(Candidate(t), Stub)
    /\ UNCHANGED <<local, data, result, proc, perm, stuck, rebinds>>

(* The open fails and the candidate exists: somebody else's file, or,      *)
(* without std::ios::noreplace, the one fopen("wbx") has just created and  *)
(* the stream could not reopen.  The loop goes on to the next name.        *)
CreateCollides(t) ==
    /\ attempt' = [attempt EXCEPT ![t] = @ + 1]
    /\ IF attempt[t] + 1 < MaxAttempts
       THEN Goto(t, "create", "create") /\ UNCHANGED result
       ELSE Error(t, "create")
    /\ \/ dir[Candidate(t)] # None /\ UNCHANGED store
       \/ ~HaveNoreplace /\ dir[Candidate(t)] = None /\ Bind(Candidate(t), Stub)
    /\ UNCHANGED <<temp, slot, table, found, data, proc, perm, stuck, rebinds>>

(* The open fails and exists() does not find the candidate, or cannot tell *)
(* (its error is not looked at): whatever is there, the loop is left.      *)
CreateFails(t) ==
    /\ Error(t, "create")
    /\ attempt' = [attempt EXCEPT ![t] = @ + 1]
    /\ \/ UNCHANGED store
       \/ ~HaveNoreplace /\ dir[Candidate(t)] = None /\ Bind(Candidate(t), Stub)
    /\ UNCHANGED <<temp, slot, table, found, data, proc, perm, stuck, rebinds>>

(* temporary_ = candidate; track(): the first free slot, if there is one.  *)
Track(t) ==
    /\ Goto(t, "created", "tracked")
    /\ temp' = [temp EXCEPT ![t] = <<t, attempt[t]>>]
    /\ LET p == Owner[t]
           free == {i \in 1 .. NumSlots : table[p][i] = None}
       IN  IF free = {} THEN UNCHANGED <<slot, table>>
           ELSE \E i \in free :
                  /\ \A j \in free : i <= j
                  /\ slot' = [slot EXCEPT ![t] = i]
                  /\ table' = [table EXCEPT ![p][i] = t]
    /\ UNCHANGED <<attempt, found, data, result, proc, store, perm, stuck, rebinds>>

(* copyPermissions(): the destination's status...                          *)
InspectPermissions(t) ==
    /\ \/ /\ Goto(t, "tracked", "inspected")
          /\ found' = IF dir[Dest[t]] = None THEN found
                         ELSE [found EXCEPT ![t] = PermOf(dir[Dest[t]])]
          /\ UNCHANGED result
       \/ Error(t, "tracked") /\ UNCHANGED found
    /\ UNCHANGED <<attempt, temp, slot, table, data, proc, store, perm, stuck, rebinds>>

(* ...and, where a file was found, its permissions for the staged one.     *)
CopyPermissions(t) ==
    /\ \/ /\ Goto(t, "inspected", "staged")
          /\ perm' = IF found[t] = None THEN perm ELSE [perm EXCEPT ![t] = found[t]]
          /\ UNCHANGED result
       \/ found[t] # None /\ Error(t, "inspected") /\ UNCHANGED perm
    /\ found' = [found EXCEPT ![t] = None]
    /\ UNCHANGED <<attempt, temp, slot, table, data, proc, store, stuck, rebinds>>

-----------------------------------------------------------------------------
(* The caller writes through file(); bytes may stay in the stream's buffer *)
(* or reach the kernel.  A failed write sets io_error_ and loses data.     *)
Write(t) ==
    /\ Goto(t, "staged", "staged")
    /\ written[t] < Size /\ ~ioErr[t]
    /\ \/ /\ written' = [written EXCEPT ![t] = @ + 1]
          /\ \E c \in cache[t] .. written[t] + 1 : cache' = [cache EXCEPT ![t] = c]
          /\ UNCHANGED ioErr
       \/ ioErr' = [ioErr EXCEPT ![t] = TRUE] /\ UNCHANGED <<written, cache>>
    /\ UNCHANGED <<local, disk, result, proc, store, perm, stuck, rebinds>>

(* Mutant: what close() reports is ignored.                                *)
CommitClose_Unchecked(t) ==
    /\ written[t] = Size \/ ioErr[t]
    /\ Goto(t, "staged", "closed")
    /\ \E c \in cache[t] .. written[t] : cache' = [cache EXCEPT ![t] = c]
    /\ UNCHANGED <<local, written, ioErr, result, disk, proc, store, perm, stuck, rebinds>>

(* commit(), after the last write; the caller may have ignored that one    *)
(* failed.  file_.close() flushes what is buffered.                        *)
CommitClose(t) ==
    /\ written[t] = Size \/ ioErr[t]
    /\ \/ /\ Goto(t, "staged", "closed") /\ ~ioErr[t]
          /\ cache' = [cache EXCEPT ![t] = written[t]]
          /\ UNCHANGED <<ioErr, result>>
       \/ /\ Error(t, "staged")
          /\ ioErr' = [ioErr EXCEPT ![t] = TRUE]
          /\ \E c \in cache[t] .. written[t] : cache' = [cache EXCEPT ![t] = c]
    /\ UNCHANGED <<local, written, disk, proc, store, perm, stuck, rebinds>>

(* Mutant: the file is renamed without having been synced.                 *)
CommitSync_Skipped(t) ==
    /\ Goto(t, "closed", "synced")
    /\ UNCHANGED <<local, data, result, proc, store, perm, stuck, rebinds>>

(* sync_file(temporary_)                                                   *)
CommitSync(t) ==
    /\ \/ /\ Goto(t, "closed", "synced")
          /\ disk' = [disk EXCEPT ![t] = cache[t]]
          /\ UNCHANGED result
       \/ Error(t, "closed") /\ UNCHANGED disk
    /\ UNCHANGED <<local, written, ioErr, cache, proc, store, perm, stuck, rebinds>>

CommitValidate(t) ==
    /\ \/ DestinationValid(t) /\ Goto(t, "synced", "validated") /\ UNCHANGED result
       \/ Error(t, "synced")
    /\ UNCHANGED <<local, data, proc, store, perm, stuck, rebinds>>

(* rename(2) replaces what the destination names by then.                  *)
CommitRename(t) ==
    /\ \/ /\ Goto(t, "validated", "renamed")
          /\ dir[temp[t]] # None /\ dir[Dest[t]] # Directory
          /\ dir'  = [dir EXCEPT ![temp[t]] = None, ![Dest[t]] = dir[temp[t]]]
          /\ pend' = [pend EXCEPT ![temp[t]] = @ \cup {None},
                                  ![Dest[t]] = @ \cup {dir[temp[t]]}]
          /\ UNCHANGED result
       \/ Error(t, "validated") /\ UNCHANGED store
    /\ UNCHANGED <<local, data, proc, perm, stuck, rebinds>>

(* Mutant: untrack() empties the table.                                    *)
Untrack_All(t) ==
    /\ slot' = [slot EXCEPT ![t] = 0]
    /\ table' = [table EXCEPT ![Owner[t]] = [i \in 1 .. NumSlots |-> None]]

(* Mutant: slot_ is counted down instead of reset.                         *)
Untrack_Decrements(t) == slot' = [slot EXCEPT ![t] = @ - 1] /\ UNCHANGED table

Untrack(t) ==
    /\ slot' = [slot EXCEPT ![t] = 0]
    /\ table' = IF slot[t] = 0 THEN table
                ELSE [table EXCEPT ![Owner[t]][slot[t]] = None]

CommitUntrack(t) ==
    /\ Goto(t, "renamed", "untracked")
    /\ Untrack(t)
    /\ temp' = [temp EXCEPT ![t] = None]
    /\ UNCHANGED <<attempt, found, data, result, proc, store, perm, stuck, rebinds>>

(* Mutant: a directory that cannot be synced fails the commit.             *)
CommitSyncDirectory_Strict(t) ==
    /\ Goto(t, "untracked", "committed")
    /\ \E r \in {"ok", "error"} : result' = [result EXCEPT ![t] = r]
    /\ UNCHANGED <<local, data, proc, store, perm, stuck, rebinds>>

(* sync_directory() is best effort: commit() returns success either way.   *)
CommitSyncDirectory(t) ==
    /\ Goto(t, "untracked", "committed")
    /\ result' = [result EXCEPT ![t] = "ok"]
    /\ UNCHANGED dir
    /\ \/ pend' = [n \in Name |-> {dir[n]}]
       \/ UNCHANGED pend
    /\ UNCHANGED <<local, data, proc, perm, stuck, rebinds>>

-----------------------------------------------------------------------------
(* ~OutputTransaction(): at the end of the caller's scope, or by unwinding *)
(* from an early return or an exception while the output is being written. *)
DtorClose(t) ==
    /\ \E from \in {"staged", "failed", "committed"} : Goto(t, from, "closing")
    /\ result' = [result EXCEPT ![t] = IF @ = "none" THEN "error" ELSE @]
    /\ \E c \in cache[t] .. written[t] : cache' = [cache EXCEPT ![t] = c]
    /\ UNCHANGED <<local, written, ioErr, disk, proc, store, perm, stuck, rebinds>>

(* remove(temporary_, ec): the error is ignored.                           *)
DtorRemove(t) ==
    /\ Goto(t, "closing", "removed")
    /\ IF temp[t] = None THEN UNCHANGED <<store, stuck>>
       ELSE \/ Unlink(temp[t]) /\ UNCHANGED stuck
            \/ stuck' = stuck \cup {t} /\ UNCHANGED store
    /\ UNCHANGED <<local, data, result, proc, perm, rebinds>>

DtorUntrack(t) ==
    /\ Goto(t, "removed", "gone")
    /\ Untrack(t)
    /\ UNCHANGED <<attempt, temp, found, data, result, proc, store, perm, stuck, rebinds>>

-----------------------------------------------------------------------------
(* The signal handler: discard_all_staged(), then the default action.      *)

Signal(p) ==
    /\ mode[p] = "run"
    /\ mode' = [mode EXCEPT ![p] = "handler"]
    /\ UNCHANGED <<pc, local, data, result, next, store, perm, stuck, rebinds>>

HandlerStep(p) ==
    /\ mode[p] = "handler" /\ next[p] <= NumSlots
    /\ next' = [next EXCEPT ![p] = @ + 1]
    /\ LET t == table[p][next[p]]
       IN  IF t = None THEN UNCHANGED <<store, stuck>>
           ELSE \/ Unlink(temp[t]) /\ UNCHANGED stuck
                \/ stuck' = stuck \cup {t} /\ UNCHANGED store
    /\ UNCHANGED <<pc, local, data, result, mode, perm, rebinds>>

HandlerReraise(p) ==
    /\ mode[p] = "handler" /\ next[p] > NumSlots
    /\ mode' = [mode EXCEPT ![p] = "signalled"]
    /\ UNCHANGED <<pc, local, data, result, next, store, perm, stuck, rebinds>>

(* SIGKILL or a crash.                                                     *)
Kill(p) ==
    /\ mode[p] \in {"run", "handler"}
    /\ mode' = [mode EXCEPT ![p] = "killed"]
    /\ UNCHANGED <<pc, local, data, result, next, store, perm, stuck, rebinds>>

Started(p) == \E t \in Txn : Owner[t] = p /\ pc[t] # "new"

Unsettled == {n \in Name : pend[n] # {dir[n]}}

(* Every process that has started dies; of what was not synced, any part   *)
(* may be lost.  One that has not started runs after the reboot.           *)
PowerLoss ==
    /\ mode' = [p \in Proc |-> IF Started(p) THEN "killed" ELSE mode[p]]
    /\ \E left \in [Unsettled -> Entry] :
          /\ \A n \in Unsettled : left[n] \in pend[n]
          /\ dir' = [n \in Name |-> IF n \in Unsettled THEN left[n] ELSE dir[n]]
    /\ pend' = [n \in Name |-> {dir'[n]}]
    /\ \E kept \in [Txn -> 0 .. Size] :
          /\ \A t \in Txn : kept[t] \in disk[t] .. cache[t]
          /\ cache' = kept /\ disk' = kept
    /\ UNCHANGED <<pc, local, written, ioErr, result, next, perm, stuck, rebinds>>

(* Another program rebinds a destination that is nobody's input.           *)
Rebind ==
    /\ rebinds < MaxRebinds
    /\ rebinds' = rebinds + 1
    /\ \E t \in Txn, e \in Given \cup {None, Directory} :
          /\ \A u \in Txn : Dest[t] \notin Inputs[u]
          /\ e # dir[Dest[t]]
          /\ Bind(Dest[t], e)
    /\ UNCHANGED <<pc, local, data, result, proc, perm, stuck>>

Proceed(t) ==
    \/ Open(t) \/ CreateStaged(t) \/ CreateCollides(t)
    \/ Track(t) \/ InspectPermissions(t) \/ CopyPermissions(t) \/ Write(t)
    \/ CommitClose(t) \/ CommitSync(t) \/ CommitValidate(t) \/ CommitRename(t)
    \/ CommitUntrack(t) \/ CommitSyncDirectory(t)
    \/ DtorClose(t) \/ DtorRemove(t) \/ DtorUntrack(t)

Call(t) == Proceed(t) \/ CreateFails(t)

Over(p) == \/ mode[p] \in {"signalled", "killed"}
           \/ \A t \in Txn : Owner[t] = p => pc[t] = "gone"

(* All processes have ended: the only state in which nothing need happen.  *)
Ended == (\A p \in Proc : Over(p)) /\ UNCHANGED vars

Next ==
    \/ \E t \in Txn : Call(t)
    \/ \E p \in Proc : Signal(p) \/ HandlerStep(p) \/ HandlerReraise(p) \/ Kill(p)
    \/ PowerLoss \/ Rebind \/ Ended

Spec == Init /\ [][Next]_vars

(* The operating system schedules every runnable process; nothing obliges  *)
(* a signal, a kill, a power loss or another program to come, nor the      *)
(* creation to fail at a name that is taken.                               *)
Progress(p) == \/ \E t \in Txn : Owner[t] = p /\ Proceed(t)
               \/ HandlerStep(p) \/ HandlerReraise(p)

FairSpec == Spec /\ \A p \in Proc : WF_vars(Progress(p))

-----------------------------------------------------------------------------
(* Every variable has its type.                                            *)
TypeOK ==
    /\ pc \in [Txn -> Phases]
    /\ attempt \in [Txn -> 0 .. MaxAttempts]
    /\ temp \in [Txn -> Staged \cup {None}]
    /\ slot \in [Txn -> 0 .. NumSlots]
    /\ table \in [Proc -> [1 .. NumSlots -> Txn \cup {None}]]
    /\ found \in [Txn -> Perm \cup {None}]
    /\ written \in [Txn -> 0 .. Size] /\ ioErr \in [Txn -> BOOLEAN]
    /\ result \in [Txn -> {"none", "ok", "error"}]
    /\ mode \in [Proc -> {"run", "handler", "signalled", "killed"}]
    /\ next \in [Proc -> 1 .. NumSlots + 1]
    /\ dir \in [Name -> Entry] /\ pend \in [Name -> SUBSET Entry]
    /\ cache \in [Txn -> 0 .. Size] /\ disk \in [Txn -> 0 .. Size]
    /\ perm \in [Txn -> Perm]
    /\ stuck \subseteq Txn
    /\ rebinds \in 0 .. MaxRebinds

(* A destination never names, and after a power loss would not name, an    *)
(* output of which a part is missing from stable storage: commit() closes, *)
(* checks and syncs the file before it renames it (OutputTransaction.cpp). *)
DurableWhole ==
    \A t \in Txn, n \in Path : t \in pend[n] \cup {dir[n]} => disk[t] = Size

(* A transaction whose open() or commit() failed, or that was abandoned,   *)
(* has not replaced its destination and no power loss makes it so.         *)
FailureLeavesDestination ==
    \A t \in Txn : result[t] = "error" => \A n \in Path : t \notin pend[n]

(* Once a transaction is destroyed, or a handled signal has killed its     *)
(* process while it held a slot of staged_paths, no file it staged is left *)
(* (unless unlink itself failed, whose error the code ignores).            *)
StagedRemoved ==
    \A t \in Txn :
        /\ t \notin stuck
        /\ \/ pc[t] = "gone" /\ mode[Owner[t]] # "killed"
           \/ slot[t] # 0 /\ mode[Owner[t]] = "signalled"
        => \A n \in Staged : dir[n] # t

(* Exclusive creation: a staged name that some other run left behind is    *)
(* never reused, written, renamed or removed.                              *)
LeftoversKept == \A n \in Taken : dir[n] = Leftover

(* No transaction ever replaces one of its own inputs: validateDestination *)
(* refuses a destination that is an input.                                 *)
InputsSurvive ==
    \A t \in Txn : \A n \in Inputs[t] : t \notin pend[n] \cup {dir[n]}

(* copyPermissions(): no byte of an output is written under permissions    *)
(* other than those of the file it will replace, whichever transactions    *)
(* replace that file meanwhile.                                            *)
PermissionsCarriedOver ==
    \A t \in Txn :
        rebinds = 0 /\ Initial[Dest[t]] \in Given /\ written[t] > 0
        => perm[t] = GivenPerm[Initial[Dest[t]]]

(* README.md:252-254 says of the four handled signals that they remove the *)
(* staged file before the process exits, without exception.                *)
SignalRemovesStaged ==
    \A t \in Txn : mode[Owner[t]] = "signalled" /\ t \notin stuck
                    => \A n \in Staged : dir[n] # t

(* README.md:295-296: failures of every kind leave no staged file behind.  *)
FailureLeavesNothing ==
    \A t \in Txn : pc[t] = "gone" /\ mode[Owner[t]] = "run" /\ t \notin stuck
                    => \A k \in 1 .. MaxAttempts : dir[<<t, k>>] \in {None, Leftover}

(* Every transaction that is opened ends: destroyed, or with its process.  *)
EveryTransactionEnds ==
    \A t \in Txn : pc[t] # "new" ~>
        pc[t] = "gone" \/ mode[Owner[t]] \in {"signalled", "killed"}

-----------------------------------------------------------------------------
(* The refinement mapping to AtomicReplace.  An incomplete output is a     *)
(* value the abstract specification does not have.                         *)
Torn == [torn |-> TRUE]
Content(e, chunks) == IF e \in Txn /\ chunks[e] # Size THEN Torn ELSE e

Replace == INSTANCE AtomicReplace WITH
    Other   <- Entry \ Txn,
    dest    <- [n \in Path |-> Content(dir[n], cache)],
    durable <- [n \in Path |-> {Content(e, disk) : e \in pend[n]}],
    outcome <- [t \in Txn |->
                  IF result[t] = "none" /\ pc[t] \in {"renamed", "untracked"}
                  THEN "published" ELSE result[t]]

(* Every behaviour of the transactions is one of atomic replacements.      *)
ImplementsAtomicReplace == Replace!Spec
=============================================================================
