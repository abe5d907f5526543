------------------------------ MODULE PdkFile ------------------------------
(***************************************************************************)
(* The file of the long-term public key of the ground station,             *)
(* APM/CFG/kemtls_pk.bin: the copy made of the default key at the first    *)
(* start (GCS_kemtls_bootstrap.cpp) and the atomic save of another key     *)
(* (ap_kem_file.cpp), with power lost between any two system calls.        *)
(*                                                                         *)
(* The file system is external and as weak as POSIX allows: what was       *)
(* written to a file survives only after fsync() of the file, a directory  *)
(* is found in any of the states it went through since it last reached the *)
(* disk, and the two are not ordered.  A file's length counts what of it   *)
(* is right, in parts: header, some of the key, all of it.                 *)
(***************************************************************************)
EXTENDS Integers, FiniteSets

CONSTANTS DefaultKey,   \* the key in ROMFS
          NewKeys,      \* keys that may be saved later
          Inodes,       \* bound: files the disk may know of
          MaxSaves, MaxCrashes   \* bounds

VARIABLES file,     \* per inode: key, length, and the length that is on disk
          dir,      \* the directory as seen
          dirs,     \* the states of it a crash may leave
          writer,   \* the operation under way
          booted,   \* the first init() is over
          saves, crashes,
          unsynced, \* history: files renamed although their fsync() failed
          kept      \* history: what a crash may leave in place

pdkVars == <<file, dir, dirs, writer, booted, saves, crashes, unsynced, kept>>

NoInode == 0
Whole == 3
PdkKeys == NewKeys \cup {DefaultKey}
PdkIdle == [op |-> "none", key |-> DefaultKey, step |-> "none"]

ASSUME PdkAssumption ==
    /\ DefaultKey \notin NewKeys
    /\ {"missing", "refused"} \cap (NewKeys \cup {DefaultKey}) = {}
    /\ Inodes \subseteq Nat \ {NoInode}

PdkInit ==
    /\ file = [i \in Inodes |-> [key |-> DefaultKey, len |-> 0, sure |-> 0]]
    /\ dir = [dst |-> NoInode, tmp |-> NoInode]
    /\ dirs = {dir}
    /\ writer = PdkIdle /\ booted = FALSE
    /\ saves = 0 /\ crashes = 0 /\ unsynced = {} /\ kept = {"missing"}

----------------------------------------------------------------------------
Referenced == UNION {{d.dst, d.tmp} : d \in dirs}

SetDir(d) == dir' = d /\ dirs' = dirs \cup {d}

(* open(tmp, O_CREAT | O_TRUNC): a new file, or the one left behind.       *)
OpenTmp(op, k) ==
    /\ \E i \in IF dir.tmp # NoInode THEN {dir.tmp} ELSE Inodes \ Referenced :
         /\ file' = [file EXCEPT ![i] = [key |-> k, len |-> 0, sure |-> 0]]
         /\ SetDir([dir EXCEPT !.tmp = i])
         /\ unsynced' = unsynced \ {i}
    /\ writer' = [op |-> op, key |-> k, step |-> "write"]
    /\ UNCHANGED <<crashes, kept>>

(* kemtls_pdk_bootstrap_copy_if_missing(): only if there is no file.       *)
PdkBootstrap ==
    /\ ~booted /\ writer = PdkIdle
    /\ IF dir.dst # NoInode
       THEN booted' = TRUE
            /\ UNCHANGED <<file, dir, dirs, writer, saves, crashes, unsynced, kept>>
       ELSE OpenTmp("boot", DefaultKey) /\ UNCHANGED <<booted, saves>>

(* save_kemtls_pk_atomic().                                                *)
PdkSave(k) ==
    /\ booted /\ writer = PdkIdle /\ saves < MaxSaves
    /\ OpenTmp("save", k)
    /\ saves' = saves + 1
    /\ UNCHANGED booted

Writing(step) == writer.op # "none" /\ writer.step = step

Goto(step) == writer' = [writer EXCEPT !.step = step]

Finished == writer' = PdkIdle /\ booted' = TRUE

(* write(): a part of it, or an error.                                     *)
PdkWrite ==
    /\ Writing("write")
    /\ \E n \in (file[dir.tmp].len + 1)..Whole :
         /\ file' = [file EXCEPT ![dir.tmp].len = n]
         /\ IF n = Whole THEN Goto("fsync") ELSE UNCHANGED writer
    /\ UNCHANGED <<dir, dirs, booted, saves, crashes, unsynced, kept>>

(* An error ends the operation: the copy removes its temporary file, the   *)
(* save leaves it.                                                         *)
PdkError ==
    /\ writer.op # "none" /\ writer.step \in {"write", "fsync", "rename"}
    /\ ~(writer.op = "boot" /\ writer.step = "fsync")
    /\ IF writer.op = "boot" THEN SetDir([dir EXCEPT !.tmp = NoInode])
                             ELSE UNCHANGED <<dir, dirs>>
    /\ Finished
    /\ UNCHANGED <<file, saves, crashes, unsynced, kept>>

PdkFsyncSkipped ==
    /\ Writing("fsync") /\ Goto("rename")
    /\ UNCHANGED <<file, dir, dirs, booted, saves, crashes, unsynced, kept>>

(* fsync(): its failure ends a save (PdkError) and is ignored by the copy. *)
PdkFsync ==
    /\ Writing("fsync") /\ Goto("rename")
    /\ \/ /\ file' = [file EXCEPT ![dir.tmp].sure = file[dir.tmp].len]
          /\ UNCHANGED unsynced
       \/ /\ writer.op = "boot"
          /\ unsynced' = unsynced \cup {dir.tmp}
          /\ UNCHANGED file
    /\ UNCHANGED <<dir, dirs, booted, saves, crashes, kept>>

PdkRename ==
    /\ Writing("rename")
    /\ SetDir([dst |-> dir.tmp, tmp |-> NoInode])
    /\ kept' = kept \cup {writer.key}
    /\ IF writer.op = "save" THEN Goto("fsync_dir") /\ UNCHANGED booted ELSE Finished
    /\ UNCHANGED <<file, saves, crashes, unsynced>>

(* fsync_dir(): the save returns true whatever it returns.                 *)
PdkFsyncDirDropped ==
    /\ Writing("fsync_dir") /\ Finished
    /\ kept' = {writer.key}
    /\ UNCHANGED <<file, dir, dirs, saves, crashes, unsynced>>

PdkFsyncDir ==
    /\ Writing("fsync_dir") /\ Finished
    /\ \/ dirs' = {dir} /\ kept' = {writer.key}
       \/ UNCHANGED <<dirs, kept>>
    /\ UNCHANGED <<file, dir, saves, crashes, unsynced>>

(* Power is lost, and init() runs again.                                   *)
PdkCrash ==
    /\ crashes < MaxCrashes
    /\ \E d \in dirs : dir' = d /\ dirs' = {d}
    /\ \E len \in [Inodes -> 0..Whole] :
         /\ \A i \in Inodes : len[i] \in file[i].sure..file[i].len
         /\ file' = [i \in Inodes |->
                      [key |-> file[i].key, len |-> len[i], sure |-> len[i]]]
    /\ writer' = PdkIdle /\ booted' = FALSE
    /\ crashes' = crashes + 1
    /\ UNCHANGED <<saves, unsynced, kept>>

PdkNext ==
    \/ PdkBootstrap
    \/ \E k \in NewKeys : PdkSave(k)
    \/ PdkWrite \/ PdkError \/ PdkFsync \/ PdkRename \/ PdkFsyncDir
    \/ PdkCrash

PdkSpec == PdkInit /\ [][PdkNext]_pdkVars

----------------------------------------------------------------------------
(* What a HELLO, or load_kemtls_pk(), reads: size, header, length and      *)
(* checksum of the file refuse whatever is not whole.                      *)
PdkRead ==
    IF dir.dst = NoInode THEN "missing"
    ELSE IF file[dir.dst].len < Whole THEN "refused"
    ELSE file[dir.dst].key

PdkTypeOK ==
    /\ file \in [Inodes -> [key : PdkKeys, len : 0..Whole, sure : 0..Whole]]
    /\ \A i \in Inodes : file[i].sure <= file[i].len
    /\ dir \in dirs
    /\ dirs \subseteq [dst : Inodes \cup {NoInode}, tmp : Inodes \cup {NoInode}]
    /\ booted \in BOOLEAN /\ kept \subseteq PdkKeys \cup {"missing"}

(* save_kemtls_pk_atomic() is atomic: wherever power fails, what is found  *)
(* under the file's name is a whole key.  The one exception is a first     *)
(* copy whose fsync() failed unnoticed, and it stays: the next start finds *)
(* a file and copies nothing (GCS_kemtls_bootstrap.cpp:43, :59).           *)
NeverTorn == dir.dst \notin unsynced => PdkRead # "refused"

(* A crash brings back nothing older than the last save that reached the   *)
(* disk: a save that returned true is lost only if its fsync_dir() failed, *)
(* and the default key never comes back over a saved one.                  *)
SaveIsDurable == PdkRead \in kept \cup {"refused"}
=============================================================================
