----------------------------- MODULE KeysProofs -----------------------------
(***************************************************************************)
(* What keeps keys safe over time, for every value of the constants: the   *)
(* KEM's randomness, the key file, the signing key and the replay window,  *)
(* and last the four together, as MC_Keys composes them.                   *)
(***************************************************************************)
EXTENDS MC_Keys, FiniteSetTheorems, TLAPS

-----------------------------------------------------------------------------
(* ApKem, for every number of parts in a request.                          *)

(* What ties the flag to the answers: a result is given only between       *)
(* operations, a draw is under way only during one, and nothing weak       *)
(* happens without the flag.                                               *)
KemInv ==
    /\ op \in [name : {"none", "keypair", "enc", "dec"}, draws : 0..3]
    /\ source \in {"idle", "getrandom", "urandom"}
    /\ op.draws > 0 \/ source # "idle" => op.name # "none"
    /\ op.name # "none" => result = "none"
    /\ weak => failed
    /\ ResultJustified

LEMMA KemInvInit == KemInit => KemInv
BY DEF KemInit, NoOp, KemInv, ResultJustified

(* One draw less, in an operation that has draws to come.                  *)
LEMMA DrawsLess ==
  ASSUME op \in [name : {"none", "keypair", "enc", "dec"}, draws : 0..3], op.draws > 0
  PROVE  [op EXCEPT !.draws = @ - 1] \in [name : {"none", "keypair", "enc", "dec"}, draws : 0..3]
OBVIOUS

LEMMA KemInvStep ==
  ASSUME KemInv, [KemNext]_kemVars
  PROVE  KemInv'
<1> USE DEF KemInv, ResultJustified
<1>1. ASSUME NEW name \in {"keypair", "enc", "dec"}, KemCall(name)
      PROVE  KemInv'
  <2>1. Draws[name] \in 0..3
    BY DEF Draws
  <2>2. CASE failed
    BY <1>1, <2>2 DEF KemCall, NoOp
  <2>3. CASE ~failed
    BY <1>1, <2>1, <2>3 DEF KemCall, NoOp
  <2> QED
    BY <2>2, <2>3
<1>2. CASE KemDraw
  <2>1. /\ op' \in [name : {"none", "keypair", "enc", "dec"}, draws : 0..3]
        /\ op'.name = op.name /\ op.name # "none"
    BY <1>2, DrawsLess DEF KemDraw
  <2> QED
    BY <1>2, <2>1 DEF KemDraw
<1>3. CASE KemGets
  BY <1>3 DEF KemGets
<1>4. CASE KemFallsBack
  BY <1>4 DEF KemFallsBack
<1>5. CASE KemFails
  BY <1>5 DEF KemFails
<1>6. CASE KemReturns
  BY <1>6 DEF KemReturns, NoOp
<1>7. CASE UNCHANGED kemVars
  BY <1>7 DEF kemVars
<1> QED
  BY <1>1, <1>2, <1>3, <1>4, <1>5, <1>6, <1>7 DEF KemNext

(* No operation of the wrapper succeeds once any draw was not random.      *)
THEOREM KemResultsAreJustified == KemSpec => []ResultJustified
<1>1. KemInv /\ [KemNext]_kemVars => KemInv'
  BY KemInvStep
<1>2. KemInv => ResultJustified
  BY DEF KemInv
<1> QED
  BY KemInvInit, <1>1, <1>2, PTL DEF KemSpec

LEMMA RandomOrZeroStep ==
  ASSUME RandomOrZero, [KemNext]_kemVars
  PROVE  RandomOrZero'
<1>1. CASE (\E name \in {"keypair", "enc", "dec"} : KemCall(name))
             \/ KemReturns \/ UNCHANGED kemVars
  <2>1. UNCHANGED <<buffer, source, failed>>
    BY <1>1 DEF KemCall, KemReturns, kemVars
  <2> QED
    BY <2>1 DEF RandomOrZero, Drawn
<1>2. CASE KemDraw \/ KemFallsBack
  BY <1>2 DEF KemDraw, KemFallsBack, RandomOrZero
<1>3. CASE KemGets
  <2>1. PICK n \in Part \ Drawn :
          /\ buffer' = [i \in Part |-> IF i <= n THEN "random" ELSE buffer[i]]
          /\ source' = IF n = Bytes THEN "idle" ELSE source
    BY <1>3 DEF KemGets
  <2>2. CASE n = Bytes
    <3>1. \A i \in Part : buffer'[i] = "random"
      BY <2>1, <2>2, BytesAssumption DEF Part
    <3> QED
      BY <3>1 DEF RandomOrZero, Drawn
  <2>3. CASE n # Bytes
    BY <1>3, <2>1, <2>3 DEF KemGets, RandomOrZero
  <2> QED
    BY <2>2, <2>3
<1>4. CASE KemFails
  BY <1>4 DEF KemFails, RandomOrZero
<1> QED
  BY <1>1, <1>2, <1>3, <1>4 DEF KemNext

(* randombytes() hands out a buffer that is random throughout, or zero and *)
(* flagged, for requests of any length and any interruptions.              *)
THEOREM BufferIsRandomOrZero == KemSpec => []RandomOrZero
<1>1. KemInit => RandomOrZero
  BY DEF KemInit, RandomOrZero
<1>2. RandomOrZero /\ [KemNext]_kemVars => RandomOrZero'
  BY RandomOrZeroStep
<1> QED
  BY <1>1, <1>2, PTL DEF KemSpec

-----------------------------------------------------------------------------
(* PdkFile, for any number of keys, inodes, saves and crashes.             *)

Directories == [dst : Inodes \cup {NoInode}, tmp : Inodes \cup {NoInode}]
Files == [key : PdkKeys, len : 0..Whole, sure : 0..Whole]
Writers == [op : {"none", "boot", "save"}, key : PdkKeys,
            step : {"none", "write", "fsync", "rename", "fsync_dir"}]

PdkTypeInv ==
    /\ file \in [Inodes -> Files]
    /\ \A i \in Inodes : file[i].sure <= file[i].len
    /\ dir \in dirs /\ dirs \subseteq Directories
    /\ writer \in Writers
    /\ booted \in BOOLEAN /\ kept \subseteq PdkKeys \cup {"missing"}

(* No directory a crash may leave calls one file both, and the temporary   *)
(* file of now is nobody's key file: it may be truncated.                  *)
Apart ==
    /\ \A d \in dirs : d.tmp # NoInode => d.dst # d.tmp
    /\ dir.tmp # NoInode => \A d \in dirs : d.dst # dir.tmp

(* Whatever a crash leaves as the key file is on disk in full, unless its  *)
(* fsync() failed unnoticed, and holds a key that may be found.            *)
OnDisk ==
    \A d \in dirs :
      /\ d.dst # NoInode /\ d.dst \notin unsynced => file[d.dst].sure = Whole
      /\ IF d.dst = NoInode THEN "missing" \in kept ELSE file[d.dst].key \in kept

(* What the writer has got to.                                             *)
Progress ==
    /\ writer.op # "none" /\ writer.step \in {"write", "fsync", "rename"} =>
         dir.tmp # NoInode /\ file[dir.tmp].key = writer.key
    /\ Writing("fsync") => file[dir.tmp].len = Whole
    /\ Writing("rename") => dir.tmp \in unsynced \/ file[dir.tmp].sure = Whole
    /\ Writing("fsync_dir") => dir.dst # NoInode /\ file[dir.dst].key = writer.key

PdkInv == PdkTypeInv /\ Apart /\ OnDisk /\ Progress

LEMMA PdkInvInit == PdkInit => PdkInv
<1> SUFFICES ASSUME PdkInit PROVE PdkInv
  OBVIOUS
<1>1. PdkTypeInv
  <2>1. /\ [key |-> DefaultKey, len |-> 0, sure |-> 0] \in Files
        /\ PdkIdle \in Writers
    BY DEF Files, Writers, PdkIdle, PdkKeys, Whole
  <2>2. file \in [Inodes -> Files] /\ \A i \in Inodes : file[i].sure <= file[i].len
    BY <2>1 DEF PdkInit
  <2>3. dir \in dirs /\ dirs \subseteq Directories
    BY DEF PdkInit, Directories
  <2> QED
    BY <2>1, <2>2, <2>3 DEF PdkInit, PdkTypeInv
<1>2. Apart /\ OnDisk
  BY DEF PdkInit, Apart, OnDisk, NoInode
<1>3. Progress
  BY DEF PdkInit, Progress, Writing, PdkIdle
<1> QED
  BY <1>1, <1>2, <1>3 DEF PdkInv

(* A temporary file is opened: it is no key file in any directory, so      *)
(* nothing that counts is truncated.                                       *)
LEMMA OpenTmpInv ==
  ASSUME PdkInv, NEW what \in {"boot", "save"}, NEW k \in PdkKeys, OpenTmp(what, k),
         booted' \in BOOLEAN
  PROVE  PdkInv'
<1> USE DEF PdkInv, NoInode
<1>1. PICK i \in IF dir.tmp # NoInode THEN {dir.tmp} ELSE Inodes \ Referenced :
        /\ file' = [file EXCEPT ![i] = [key |-> k, len |-> 0, sure |-> 0]]
        /\ SetDir([dir EXCEPT !.tmp = i])
        /\ unsynced' = unsynced \ {i}
  BY DEF OpenTmp
<1> DEFINE new == [dir EXCEPT !.tmp = i]
<1>2. dir \in Directories /\ dirs \subseteq Directories /\ dir \in dirs
  BY DEF PdkTypeInv
<1>3. i \in Inodes /\ i # NoInode
  BY <1>1, <1>2, PdkAssumption DEF Directories
<1>4. \A d \in dirs : d.dst # i
  <2>1. CASE dir.tmp # NoInode
    BY <1>1, <2>1 DEF Apart
  <2>2. CASE dir.tmp = NoInode
    BY <1>1, <2>2 DEF Referenced
  <2> QED
    BY <2>1, <2>2
<1>5. /\ new \in Directories /\ new.dst = dir.dst /\ new.tmp = i
      /\ dir' = new /\ dirs' = dirs \cup {new}
  BY <1>1, <1>2, <1>3 DEF SetDir, Directories
<1>6. [key |-> k, len |-> 0, sure |-> 0] \in Files
  BY DEF Files, Whole
<1>7. /\ file' \in [Inodes -> Files] /\ file'[i] = [key |-> k, len |-> 0, sure |-> 0]
      /\ \A j \in Inodes : j # i => file'[j] = file[j]
  BY <1>1, <1>3, <1>6 DEF PdkTypeInv
<1>8. writer' = [op |-> what, key |-> k, step |-> "write"] /\ kept' = kept
  BY DEF OpenTmp
<1>9. PdkTypeInv'
  BY <1>2, <1>5, <1>7, <1>8 DEF PdkTypeInv, Writers
<1>10. Apart'
  BY <1>2, <1>4, <1>5 DEF Apart
<1>11. OnDisk'
  <2>1. \A d \in dirs' : d.dst # i /\ \E e \in dirs : e.dst = d.dst
    BY <1>2, <1>4, <1>5
  <2>2. \A d \in dirs' : d.dst # NoInode => d.dst \in Inodes
    BY <1>2, <1>5 DEF Directories
  <2> QED
    BY <1>1, <1>7, <1>8, <2>1, <2>2 DEF OnDisk
<1>12. Progress'
  BY <1>3, <1>5, <1>7, <1>8 DEF Progress, Writing
<1> QED
  BY <1>9, <1>10, <1>11, <1>12

LEMMA WriteInv ==
  ASSUME PdkInv, PdkWrite
  PROVE  PdkInv'
<1> USE DEF PdkInv
<1> DEFINE i == dir.tmp
<1>1. PICK n \in (file[i].len + 1)..Whole :
        /\ file' = [file EXCEPT ![i].len = n]
        /\ IF n = Whole THEN Goto("fsync") ELSE UNCHANGED writer
  BY DEF PdkWrite
<1>2. /\ dir' = dir /\ dirs' = dirs /\ booted' = booted /\ unsynced' = unsynced
      /\ kept' = kept /\ Writing("write")
  BY DEF PdkWrite
<1>3. i \in Inodes /\ i # NoInode /\ file[i] \in Files /\ file[i].key = writer.key
  BY <1>2, PdkAssumption DEF Progress, Writing, PdkTypeInv, Directories
<1>4. /\ n \in 0..Whole /\ file[i].sure <= n
  BY <1>1, <1>3 DEF Files, PdkTypeInv, Whole
<1>5. /\ file' \in [Inodes -> Files]
      /\ \A j \in Inodes : file'[j].key = file[j].key /\ file'[j].sure = file[j].sure
      /\ file'[i].len = n /\ \A j \in Inodes : j # i => file'[j].len = file[j].len
  BY <1>1, <1>3, <1>4 DEF PdkTypeInv, Files
<1>6. /\ writer' \in Writers /\ writer'.key = writer.key /\ writer'.op = writer.op
      /\ writer'.step = IF n = Whole THEN "fsync" ELSE "write"
  BY <1>1, <1>2 DEF Goto, PdkTypeInv, Writers, Writing
<1>7. PdkTypeInv'
  BY <1>2, <1>4, <1>5, <1>6 DEF PdkTypeInv
<1>8. Apart' /\ OnDisk'
  BY <1>2, <1>5 DEF Apart, OnDisk, PdkTypeInv, Directories
<1>9. Progress'
  BY <1>2, <1>3, <1>5, <1>6 DEF Progress, Writing
<1> QED
  BY <1>7, <1>8, <1>9

LEMMA FsyncInv ==
  ASSUME PdkInv, PdkFsync
  PROVE  PdkInv'
<1> USE DEF PdkInv
<1> DEFINE i == dir.tmp
<1>1. /\ dir' = dir /\ dirs' = dirs /\ booted' = booted /\ kept' = kept
      /\ Writing("fsync") /\ Goto("rename")
  BY DEF PdkFsync
<1>2. /\ i \in Inodes /\ i # NoInode /\ file[i] \in Files
      /\ file[i].key = writer.key /\ file[i].len = Whole
  BY <1>1, PdkAssumption DEF Progress, Writing, PdkTypeInv, Directories
<1>3. /\ writer' \in Writers /\ writer'.key = writer.key /\ writer'.op = writer.op
      /\ writer'.step = "rename"
  BY <1>1 DEF Goto, PdkTypeInv, Writers
<1>4. Apart'
  BY <1>1 DEF Apart
<1>5. CASE file' = [file EXCEPT ![i].sure = file[i].len] /\ UNCHANGED unsynced
  <2>1. /\ file' \in [Inodes -> Files] /\ file'[i].sure = Whole /\ file'[i].len = Whole
        /\ file'[i].key = file[i].key
        /\ \A j \in Inodes : j # i => file'[j] = file[j]
    BY <1>2, <1>5 DEF PdkTypeInv, Files
  <2>2. PdkTypeInv'
    BY <1>1, <1>3, <2>1 DEF PdkTypeInv, Whole
  <2>3. OnDisk'
    BY <1>1, <1>5, <2>1 DEF OnDisk, PdkTypeInv, Directories
  <2>4. Progress'
    BY <1>1, <1>2, <1>3, <2>1 DEF Progress, Writing
  <2> QED
    BY <1>4, <2>2, <2>3, <2>4
<1>6. CASE unsynced' = unsynced \cup {i} /\ UNCHANGED file
  BY <1>1, <1>2, <1>3, <1>4, <1>6 DEF PdkTypeInv, OnDisk, Progress, Writing
<1> QED
  BY <1>5, <1>6 DEF PdkFsync

LEMMA RenameInv ==
  ASSUME PdkInv, PdkRename
  PROVE  PdkInv'
<1> USE DEF PdkInv
<1> DEFINE i == dir.tmp
           new == [dst |-> i, tmp |-> NoInode]
<1>1. /\ file' = file /\ unsynced' = unsynced /\ dir' = new /\ dirs' = dirs \cup {new}
      /\ Writing("rename") /\ kept' = kept \cup {writer.key}
  BY DEF PdkRename, SetDir
<1>2. i \in Inodes /\ i # NoInode /\ file[i].key = writer.key /\ writer.key \in PdkKeys
  BY <1>1, PdkAssumption DEF Progress, Writing, PdkTypeInv, Directories, Writers
<1>3. /\ booted' \in BOOLEAN /\ writer' \in Writers
      /\ writer' = PdkIdle \/ /\ writer'.step = "fsync_dir" /\ writer'.key = writer.key
  <2>1. CASE writer.op = "save"
    BY <2>1 DEF PdkRename, Goto, PdkTypeInv, Writers
  <2>2. CASE writer.op # "save"
    BY <2>2 DEF PdkRename, Finished, PdkIdle, Writers, PdkKeys
  <2> QED
    BY <2>1, <2>2
<1>4. PdkTypeInv'
  BY <1>1, <1>2, <1>3 DEF PdkTypeInv, Directories
<1>5. Apart'
  BY <1>1, <1>2 DEF Apart, NoInode
<1>6. OnDisk'
  <2>1. i \notin unsynced => file[i].sure = Whole
    BY <1>1 DEF Progress
  <2> QED
    BY <1>1, <1>2, <2>1 DEF OnDisk
<1>7. Progress'
  BY <1>1, <1>2, <1>3 DEF Progress, Writing, PdkIdle
<1> QED
  BY <1>4, <1>5, <1>6, <1>7

(* The end of an operation, or of one that met an error.                   *)
LEMMA EndInv ==
  ASSUME PdkInv, PdkError \/ PdkFsyncDir
  PROVE  PdkInv'
<1> USE DEF PdkInv
<1>1. writer' = PdkIdle /\ booted' = TRUE /\ UNCHANGED <<file, unsynced>>
  BY DEF PdkError, PdkFsyncDir, Finished
<1>2. writer' \in Writers /\ Progress'
  BY <1>1 DEF PdkIdle, Writers, PdkKeys, Progress, Writing
<1>3. CASE PdkError
  <2> DEFINE new == [dir EXCEPT !.tmp = NoInode]
  <2>1. /\ kept' = kept
        /\ \/ dir' = dir /\ dirs' = dirs
           \/ dir' = new /\ dirs' = dirs \cup {new}
    BY <1>3 DEF PdkError, SetDir
  <2>2. dir \in dirs /\ new \in Directories /\ new.dst = dir.dst /\ new.tmp = NoInode
    BY DEF PdkTypeInv, Directories
  <2>3. PdkTypeInv'
    BY <1>1, <1>2, <2>1, <2>2 DEF PdkTypeInv
  <2>4. Apart' /\ OnDisk'
    BY <1>1, <2>1, <2>2 DEF Apart, OnDisk
  <2> QED
    BY <1>2, <2>3, <2>4
<1>4. CASE PdkFsyncDir
  <2>1. /\ dir' = dir /\ Writing("fsync_dir")
        /\ \/ dirs' = {dir} /\ kept' = {writer.key}
           \/ dirs' = dirs /\ kept' = kept
    BY <1>4 DEF PdkFsyncDir
  <2>2. dir.dst # NoInode /\ file[dir.dst].key = writer.key /\ writer.key \in PdkKeys
    BY <2>1 DEF Progress, PdkTypeInv, Writers
  <2>3. PdkTypeInv'
    BY <1>1, <1>2, <2>1, <2>2 DEF PdkTypeInv
  <2>4. Apart' /\ OnDisk'
    BY <1>1, <2>1, <2>2 DEF Apart, OnDisk, PdkTypeInv
  <2> QED
    BY <1>2, <2>3, <2>4
<1> QED
  BY <1>3, <1>4

(* A crash takes away what is not on disk and leaves one of the            *)
(* directories.                                                            *)
LEMMA CrashInv ==
  ASSUME PdkInv, PdkCrash
  PROVE  PdkInv'
<1> USE DEF PdkInv
<1>1. PICK d \in dirs : dir' = d /\ dirs' = {d}
  BY DEF PdkCrash
<1>2. PICK len \in [Inodes -> 0..Whole] :
        /\ \A i \in Inodes : len[i] \in file[i].sure..file[i].len
        /\ file' = [i \in Inodes |->
                      [key |-> file[i].key, len |-> len[i], sure |-> len[i]]]
  BY DEF PdkCrash
<1>3. writer' = PdkIdle /\ booted' = FALSE /\ UNCHANGED <<unsynced, kept>>
  BY DEF PdkCrash
<1>4. \A i \in Inodes : file[i] \in Files
  BY DEF PdkTypeInv
<1>5. /\ file' \in [Inodes -> Files]
      /\ \A i \in Inodes : /\ file'[i].sure = file'[i].len /\ file'[i].key = file[i].key
                           /\ file[i].sure = Whole => file'[i].sure = Whole
  BY <1>2, <1>4 DEF Files, Whole
<1>6. PdkTypeInv'
  <2>1. writer' \in Writers /\ booted' \in BOOLEAN
    BY <1>3 DEF PdkIdle, Writers, PdkKeys
  <2>2. \A i \in Inodes : file'[i].sure <= file'[i].len
    BY <1>5 DEF Files, Whole
  <2>3. dir' \in dirs' /\ dirs' \subseteq Directories
    BY <1>1 DEF PdkTypeInv
  <2> QED
    BY <1>3, <1>5, <2>1, <2>2, <2>3 DEF PdkTypeInv
<1>7. Apart'
  BY <1>1 DEF Apart
<1>8. OnDisk'
  BY <1>1, <1>3, <1>5 DEF OnDisk, PdkTypeInv, Directories
<1>9. Progress'
  BY <1>3 DEF Progress, Writing, PdkIdle
<1> QED
  BY <1>6, <1>7, <1>8, <1>9

LEMMA PdkInvStep ==
  ASSUME PdkInv, [PdkNext]_pdkVars
  PROVE  PdkInv'
<1>1. CASE PdkBootstrap
  <2>1. CASE dir.dst # NoInode
    BY <1>1, <2>1 DEF PdkBootstrap, PdkInv, PdkTypeInv, Apart, OnDisk, Progress, Writing
  <2>2. CASE dir.dst = NoInode
    <3>1. OpenTmp("boot", DefaultKey) /\ booted' = booted
      BY <1>1, <2>2 DEF PdkBootstrap
    <3> QED
      BY <3>1, OpenTmpInv DEF PdkKeys, PdkInv, PdkTypeInv
  <2> QED
    BY <2>1, <2>2
<1>2. ASSUME NEW k \in NewKeys, PdkSave(k)
      PROVE  PdkInv'
  BY <1>2, OpenTmpInv DEF PdkSave, PdkKeys, PdkInv, PdkTypeInv
<1>3. CASE PdkWrite
  BY <1>3, WriteInv
<1>4. CASE PdkFsync
  BY <1>4, FsyncInv
<1>5. CASE PdkRename
  BY <1>5, RenameInv
<1>6. CASE PdkError \/ PdkFsyncDir
  BY <1>6, EndInv
<1>7. CASE PdkCrash
  BY <1>7, CrashInv
<1>8. CASE UNCHANGED pdkVars
  BY <1>8 DEF pdkVars, PdkInv, PdkTypeInv, Apart, OnDisk, Progress, Writing
<1> QED
  BY <1>1, <1>2, <1>3, <1>4, <1>5, <1>6, <1>7, <1>8 DEF PdkNext

(* The inductive invariant of the key file: what a save or a copy that was *)
(* interrupted anywhere has left of it in memory and on the disk.          *)
THEOREM PdkInvariant == PdkSpec => []PdkInv
<1>1. PdkInv /\ [PdkNext]_pdkVars => PdkInv'
  BY PdkInvStep
<1> QED
  BY PdkInvInit, <1>1, PTL DEF PdkSpec

(* Wherever power fails, what is found under the file's name is a whole    *)
(* key, except for a first copy whose fsync() failed unnoticed.            *)
THEOREM KeyFileNeverTorn == PdkSpec => []NeverTorn
<1>1. PdkInv => NeverTorn
  <2> SUFFICES ASSUME PdkInv, dir.dst \notin unsynced PROVE PdkRead # "refused"
    BY DEF NeverTorn
  <2>1. CASE dir.dst = NoInode
    BY <2>1 DEF PdkRead
  <2>2. CASE dir.dst # NoInode
    <3>1. dir.dst \in Inodes /\ file[dir.dst] \in Files
      BY <2>2 DEF PdkInv, PdkTypeInv, Directories
    <3>2. file[dir.dst].sure = Whole /\ file[dir.dst].sure <= file[dir.dst].len
      BY <2>2, <3>1 DEF PdkInv, PdkTypeInv, OnDisk
    <3>3. ~(file[dir.dst].len < Whole)
      BY <3>1, <3>2 DEF Files, Whole
    <3>4. file[dir.dst].key # "refused"
      BY <3>1, PdkAssumption DEF Files, PdkKeys
    <3> QED
      BY <2>2, <3>3, <3>4 DEF PdkRead
  <2> QED
    BY <2>1, <2>2
<1> QED
  BY <1>1, PdkInvariant, PTL

(* No crash brings back a key older than the last save that reached the    *)
(* disk.                                                                   *)
THEOREM SavesAreDurable == PdkSpec => []SaveIsDurable
<1>1. PdkInv => SaveIsDurable
  BY DEF PdkInv, PdkTypeInv, OnDisk, SaveIsDurable, PdkRead
<1> QED
  BY <1>1, PdkInvariant, PTL

-----------------------------------------------------------------------------
(* Signing: any links, keys, save period and number of restarts.           *)

Signers == [on : BOOLEAN, key : Keys, ts : Nat]
Enabled == Links \ SigningDisabled

Signs(l, k) == signer[l].on /\ signer[l].key = k

(* Where keys come from: a link signs with a session key or with the key   *)
(* in FRAM; a link with signing disabled only ever gets session keys, and  *)
(* all other links change key together.  A save that counts is one of a    *)
(* key in use.                                                             *)
KeysInPlace ==
    /\ fram.key \notin SessionKeys
    /\ \A l \in Links : signer[l].on =>
         \/ signer[l].key \in SessionKeys
         \/ fram.magic /\ signer[l].key = fram.key /\ l \in Enabled
    /\ \A l, m \in Enabled : signer[l].on = signer[m].on /\ signer[l].key = signer[m].key
    /\ \A l \in SigningDisabled : used[fram.key][l] = -1
    /\ ~fram.magic => \A l \in Links : used[fram.key][l] = -1
    /\ saved => fram.magic /\ FramKeyInUse

(* A session key never meets FRAM, so its timestamps only grow.            *)
SessionsNew ==
    \A l \in Links : signer[l].on /\ signer[l].key \in SessionKeys
                       => signer[l].ts > used[signer[l].key][l]

(* Links that sign with the FRAM's key are past what they used.            *)
PastUse == \A l \in Links : Signs(l, fram.key) => signer[l].ts > used[fram.key][l]

(* After a save of this boot, no timestamp is further than the time since  *)
(* it and what was taken over from peers.                                  *)
NearFram ==
    saved => \A l \in Links :
      Signs(l, fram.key) => signer[l].ts <= fram.ts + sinceSave + taken[l]

(* A key that memory no longer holds is within the minute of FRAM.         *)
Covered ==
    ~saved /\ ~FramKeyInUse => \A l \in Links : used[fram.key][l] < fram.ts + Margin

Remembered == ~forgotten => PastUse /\ NearFram /\ Covered

SigningInv == SigningTypeOK /\ KeysInPlace /\ SessionsNew /\ Remembered

LEMMA MarginCovers ==
  /\ Margin \in Nat /\ SavePeriod + HeartbeatPeriod \in Nat
  /\ SavePeriod + HeartbeatPeriod < Margin
BY SigningAssumption DEF Margin

(* What the invariant is for.                                              *)
LEMMA InvImpliesNew ==
  ASSUME SigningInv
  PROVE  NoTimestampTwice
<1> SUFFICES ASSUME ~forgotten, NEW l \in Links, signer[l].on
             PROVE  signer[l].ts > used[signer[l].key][l]
  BY DEF NoTimestampTwice, TimestampIsNew
<1>1. CASE signer[l].key \in SessionKeys
  BY <1>1 DEF SigningInv, SessionsNew
<1>2. CASE signer[l].key \notin SessionKeys
  BY <1>2 DEF SigningInv, KeysInPlace, Remembered, PastUse, Signs
<1> QED
  BY <1>1, <1>2

(* However a boot begins or a key leaves memory, unless it is forgotten    *)
(* the minute covers what was used with the FRAM's key.                    *)
LEMMA MinuteCovers ==
  ASSUME SigningInv, Forget, ~forgotten'
  PROVE  \A l \in Links : used[fram.key][l] < fram.ts + Margin
<1>1. ~forgotten /\ (~FramKeyInUse \/ ~fram.magic \/ (saved /\ ~Overtaken))
  BY DEF Forget
<1>2. /\ fram.ts \in Nat /\ sinceSave \in 0..(SavePeriod + HeartbeatPeriod)
      /\ \A l \in Links : used[fram.key][l] \in Nat \cup {-1}
      /\ \A l \in Links : taken[l] \in Nat /\ signer[l].ts \in Nat
  BY DEF SigningInv, SigningTypeOK
<1>3. CASE saved /\ FramKeyInUse /\ fram.magic
  <2>1. PICK m \in Enabled : Signs(m, fram.key)
    BY <1>3 DEF FramKeyInUse, Signs, SigningInv, KeysInPlace
  <2>2. ASSUME NEW l \in Enabled PROVE used[fram.key][l] < fram.ts + Margin
    <3>1. l \in Links /\ m \in Links
      BY DEF Enabled
    <3>2. Signs(l, fram.key)
      BY <2>1 DEF Signs, SigningInv, KeysInPlace
    <3>3. signer[l].ts <= fram.ts + sinceSave + taken[l] /\ taken[l] + sinceSave <= Margin
      BY <1>1, <1>2, <1>3, <3>1, <3>2, MarginCovers
      DEF SigningInv, Remembered, NearFram, Overtaken, Signs
    <3>4. used[fram.key][l] < signer[l].ts
      BY <1>1, <3>1, <3>2 DEF SigningInv, Remembered, PastUse
    <3> QED
      BY <1>2, <3>1, <3>3, <3>4, MarginCovers
  <2>3. ASSUME NEW l \in SigningDisabled PROVE used[fram.key][l] < fram.ts + Margin
    BY <1>2, MarginCovers DEF SigningInv, KeysInPlace
  <2> QED
    BY <2>2, <2>3 DEF Enabled
<1>4. CASE ~FramKeyInUse
  BY <1>1, <1>4 DEF SigningInv, KeysInPlace, Remembered, Covered
<1>5. CASE ~fram.magic
  BY <1>2, <1>5, MarginCovers DEF SigningInv, KeysInPlace
<1> QED
  BY <1>1, <1>3, <1>4, <1>5

LEMMA SigningInvInit == SigningInit => SigningInv
<1> SUFFICES ASSUME SigningInit PROVE SigningInv
  OBVIOUS
<1> USE DEF SigningInit
<1>1. NoKeyYet \in Keys /\ NoKeyYet \notin SessionKeys
  BY SigningAssumption DEF Keys
<1>2. SigningTypeOK
  <2>1. fram \in [magic : BOOLEAN, key : Keys, ts : Nat]
    BY <1>1
  <2>2. signer \in [Links -> [on : BOOLEAN, key : Keys, ts : Nat]]
    BY <1>1 DEF Off
  <2>3. sinceSave \in 0..(SavePeriod + HeartbeatPeriod) /\ ticks \in 0..MaxTicks
        /\ boots \in 0..MaxBoots /\ taken \in [Links -> Nat]
    BY MarginCovers, SigningAssumption DEF NoneTaken
  <2> QED
    BY <2>1, <2>2, <2>3 DEF SigningTypeOK
<1>3. \A l \in Links : signer[l] = Off /\ used[fram.key][l] = -1 /\ fram.ts = 0
  BY <1>1
<1>4. KeysInPlace
  <2>1. \A l \in Links : signer[l].on = FALSE /\ signer[l].key = NoKeyYet
    BY <1>3 DEF Off
  <2>2. fram.key = NoKeyYet /\ saved = FALSE /\ SigningDisabled \subseteq Links
    BY SigningAssumption
  <2> QED
    BY <1>1, <1>3, <2>1, <2>2 DEF KeysInPlace, Enabled
<1>5. SessionsNew
  BY <1>3 DEF SessionsNew, Off
<1>6. PastUse
  BY <1>3 DEF PastUse, Signs, Off
<1>7. NearFram
  BY DEF NearFram
<1>8. Covered
  <2>1. fram.ts = 0 /\ -1 < 0 + Margin
    BY MarginCovers
  <2> QED
    BY <1>3, <2>1 DEF Covered
<1> QED
  BY <1>2, <1>4, <1>5, <1>6, <1>7, <1>8 DEF SigningInv, Remembered

(* A signer's timestamp moves on.                                          *)
LEMMA MovedOn ==
  ASSUME NEW r \in Signers, NEW n \in Nat
  PROVE  /\ [r EXCEPT !.ts = @ + n] \in Signers
         /\ [r EXCEPT !.ts = @ + n].on = r.on
         /\ [r EXCEPT !.ts = @ + n].key = r.key
         /\ [r EXCEPT !.ts = @ + n].ts = r.ts + n
BY DEF Signers

(* Messages are signed: what is used follows the timestamp, one step       *)
(* behind.                                                                 *)
LEMMA TickInv ==
  ASSUME SigningInv, NEW busy \in SUBSET Links, Tick(busy)
  PROVE  SigningInv'
<1> USE DEF SigningInv
<1>1. /\ \A l \in busy : signer[l].on
      /\ UNCHANGED <<fram, armed, boots, taken, saved, forgotten>>
      /\ ticks' = ticks + 1 /\ sinceSave' = sinceSave + 1
      /\ ticks < MaxTicks /\ sinceSave < SavePeriod + HeartbeatPeriod
  BY DEF Tick
<1>2. \A l \in Links : /\ signer[l] \in Signers
                       /\ \A k \in Keys : used[k][l] \in Nat \cup {-1}
  BY DEF SigningTypeOK, Signers
<1>3. /\ signer' \in [Links -> Signers]
      /\ \A l \in Links : /\ signer'[l].on = signer[l].on
                           /\ signer'[l].key = signer[l].key
                           /\ signer'[l].ts = IF l \in busy THEN signer[l].ts + 1
                                                            ELSE signer[l].ts
  <2>1. signer' = [l \in Links |->
                     IF l \in busy THEN [signer[l] EXCEPT !.ts = @ + 1] ELSE signer[l]]
    BY DEF Tick
  <2>2. ASSUME NEW l \in Links
        PROVE  /\ signer'[l] \in Signers
               /\ signer'[l].on = signer[l].on /\ signer'[l].key = signer[l].key
               /\ signer'[l].ts = IF l \in busy THEN signer[l].ts + 1 ELSE signer[l].ts
    BY <1>2, <2>1, MovedOn
  <2> QED
    BY <2>1, <2>2
<1>4. /\ used' \in [Keys -> [Links -> Nat \cup {-1}]]
      /\ \A k \in Keys, l \in Links :
           used'[k][l] = IF l \in busy /\ signer[l].key = k /\ signer[l].ts > used[k][l]
                         THEN signer[l].ts ELSE used[k][l]
  BY <1>2 DEF Tick, Signers
<1>5. SigningTypeOK'
  <2>1. sinceSave' \in 0..(SavePeriod + HeartbeatPeriod) /\ ticks' \in 0..MaxTicks
    BY <1>1, MarginCovers, SigningAssumption DEF SigningTypeOK
  <2> QED
    BY <1>1, <1>3, <1>4, <2>1 DEF SigningTypeOK, Signers
<1>6. fram.key \in Keys /\ fram.ts \in Nat /\ sinceSave \in Nat
  BY MarginCovers DEF SigningTypeOK
<1>7. KeysInPlace'
  <2>1. \A l \in SigningDisabled : l \in Links /\ l \notin Enabled
    BY SigningAssumption DEF Enabled
  <2>2. \A l \in busy : signer[l].key = fram.key => fram.magic /\ l \in Enabled
    BY <1>1 DEF KeysInPlace
  <2>3. \A l \in SigningDisabled : used'[fram.key][l] = -1
    BY <1>4, <1>6, <2>1, <2>2 DEF KeysInPlace
  <2>4. ~fram.magic => \A l \in Links : used'[fram.key][l] = -1
    BY <1>4, <1>6, <2>2 DEF KeysInPlace
  <2>5. saved => fram.magic /\ FramKeyInUse'
    BY <1>1, <1>3 DEF KeysInPlace, FramKeyInUse
  <2>6. \A l, m \in Enabled : signer'[l].on = signer'[m].on /\ signer'[l].key = signer'[m].key
    BY <1>3 DEF KeysInPlace, Enabled
  <2> QED
    BY <1>1, <1>3, <2>3, <2>4, <2>5, <2>6 DEF KeysInPlace
<1>8. ASSUME NEW l \in Links, signer[l].ts > used[signer[l].key][l]
      PROVE  signer'[l].ts > used'[signer[l].key][l]
  <2>1. signer[l].key \in Keys
    BY <1>2 DEF Signers
  <2> QED
    BY <1>2, <1>3, <1>4, <1>8, <2>1 DEF Signers
<1>9. SessionsNew'
  BY <1>3, <1>8 DEF SessionsNew
<1>10. ASSUME ~forgotten PROVE PastUse' /\ NearFram' /\ Covered'
  <2>1. PastUse /\ NearFram /\ Covered
    BY <1>10 DEF Remembered
  <2>2. \A l \in Links : Signs(l, fram.key)' <=> Signs(l, fram.key)
    BY <1>1, <1>3 DEF Signs
  <2>3. PastUse'
    BY <1>1, <1>3, <1>8, <2>1, <2>2 DEF PastUse, Signs
  <2>4. ASSUME saved, NEW l \in Links
        PROVE  Signs(l, fram.key) => signer'[l].ts <= fram.ts + sinceSave' + taken[l]
    <3>1. Signs(l, fram.key) => signer[l].ts <= fram.ts + sinceSave + taken[l]
      BY <2>1, <2>4 DEF NearFram
    <3>2. taken[l] \in Nat
      BY DEF SigningTypeOK
    <3> QED
      BY <1>1, <1>2, <1>3, <1>6, <3>1, <3>2 DEF Signers
  <2>5. NearFram'
    BY <1>1, <2>2, <2>4 DEF NearFram
  <2>6. ASSUME ~FramKeyInUse PROVE \A l \in Links : used'[fram.key][l] = used[fram.key][l]
    BY <1>1, <1>4, <1>6, <2>6 DEF FramKeyInUse
  <2>7. FramKeyInUse' <=> FramKeyInUse
    BY <1>1, <1>3 DEF FramKeyInUse
  <2>8. Covered'
    BY <1>1, <2>1, <2>6, <2>7 DEF Covered, Margin
  <2> QED
    BY <2>3, <2>5, <2>8
<1> QED
  BY <1>1, <1>5, <1>7, <1>9, <1>10 DEF Remembered

(* A peer's timestamp is taken over: what counts as taken grows with it.   *)
LEMMA TakeOverInv ==
  ASSUME SigningInv, NEW l \in Links, NEW lead \in Leads, TakeOver(l, lead)
  PROVE  SigningInv'
<1> USE DEF SigningInv
<1>1. UNCHANGED <<fram, armed, sinceSave, ticks, boots, used, saved, forgotten>>
  BY DEF TakeOver
<1>2. /\ \A m \in Links : signer[m] \in Signers /\ taken[m] \in Nat
      /\ lead \in Nat /\ fram.ts \in Nat /\ fram.key \in Keys
      /\ sinceSave \in 0..(SavePeriod + HeartbeatPeriod)
      /\ \A m \in Links, k \in Keys : used[k][m] \in Nat \cup {-1}
  BY SigningAssumption DEF SigningTypeOK, Signers
<1>3. \A m \in Links :
        /\ signer'[m] \in Signers
        /\ signer'[m].on = signer[m].on /\ signer'[m].key = signer[m].key
        /\ signer'[m].ts = IF m = l THEN signer[m].ts + lead ELSE signer[m].ts
        /\ taken'[m] = IF m = l THEN taken[m] + lead ELSE taken[m]
  <2>1. /\ \A m \in Links : signer'[m] = IF m = l THEN [signer[l] EXCEPT !.ts = @ + lead]
                                                 ELSE signer[m]
        /\ \A m \in Links : taken'[m] = IF m = l THEN taken[l] + lead ELSE taken[m]
    BY DEF TakeOver, SigningTypeOK
  <2>2. ASSUME NEW m \in Links
        PROVE  /\ signer'[m] \in Signers
               /\ signer'[m].on = signer[m].on /\ signer'[m].key = signer[m].key
               /\ signer'[m].ts = IF m = l THEN signer[m].ts + lead ELSE signer[m].ts
    <3>1. CASE m = l
      <4>1. signer[l] \in Signers /\ lead \in Nat
        BY <1>2
      <4>2. signer'[l] = [signer[l] EXCEPT !.ts = @ + lead]
        BY <2>1
      <4> QED
        BY <3>1, <4>1, <4>2, MovedOn
    <3>2. CASE m # l
      BY <1>2, <2>1, <3>2
    <3> QED
      BY <3>1, <3>2
  <2> QED
    BY <2>1, <2>2
<1>4. SigningTypeOK'
  <2>1. signer' \in [Links -> Signers]
    BY <1>3 DEF TakeOver, SigningTypeOK
  <2>2. taken' \in [Links -> Nat]
    BY <1>2, <1>3 DEF TakeOver, SigningTypeOK
  <2> QED
    BY <1>1, <2>1, <2>2 DEF SigningTypeOK, Signers
<1>5. FramKeyInUse' <=> FramKeyInUse
  BY <1>1, <1>3 DEF FramKeyInUse
<1>6. KeysInPlace'
  BY <1>1, <1>3, <1>5 DEF KeysInPlace, Enabled
<1>7. \A m \in Links : signer'[m].ts >= signer[m].ts /\ signer[m].ts \in Nat
  BY <1>2, <1>3 DEF Signers
<1>8. SessionsNew'
  BY <1>1, <1>2, <1>3, <1>7 DEF SessionsNew, Signers
<1>9. ASSUME ~forgotten PROVE PastUse' /\ NearFram' /\ Covered'
  <2>1. PastUse /\ NearFram /\ Covered
    BY <1>9 DEF Remembered
  <2>2. \A m \in Links : Signs(m, fram.key)' <=> Signs(m, fram.key)
    BY <1>1, <1>3 DEF Signs
  <2>3. PastUse'
    BY <1>1, <1>2, <1>3, <1>7, <2>1, <2>2 DEF PastUse
  <2>4. NearFram'
    BY <1>1, <1>2, <1>3, <1>7, <2>1, <2>2 DEF NearFram
  <2>5. Covered'
    BY <1>1, <1>5, <2>1 DEF Covered, Margin
  <2> QED
    BY <2>3, <2>4, <2>5
<1> QED
  BY <1>1, <1>4, <1>6, <1>8, <1>9 DEF Remembered

(* SETUP_SIGNING starts over, with a key no disabled link has.             *)
LEMMA SetupInv ==
  ASSUME SigningInv, NEW k \in SetupKeys \cup {ZeroKey}, SetupSigning(k, 0)
  PROVE  SigningInv'
<1> USE DEF SigningInv
<1>1. /\ fram' = [magic |-> TRUE, key |-> k, ts |-> 0]
      /\ saved' = FALSE /\ forgotten' = FALSE /\ taken' \in [Links -> Nat]
      /\ UNCHANGED <<armed, sinceSave, ticks, boots>>
  BY DEF SetupSigning, NoneTaken
<1>2. k \in Keys /\ k \notin SessionKeys /\ SigningDisabled \subseteq Links
  BY SigningAssumption DEF Keys
<1>3. /\ used' \in [Keys -> [Links -> Nat \cup {-1}]]
      /\ \A l \in Links : used'[k][l] = -1
      /\ \A l \in Links, q \in Keys : q # k => used'[q][l] = used[q][l]
  BY <1>2 DEF SetupSigning, SigningTypeOK
<1>4. \A l \in Links : signer'[l] = Loaded(l, fram')
  BY DEF SetupSigning
<1>5. \A l \in Links : IF l \in SigningDisabled THEN signer'[l] = signer[l]
                       ELSE signer'[l] = [on |-> ~(k = ZeroKey /\ 0 = 0), key |-> k, ts |-> 0 + Margin]
  BY <1>1, <1>4 DEF Loaded
<1>6. ASSUME NEW l \in Links PROVE signer'[l] \in Signers
  <2>1. CASE l \in SigningDisabled
    BY <1>5, <2>1 DEF Signers, SigningTypeOK
  <2>2. CASE l \notin SigningDisabled
    <3> DEFINE on == ~(k = ZeroKey /\ 0 = 0)
    <3>1. on \in BOOLEAN /\ 0 + Margin \in Nat
      BY MarginCovers
    <3>2. signer'[l] = [on |-> on, key |-> k, ts |-> 0 + Margin]
      BY <1>5, <2>2
    <3> HIDE DEF on
    <3> QED
      BY <1>2, <3>1, <3>2 DEF Signers
  <2> QED
    BY <2>1, <2>2
<1>7. SigningTypeOK'
  <2>1. signer' \in [Links -> Signers]
    BY <1>6 DEF SetupSigning
  <2>2. fram' \in [magic : BOOLEAN, key : Keys, ts : Nat]
    BY <1>1, <1>2
  <2> QED
    BY <1>1, <1>3, <2>1, <2>2 DEF SigningTypeOK, Signers
<1>8. \A l \in SigningDisabled :
        signer[l].on => signer[l].key \in SessionKeys /\ signer[l].key # k
  BY <1>2 DEF KeysInPlace, Enabled
<1>9. KeysInPlace'
  BY <1>1, <1>2, <1>3, <1>5, <1>8 DEF KeysInPlace, Enabled
<1>10. SessionsNew'
  <2> SUFFICES ASSUME NEW l \in Links, signer'[l].on, signer'[l].key \in SessionKeys
               PROVE  signer'[l].ts > used'[signer'[l].key][l]
    BY DEF SessionsNew
  <2>1. l \in SigningDisabled /\ signer'[l] = signer[l] /\ signer[l].key \in Keys
    BY <1>2, <1>5 DEF SigningTypeOK, Signers
  <2> QED
    BY <1>2, <1>3, <2>1 DEF SessionsNew
<1>11. PastUse'
  BY <1>1, <1>2, <1>3, <1>5, <1>8, MarginCovers DEF PastUse, Signs
<1>12. NearFram' /\ Covered'
  BY <1>1, <1>2, <1>3, MarginCovers DEF NearFram, Covered, Margin
<1> QED
  BY <1>7, <1>9, <1>10, <1>11, <1>12 DEF Remembered

(* A handshake's key replaces the FRAM's key on every link.                *)
LEMMA EnableInv ==
  ASSUME SigningInv, NEW k \in SessionKeys, EnableSigningWithKey(k)
  PROVE  SigningInv'
<1> USE DEF SigningInv
<1>1. /\ Forget /\ saved' = FALSE /\ taken' \in [Links -> Nat]
      /\ UNCHANGED <<fram, armed, sinceSave, ticks, boots, used>>
      /\ \A l \in Links : used[k][l] = -1
      /\ \A l \in Links : signer'[l] = [on |-> TRUE, key |-> k, ts |-> Margin]
      /\ forgotten' \in BOOLEAN
  BY DEF EnableSigningWithKey, Forget, SigningTypeOK, NoneTaken
<1>2. k \in Keys /\ k # fram.key
  BY DEF Keys, KeysInPlace
<1>3. SigningTypeOK'
  <2>1. signer' \in [Links -> Signers]
    BY <1>2, MarginCovers DEF EnableSigningWithKey, Signers
  <2> QED
    BY <1>1, <2>1 DEF SigningTypeOK, Signers
<1>4. KeysInPlace'
  BY <1>1, <1>2 DEF KeysInPlace, Enabled
<1>5. SessionsNew'
  BY <1>1, MarginCovers DEF SessionsNew
<1>6. PastUse' /\ NearFram'
  BY <1>1, <1>2 DEF PastUse, NearFram, Signs
<1>7. ~forgotten' => Covered'
  BY <1>1, MinuteCovers DEF Covered, Margin
<1> QED
  BY <1>3, <1>4, <1>5, <1>6, <1>7 DEF Remembered

(* A restart loads the FRAM's key, a minute on, on every enabled link.     *)
LEMMA RestartInv ==
  ASSUME SigningInv, Restart
  PROVE  SigningInv'
<1> USE DEF SigningInv
<1>1. /\ Forget /\ saved' = FALSE /\ forgotten' \in BOOLEAN /\ taken' \in [Links -> Nat]
      /\ boots' = boots + 1 /\ boots < MaxBoots /\ armed' = FALSE /\ sinceSave' = 0
      /\ UNCHANGED <<fram, ticks, used>>
  BY DEF Restart, Forget, SigningTypeOK, NoneTaken
<1>2. \A l \in Links :
        IF l \in SigningDisabled \/ ~fram.magic THEN signer'[l] = Off
        ELSE /\ signer'[l].key = fram.key /\ signer'[l].ts = fram.ts + Margin
             /\ signer'[l].on = ~(fram.key = ZeroKey /\ fram.ts = 0)
             /\ signer'[l] \in Signers
  BY MarginCovers DEF Restart, Loaded, Signers, SigningTypeOK
<1>3. Off \in Signers
  BY DEF Off, Signers, Keys
<1>4. SigningTypeOK'
  <2>1. signer' \in [Links -> Signers]
    BY <1>2, <1>3 DEF Restart
  <2>2. boots' \in 0..MaxBoots /\ sinceSave' \in 0..(SavePeriod + HeartbeatPeriod)
    BY <1>1, MarginCovers, SigningAssumption DEF SigningTypeOK
  <2> QED
    BY <1>1, <2>1, <2>2 DEF SigningTypeOK, Signers
<1>5. KeysInPlace'
  BY <1>1, <1>2 DEF KeysInPlace, Enabled, Off
<1>6. SessionsNew'
  BY <1>1, <1>2 DEF SessionsNew, KeysInPlace, Off
<1>7. ~forgotten' => PastUse'
  BY <1>1, <1>2, MinuteCovers DEF PastUse, Signs, Off
<1>8. NearFram'
  BY <1>1 DEF NearFram
<1>9. ~forgotten' => Covered'
  BY <1>1, MinuteCovers DEF Covered, Margin
<1> QED
  BY <1>4, <1>5, <1>6, <1>7, <1>8, <1>9 DEF Remembered

(* A save, with timestamps the GPS may just have raised.                   *)
LEMMA SaveInv ==
  ASSUME SigningInv, signer' \in [Links -> Signers], SaveTimestamp(signer'),
         \A l \in Links : /\ signer'[l].on = signer[l].on
                         /\ signer'[l].key = signer[l].key
                         /\ signer'[l].ts >= signer[l].ts,
         UNCHANGED <<armed, ticks, boots, used, forgotten>>
  PROVE  SigningInv'
<1> USE DEF SigningInv
<1>1. PICK t \in Newest(signer') :
        fram' = IF fram.magic THEN [fram EXCEPT !.ts = t] ELSE fram
  BY DEF SaveTimestamp
<1>2. /\ sinceSave' = 0 /\ taken' = [m \in Links |-> 0]
      /\ saved' = (saved \/ (fram.magic /\ FramKeyInUse))
      /\ saved' \in BOOLEAN
  BY DEF SaveTimestamp, NoneTaken
<1>3. /\ \A l \in Links : signer'[l].ts \in Nat /\ signer[l].ts \in Nat
      /\ fram.ts \in Nat /\ fram.key \in Keys
      /\ \A l \in Links, k \in Keys : used[k][l] \in Nat \cup {-1}
  BY DEF Signers, SigningTypeOK
<1>4. /\ t \in Nat /\ fram.ts <= t
      /\ \A l \in Links : signer'[l].on => signer'[l].ts <= t
  BY <1>1, <1>3 DEF Newest, Timestamps
<1>5. /\ fram' \in [magic : BOOLEAN, key : Keys, ts : Nat]
      /\ fram'.magic = fram.magic /\ fram'.key = fram.key
      /\ fram'.ts = IF fram.magic THEN t ELSE fram.ts
  BY <1>1, <1>4 DEF SigningTypeOK
<1>6. SigningTypeOK'
  BY <1>2, <1>5, MarginCovers DEF SigningTypeOK, Signers
<1>7. FramKeyInUse' <=> FramKeyInUse
  BY <1>5 DEF FramKeyInUse
<1>8. KeysInPlace'
  <2>1. saved' => fram'.magic /\ FramKeyInUse'
    BY <1>2, <1>5, <1>7 DEF KeysInPlace
  <2> QED
    BY <1>5, <2>1 DEF KeysInPlace, Enabled
<1>9. SessionsNew'
  <2> SUFFICES ASSUME NEW l \in Links, signer'[l].on, signer'[l].key \in SessionKeys
               PROVE  signer'[l].ts > used[signer'[l].key][l]
    BY DEF SessionsNew
  <2>1. signer[l].ts > used[signer[l].key][l] /\ signer[l].key \in Keys
    BY DEF SessionsNew, SigningTypeOK, Signers
  <2> QED
    BY <1>3, <2>1
<1>10. ASSUME ~forgotten PROVE PastUse' /\ NearFram' /\ Covered'
  <2>1. PastUse /\ NearFram /\ Covered
    BY <1>10 DEF Remembered
  <2>2. \A l \in Links : /\ Signs(l, fram.key)' <=> Signs(l, fram.key)
                         /\ Signs(l, fram.key) => used[fram.key][l] < signer'[l].ts
    BY <1>3, <1>5, <2>1 DEF Signs, PastUse
  <2>3. PastUse'
    BY <1>5, <2>2 DEF PastUse, Signs
  <2>4. ASSUME saved', NEW l \in Links
        PROVE  Signs(l, fram.key) => signer'[l].ts <= fram'.ts + 0
    <3>1. fram.magic /\ FramKeyInUse /\ fram'.ts = t
      BY <1>2, <1>5, <2>4 DEF KeysInPlace
    <3> QED
      BY <1>3, <1>4, <3>1 DEF Signs
  <2>5. NearFram'
    BY <1>2, <1>5, <2>2, <2>4 DEF NearFram
  <2>6. Covered'
    <3>1. ~saved' /\ ~FramKeyInUse' => \A l \in Links : used[fram.key][l] < fram.ts + Margin
      BY <1>2, <1>7, <2>1 DEF Covered
    <3>2. fram'.ts \in Nat /\ fram.ts <= fram'.ts
      BY <1>3, <1>4, <1>5
    <3>3. \A l \in Links : used[fram.key][l] < fram.ts + Margin
                            => used[fram.key][l] < fram'.ts + Margin
      BY <1>3, <3>2, MarginCovers
    <3>4. Margin' = Margin
      BY DEF Margin
    <3> QED
      BY <1>5, <3>1, <3>3, <3>4 DEF Covered
  <2> QED
    BY <2>3, <2>5, <2>6
<1> QED
  BY <1>6, <1>8, <1>9, <1>10 DEF Remembered

LEMMA SigningInvStep ==
  ASSUME SigningInv, [SigningNext]_signingVars
  PROVE  SigningInv'
<1>1. ASSUME NEW busy \in SUBSET Links, Tick(busy)
      PROVE  SigningInv'
  BY <1>1, TickInv
<1>2. ASSUME NEW k \in SetupKeys \cup {ZeroKey}, NEW t \in {0}, SetupSigning(k, t)
      PROVE  SigningInv'
  BY <1>2, SetupInv
<1>3. ASSUME NEW k \in SessionKeys, EnableSigningWithKey(k)
      PROVE  SigningInv'
  BY <1>3, EnableInv
<1>4. CASE HeartbeatSave
  <2>1. signer' = signer /\ signer \in [Links -> Signers]
    BY <1>4 DEF HeartbeatSave, SigningInv, SigningTypeOK, Signers
  <2>2. \A l \in Links : signer[l].ts >= signer[l].ts
    BY <2>1 DEF Signers
  <2>3. SaveTimestamp(signer')
    BY <1>4, <2>1 DEF HeartbeatSave
  <2> QED
    BY <1>4, <2>1, <2>2, <2>3, SaveInv DEF HeartbeatSave
<1>5. CASE GpsTime(GpsStart + ticks)
  <2> DEFINE t == GpsStart + ticks
  <2>1. t \in Nat /\ \A l \in Links : signer[l] \in Signers
    BY SigningAssumption DEF SigningInv, SigningTypeOK, Signers
  <2> HIDE DEF t
  <2>2. /\ signer' = [l \in Links |->
              IF signer[l].on /\ signer[l].ts < t
              THEN [signer[l] EXCEPT !.ts = t] ELSE signer[l]]
        /\ SaveTimestamp(signer')
        /\ UNCHANGED <<armed, ticks, boots, used, forgotten>>
    BY <1>5 DEF GpsTime, t
  <2>3. /\ signer' \in [Links -> Signers]
        /\ \A l \in Links : /\ signer'[l].on = signer[l].on
                             /\ signer'[l].key = signer[l].key
                             /\ signer'[l].ts >= signer[l].ts
    BY <2>1, <2>2 DEF Signers
  <2> QED
    BY <2>2, <2>3, SaveInv
<1>6. CASE Restart
  BY <1>6, RestartInv
<1>7. CASE SetArmed \/ UNCHANGED signingVars
  <2>1. UNCHANGED <<fram, signer, sinceSave, ticks, boots, taken, used, saved, forgotten>>
    BY <1>7 DEF SetArmed, signingVars
  <2>2. armed' \in BOOLEAN
    BY <1>7 DEF SetArmed, signingVars, SigningInv, SigningTypeOK
  <2>3. SigningTypeOK'
    BY <2>1, <2>2 DEF SigningInv, SigningTypeOK
  <2>4. FramKeyInUse' <=> FramKeyInUse
    BY <2>1 DEF FramKeyInUse
  <2>5. KeysInPlace' /\ SessionsNew'
    BY <2>1, <2>4 DEF SigningInv, KeysInPlace, SessionsNew
  <2>6. (PastUse' <=> PastUse) /\ (NearFram' <=> NearFram) /\ (Covered' <=> Covered)
    BY <2>1, <2>4 DEF PastUse, NearFram, Covered, Signs, Margin
  <2> QED
    BY <2>1, <2>3, <2>5, <2>6 DEF SigningInv, Remembered
<1>8. ASSUME NEW l \in Links, NEW lead \in Leads, TakeOver(l, lead)
      PROVE  SigningInv'
  BY <1>8, TakeOverInv
<1> QED
  BY <1>1, <1>2, <1>3, <1>4, <1>5, <1>6, <1>7, <1>8 DEF SigningNext

(* The inductive invariant of signing: the keys links hold, and how the    *)
(* timestamp in memory and the one in FRAM bound every one used so far.    *)
THEOREM SigningInvariant == SigningSpec => []SigningInv
<1>1. SigningInv /\ [SigningNext]_signingVars => SigningInv'
  BY SigningInvStep
<1> QED
  BY SigningInvInit, <1>1, PTL DEF SigningSpec

(* No link signs twice with one timestamp under one key, through any       *)
(* number of restarts, handshakes, GPS updates and timestamps of peers,    *)
(* unless the key in FRAM left memory before the first save of a boot that *)
(* signed with it, or with more taken over from a peer since the last save *)
(* than the minute leaves after the time gone by.                          *)
THEOREM TimestampsAreNew == SigningSpec => []NoTimestampTwice
<1>1. SigningInv => NoTimestampTwice
  BY InvImpliesNew
<1> QED
  BY <1>1, SigningInvariant, PTL

-----------------------------------------------------------------------------
(* ReplayWindow, for every width, every end of the counter and any number  *)
(* of epochs: its bitmap is exact, it is the ideal filter, and no nonce is *)
(* handed out twice.                                                       *)

USE ReplaySizesAssumption

(* Types: the counter handed out never passes its last value.              *)
LEMMA WindowTypeInit == ReplayInit => WindowTypeOK
<1> SUFFICES ASSUME ReplayInit PROVE WindowTypeOK
  OBVIOUS
<1>1. 0 \in Counters /\ 0 \in Epochs
  BY DEF Counters, Epochs
<1>2. sender \in [epoch : Epochs, next : Counters, exhausted : BOOLEAN]
  BY <1>1 DEF ReplayInit, SenderCtx
<1>3. window \in [epoch : Epochs, highest : Counters, seen : SUBSET Bits,
                  initialized : BOOLEAN]
  BY <1>1 DEF ReplayInit, EmptyWindow
<1> QED
  BY <1>2, <1>3 DEF ReplayInit, WindowTypeOK

LEMMA WindowTypeStep ==
  ASSUME WindowTypeOK, [ReplayNext]_replayVars
  PROVE  WindowTypeOK'
<1> USE DEF WindowTypeOK, Packet
<1>1. CASE SenderNext
  <2>1. sender' \in [epoch : Epochs, next : Counters, exhausted : BOOLEAN]
    <3>1. sender.next # MaxCounter => sender.next + 1 \in Counters
      BY DEF Counters
    <3> QED
      BY <1>1, <3>1 DEF SenderNext, AfterNext
  <2>2. wire' \subseteq Packet
    BY <1>1 DEF SenderNext
  <2> QED
    BY <1>1, <2>1, <2>2 DEF SenderNext, windowVars
<1>2. CASE SenderRekey
  <2>1. sender.epoch + 1 \in Epochs /\ 0 \in Counters
    BY <1>2 DEF SenderRekey, Counters, Epochs
  <2>2. sender' \in [epoch : Epochs, next : Counters, exhausted : BOOLEAN]
    BY <1>2, <2>1 DEF SenderRekey, SenderCtx
  <2> QED
    BY <1>2, <2>2 DEF SenderRekey, windowVars
<1>3. CASE WindowRekey
  <2>1. window.epoch + 1 \in Epochs /\ 0 \in Counters
    BY <1>3 DEF WindowRekey, Counters, Epochs
  <2>2. window' \in [epoch : Epochs, highest : Counters, seen : SUBSET Bits,
                     initialized : BOOLEAN]
    BY <1>3, <2>1 DEF WindowRekey, EmptyWindow
  <2> QED
    BY <1>3, <2>2 DEF WindowRekey, senderVars
<1>4. CASE Receive
  <2>1. PICK p \in wire : p.epoch = window.epoch /\ Check(p.counter)
    BY <1>4 DEF Receive
  <2> DEFINE c == p.counter
  <2>2. c \in Counters
    OBVIOUS
  <2>3. Check(c)
    BY <2>1
  <2> HIDE DEF c
  <2>4. /\ window' \in [epoch : Epochs, highest : Counters, seen : SUBSET Bits,
                        initialized : BOOLEAN]
        /\ verdict' \in BOOLEAN
    <3>0. 0 \in Bits
      BY DEF Bits
    <3>1. CASE FirstSeen(c)
      BY <2>2, <3>0, <3>1 DEF FirstSeen
    <3>2. CASE Ahead(c)
      BY <2>2, <3>0, <3>2 DEF Ahead, ShiftLeft
    <3>3. CASE Refused(c)
      BY <2>2, <3>3 DEF Refused
    <3>4. CASE Reordered(c)
      <4>1. window.highest - c < Width => window.highest - c \in Bits
        BY <2>2, <3>4 DEF Reordered, Counters, Bits
      <4> QED
        BY <2>2, <3>4, <4>1 DEF Reordered, TooOld, Counters
    <3> QED
      BY <2>3, <3>1, <3>2, <3>3, <3>4 DEF Check
  <2> QED
    BY <2>2, <2>3, <2>4 DEF Check, senderVars
<1>5. CASE UNCHANGED replayVars
  BY <1>5 DEF replayVars
<1> QED
  BY <1>1, <1>2, <1>3, <1>4, <1>5 DEF ReplayNext

(* Every variable of sender, receiver and network holds a value of its     *)
(* kind; in particular next never passes MaxCounter.                       *)
THEOREM WindowTypeCorrect == ReplaySpec => []WindowTypeOK
<1>1. WindowTypeOK /\ [ReplayNext]_replayVars => WindowTypeOK'
  BY WindowTypeStep
<1> QED
  BY WindowTypeInit, <1>1, PTL DEF ReplaySpec

(* The bitmap.                                                             *)
LEMMA BitmapInit == ReplayInit => BitmapExact
BY DEF ReplayInit, BitmapExact, EmptyWindow

(* A shift moves every bit to where it stands for the same counter, and    *)
(* loses those that fall off the end.                                      *)
LEMMA AheadExact ==
  ASSUME WindowTypeOK, BitmapExact, NEW c \in Counters, Ahead(c),
         accepted' = accepted \cup {c}
  PROVE  BitmapExact'
<1> DEFINE shift == c - window.highest
<1>1. /\ window.initialized /\ c > window.highest
      /\ window.highest \in Counters /\ window.seen \subseteq Bits
      /\ window.initialized' /\ window'.highest = c
      /\ window'.seen = (IF shift >= Width THEN {} ELSE ShiftLeft(window.seen, shift))
                        \cup {0}
  BY DEF Ahead, WindowTypeOK
<1>2. \A a \in accepted : a \in Counters /\ a <= window.highest
  BY <1>1 DEF BitmapExact, WindowTypeOK
<1>3. ASSUME NEW b \in Bits
      PROVE  b \in window'.seen <=> c - b \in accepted'
  <2>1. CASE b = 0
    BY <1>1, <2>1 DEF Counters
  <2>2. CASE b # 0 /\ b < shift
    <3>1. c - b \notin accepted /\ c - b # c
      BY <1>1, <1>2, <2>2 DEF Counters, Bits
    <3>2. b \notin window'.seen
      BY <1>1, <2>2 DEF ShiftLeft, Counters, Bits
    <3> QED BY <3>1, <3>2
  <2>3. CASE b # 0 /\ b >= shift
    <3>1. /\ b - shift \in Bits
          /\ window.highest - (b - shift) = c - b
          /\ c - b # c /\ shift < Width
      BY <1>1, <2>3 DEF Counters, Bits
    <3>2. b \in window'.seen <=> b - shift \in window.seen
      <4>1. b \in window'.seen <=> b \in ShiftLeft(window.seen, shift)
        BY <1>1, <2>3, <3>1 DEF Counters
      <4>2. b \in ShiftLeft(window.seen, shift) <=> \E d \in window.seen : b = d + shift
        BY DEF ShiftLeft
      <4>3. \A d \in window.seen : b = d + shift <=> d = b - shift
        BY <1>1 DEF Counters, Bits
      <4> QED
        BY <4>1, <4>2, <4>3
    <3>3. b - shift \in window.seen <=> c - b \in accepted
      BY <1>1, <3>1 DEF BitmapExact
    <3> QED BY <3>1, <3>2, <3>3
  <2> QED
    BY <1>1, <2>1, <2>2, <2>3 DEF Counters, Bits
<1>4. \A a \in accepted' : a <= window'.highest
  BY <1>1, <1>2 DEF Counters
<1> QED
  BY <1>1, <1>3, <1>4 DEF BitmapExact

LEMMA CheckExact ==
  ASSUME WindowTypeOK, BitmapExact, NEW c \in Counters, Check(c)
  PROVE  BitmapExact'
<1> USE DEF Counters, Bits
<1>1. CASE FirstSeen(c)
  <2>1. /\ accepted = {} /\ accepted' = {c}
        /\ window'.initialized /\ window'.highest = c /\ window'.seen = {0}
    BY <1>1 DEF FirstSeen, Check, BitmapExact, WindowTypeOK
  <2>2. \A b \in Bits : b \in {0} <=> c - b \in {c}
    OBVIOUS
  <2> QED
    BY <2>1, <2>2 DEF BitmapExact
<1>2. CASE Ahead(c)
  BY <1>2, AheadExact DEF Check, Ahead
<1>3. CASE Refused(c)
  BY <1>3 DEF Refused, Check, BitmapExact
<1>4. CASE Reordered(c)
  <2> DEFINE diff == window.highest - c
  <2>1. /\ window.initialized /\ c <= window.highest /\ diff < Width
        /\ window.highest \in Counters
        /\ window'.initialized /\ window'.highest = window.highest
        /\ window'.seen = window.seen \cup {diff}
        /\ accepted' = accepted \cup {c}
    BY <1>4 DEF Reordered, TooOld, Check, WindowTypeOK
  <2>2. \A b \in Bits : b = diff <=> window.highest - b = c
    BY <2>1
  <2> QED
    BY <2>1, <2>2 DEF BitmapExact
<1> QED
  BY <1>1, <1>2, <1>3, <1>4 DEF Check

LEMMA BitmapStep ==
  ASSUME WindowTypeOK, BitmapExact, [ReplayNext]_replayVars
  PROVE  BitmapExact'
<1>1. CASE SenderNext \/ SenderRekey \/ UNCHANGED replayVars
  BY <1>1 DEF SenderNext, SenderRekey, replayVars, windowVars, BitmapExact
<1>2. CASE WindowRekey
  BY <1>2 DEF WindowRekey, EmptyWindow, BitmapExact
<1>3. CASE Receive
  <2>1. PICK p \in wire : Check(p.counter)
    BY <1>3 DEF Receive
  <2>2. p.counter \in Counters
    BY DEF WindowTypeOK, Packet
  <2> QED
    BY <2>1, <2>2, CheckExact
<1> QED
  BY <1>1, <1>2, <1>3 DEF ReplayNext

(* Bit b says, at every offset of the window, whether highest - b was let  *)
(* through.                                                                *)
THEOREM BitmapInvariant == ReplaySpec => []BitmapExact
<1>1. WindowTypeOK /\ BitmapExact /\ [ReplayNext]_replayVars => BitmapExact'
  BY BitmapStep
<1> QED
  BY BitmapInit, <1>1, WindowTypeCorrect, PTL DEF ReplaySpec

(* The answer of the four ways out is the answer of the ideal filter.      *)
LEMMA CheckPresents ==
  ASSUME WindowTypeOK, BitmapExact, NEW c \in Counters, Check(c)
  PROVE  Filter!Present(c)
<1> USE DEF Counters, Bits
<1>1. verdict' = (c \notin accepted /\ Filter!Recent(c))
  <2>0. accepted \subseteq Counters /\ window.highest \in Counters
    BY DEF WindowTypeOK
  <2>1. CASE FirstSeen(c)
    <3>1. accepted = {} /\ verdict' = TRUE
      BY <2>1 DEF FirstSeen, BitmapExact
    <3> QED
      BY <3>1 DEF Filter!Recent
  <2>2. window.initialized =>
          /\ window.highest \in accepted
          /\ \A a \in accepted : a <= window.highest
          /\ \A b \in Bits : b \in window.seen <=> window.highest - b \in accepted
    BY DEF BitmapExact
  <2>3. CASE Ahead(c)
    <3>1. verdict' = TRUE /\ window.initialized /\ c > window.highest
      BY <2>3 DEF Ahead
    <3>2. c \notin accepted /\ \A a \in accepted : a - c < Width
      BY <2>0, <2>2, <3>1
    <3> QED
      BY <3>1, <3>2 DEF Filter!Recent
  <2>4. CASE Refused(c)
    <3> DEFINE diff == window.highest - c
    <3>1. /\ verdict' = FALSE /\ window.initialized /\ c <= window.highest
          /\ diff >= Width \/ diff \in window.seen
      BY <2>4 DEF Refused, TooOld
    <3>2. CASE diff >= Width
      <4>1. ~Filter!Recent(c)
        BY <2>0, <2>2, <3>1, <3>2 DEF Filter!Recent
      <4> QED BY <3>1, <4>1
    <3>3. CASE diff \in window.seen
      <4>1. diff \in Bits /\ window.highest - diff = c
        BY <2>0, <2>2, <3>1, <3>3 DEF WindowTypeOK
      <4> QED BY <2>2, <3>1, <3>3, <4>1
    <3> QED BY <3>1, <3>2, <3>3
  <2>5. CASE Reordered(c)
    <3> DEFINE diff == window.highest - c
    <3>1. /\ verdict' = TRUE /\ window.initialized /\ c <= window.highest
          /\ diff < Width /\ diff \notin window.seen
      BY <2>5 DEF Reordered, TooOld, WindowTypeOK
    <3>2. diff \in Bits /\ window.highest - diff = c
      BY <2>0, <2>2, <3>1
    <3>3. c \notin accepted
      BY <2>2, <3>1, <3>2
    <3>4. \A a \in accepted : a - c < Width
      BY <2>0, <2>2, <3>1
    <3> QED BY <3>1, <3>3, <3>4 DEF Filter!Recent
  <2> QED
    BY <2>1, <2>3, <2>4, <2>5 DEF Check
<1> QED
  BY <1>1 DEF Check, Filter!Present

LEMMA FilterStep ==
  ASSUME WindowTypeOK, BitmapExact, [ReplayNext]_replayVars
  PROVE  [Filter!FilterNext]_(Filter!filterVars)
<1>1. CASE SenderNext \/ SenderRekey \/ UNCHANGED replayVars
  BY <1>1 DEF SenderNext, SenderRekey, replayVars, windowVars, Filter!filterVars
<1>2. CASE WindowRekey
  BY <1>2 DEF WindowRekey, Filter!FilterNext, Filter!NewKey
<1>3. CASE Receive
  <2>1. PICK p \in wire : Check(p.counter)
    BY <1>3 DEF Receive
  <2>2. p.counter \in Counters
    BY DEF WindowTypeOK, Packet
  <2>3. Filter!Present(p.counter)
    BY <2>1, <2>2, CheckPresents
  <2> QED
    BY <2>2, <2>3 DEF Filter!FilterNext, Counters
<1> QED
  BY <1>1, <1>2, <1>3 DEF ReplayNext

(* The 64-bit shifting window lets through what the ideal filter does: no  *)
(* counter twice, and every new one less than Width below the largest.     *)
THEOREM WindowImplementsFilter == ReplaySpec => WindowIsFilter
<1>1. ReplayInit => Filter!FilterInit
  BY DEF ReplayInit, Filter!FilterInit
<1>2. WindowTypeOK /\ BitmapExact /\ [ReplayNext]_replayVars
        => [Filter!FilterNext]_(Filter!filterVars)
  BY FilterStep
<1> QED
  BY <1>1, <1>2, WindowTypeCorrect, BitmapInvariant, PTL
  DEF ReplaySpec, WindowIsFilter, Filter!FilterSpec

(* Nonces.  What is on the wire of this epoch lies below next, or the      *)
(* context is closed.                                                      *)
WireBelowNext ==
    \A p \in wire : /\ p.epoch <= sender.epoch
                    /\ p.epoch = sender.epoch => p.counter < sender.next \/ sender.exhausted

NonceInv == WireBelowNext /\ IsFiniteSet(wire) /\ NoncesUnique

LEMMA NonceInit == ReplayInit => NonceInv
BY FS_EmptySet DEF ReplayInit, NonceInv, WireBelowNext, NoncesUnique

LEMMA NonceStep ==
  ASSUME WindowTypeOK, NonceInv, [ReplayNext]_replayVars
  PROVE  NonceInv'
<1> USE DEF WindowTypeOK, Counters, Epochs, Packet
<1>1. CASE SenderNext
  <2> DEFINE p == [epoch |-> sender.epoch, counter |-> sender.next]
  <2>1. p \notin wire
    BY <1>1 DEF SenderNext, NonceInv, WireBelowNext
  <2>2. IsFiniteSet(wire') /\ Cardinality(wire') = Cardinality(wire) + 1
    BY <1>1, <2>1, FS_AddElement DEF SenderNext, NonceInv
  <2>3. WireBelowNext'
    BY <1>1 DEF SenderNext, AfterNext, NonceInv, WireBelowNext
  <2> QED
    BY <1>1, <2>2, <2>3 DEF SenderNext, NonceInv, NoncesUnique
<1>2. CASE SenderRekey
  BY <1>2 DEF SenderRekey, SenderCtx, NonceInv, WireBelowNext, NoncesUnique
<1>3. CASE WindowRekey \/ Receive \/ UNCHANGED replayVars
  <2>1. UNCHANGED senderVars
    BY <1>3 DEF WindowRekey, Receive, Check, replayVars, senderVars
  <2> QED
    BY <2>1 DEF senderVars, NonceInv, WireBelowNext, NoncesUnique
<1> QED
  BY <1>1, <1>2, <1>3 DEF ReplayNext

(* A (direction, epoch, counter) is handed out once: the number of         *)
(* different packets is the number of calls, also past the end of the      *)
(* counter and across new keys.                                            *)
THEOREM NoncesAreUnique == ReplaySpec => []NoncesUnique
<1>1. WindowTypeOK /\ NonceInv /\ [ReplayNext]_replayVars => NonceInv'
  BY NonceStep
<1>2. NonceInv => NoncesUnique
  BY DEF NonceInv
<1> QED
  BY NonceInit, <1>1, <1>2, WindowTypeCorrect, PTL DEF ReplaySpec

-----------------------------------------------------------------------------
(* The four together.                                                      *)

LEMMA KemTypeInit == KemInit => KemTypeOK
<1> SUFFICES ASSUME KemInit PROVE KemTypeOK
  OBVIOUS
<1>1. buffer \in [Part -> {"stale", "random", "zero"}]
  BY DEF KemInit, Stale
<1>2. op.draws \in 0..3
  BY DEF KemInit, NoOp
<1> QED
  BY <1>1, <1>2 DEF KemInit, KemTypeOK

LEMMA KemTypeStep ==
  ASSUME KemInv, KemTypeOK, [KemNext]_kemVars
  PROVE  KemTypeOK'
<1>1. op'.draws \in 0..3 /\ source' \in {"idle", "getrandom", "urandom"}
  BY KemInvStep DEF KemInv
<1>2. buffer' \in [Part -> {"stale", "random", "zero"}]
  BY DEF KemTypeOK, KemNext, KemCall, KemDraw, KemGets, KemFallsBack, KemFails, KemReturns,
         kemVars, Stale
<1>3. failed' \in BOOLEAN /\ weak' \in BOOLEAN /\ result' \in {"none", "true", "false"}
  BY DEF KemTypeOK, KemNext, KemCall, KemDraw, KemGets, KemFallsBack, KemFails, KemReturns,
         kemVars
<1> QED
  BY <1>1, <1>2, <1>3 DEF KemTypeOK

(* A behaviour of the four is a behaviour of each.                         *)
LEMMA EachStepsAlone ==
  [Next]_vars => /\ [SigningNext]_signingVars /\ [PdkNext]_pdkVars
                 /\ [KemNext]_kemVars /\ [ReplayNext]_replayVars
BY DEF Next, vars

(* Every field holds a value of its kind in all four, however they run:    *)
(* the timestamps, the inodes and the lengths written, the draws to come,  *)
(* and the nonce counter, which never passes its last value.               *)
THEOREM KeysTyped == Spec => []KeysTypeOK
<1> DEFINE Inv == SigningInv /\ PdkInv /\ KemInv /\ KemTypeOK /\ WindowTypeOK
<1>1. Init => Inv
  BY SigningInvInit, PdkInvInit, KemInvInit, KemTypeInit, WindowTypeInit DEF Init
<1>2. Inv /\ [Next]_vars => Inv'
  BY EachStepsAlone, SigningInvStep, PdkInvStep, KemInvStep, KemTypeStep, WindowTypeStep
<1>3. Inv => KeysTypeOK
  BY DEF KeysTypeOK, SigningInv, PdkInv, PdkTypeInv, PdkTypeOK, Directories, Files
<1> QED
  BY <1>1, <1>2, <1>3, PTL DEF Spec
=============================================================================
