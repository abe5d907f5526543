----------------------------- MODULE FtpProofs -----------------------------
(***************************************************************************)
(* The file transfer server for any clients, files, slots, time-outs and   *)
(* requests: every reply is about the replying client's own file, and a    *)
(* repeated request is not executed again.                                 *)
(***************************************************************************)
EXTENDS Ftp, OrderLemmas, SequenceTheorems

Names == Files \cup Dirs \cup {NoFile}

AnyRequests ==
    [client : Clients \cup {NoClient}, id : Ids \cup {0}, seq : Int, op : FtpOps,
     file : Names, to : Names]

Requests ==
    {r \in AnyRequests : /\ r.client \in Clients /\ r.id \in Ids
                         /\ r.file \in Paths(r.op) /\ r.to \in Targets(r.op)}

Sessions ==
    [client : Clients \cup {NoClient}, id : Ids \cup {0}, fd : Fds \cup {NoFd},
     mode : {"read", "write"}, age : Free..(KillTimeout + 1)]

Descriptors == [Fds -> Files \cup {NoFile}]

Errors == {"none", "FileNotFound", "Fail", "FileExists", "EndOfFile", "NoSessionsAvailable"}

Replies ==
    [client : Clients \cup {NoClient}, id : Ids \cup {0}, seq : Int, op : FtpOps,
     err : Errors, path : Names, file : Files \cup {NoFile}]

FtpShape ==
    /\ requests \in Seq(Requests) /\ Len(requests) <= MaxSessions
    /\ sessions \in [Slots -> Sessions]
    /\ openFds \in Descriptors
    /\ exists \in SUBSET (Files \cup Dirs)
    /\ reply \in Replies
    /\ pushing \in {0} \cup Slots
    /\ asked \in [Clients -> AnyRequests]
    /\ heard \in [Clients -> BOOLEAN]
    /\ \A c \in Clients : ~heard[c] => asked[c] \in Requests
    /\ opened \in [Clients -> [Ids -> Files \cup {NoFile}]]

(* A client's session is in one slot, a descriptor in one session, and the *)
(* file behind it is the one that client opened last in it.                *)
SameKey(s, t) == s.client = t.client /\ s.id = t.id

OneSlot ==
    \A i, j \in Slots : i # j /\ SameKey(sessions[i], sessions[j]) => sessions[i].client = NoClient

OneDescriptor ==
    \A i, j \in Slots : i # j /\ sessions[i].fd = sessions[j].fd => sessions[i].fd = NoFd

HasOwnFile(s, fds, files) ==
    s.fd # NoFd =>
       /\ s.client \in Clients /\ s.id \in Ids
       /\ fds[s.fd] # NoFile /\ fds[s.fd] = files[s.client][s.id]

SlotsOwn == \A i \in Slots : HasOwnFile(sessions[i], openFds, opened)

FtpInv == FtpShape /\ OneSlot /\ OneDescriptor /\ SlotsOwn /\ OwnFile

LEMMA FtpInvInit == FtpInit => FtpInv
<1> SUFFICES ASSUME FtpInit PROVE FtpInv
  OBVIOUS
<1>1. Free \in Free..(KillTimeout + 1) /\ MaxSessions \in Nat /\ 0 <= MaxSessions
  BY FtpAssumption DEF Free
<1>2. FtpShape
  BY <1>1 DEF FtpInit, FtpShape, Sessions, Descriptors, Replies, AnyRequests, Errors, Names,
              NoRequest, FtpOps
<1> QED
  BY <1>2 DEF FtpInit, FtpInv, OneSlot, OneDescriptor, SlotsOwn, HasOwnFile, OwnFile, SameKey

----------------------------------------------------------------------------
(* The session written by a request is the only one whose key, descriptor  *)
(* and file change.                                                        *)
LEMMA SlotWritten ==
  ASSUME FtpShape, OneSlot, OneDescriptor, SlotsOwn, NEW i \in Slots, NEW s \in Sessions,
         sessions' = [sessions EXCEPT ![i] = s],
         s.client \in Clients, s.id \in Ids,
         \A j \in Slots \ {i} : ~SameKey(sessions[j], s),
         \A j \in Slots \ {i} : /\ sessions[j].fd # NoFd => sessions[j].fd # s.fd
                                /\ openFds'[sessions[j].fd] = openFds[sessions[j].fd]
                                     \/ sessions[j].fd = NoFd,
         HasOwnFile(s, openFds', opened'),
         \A c \in Clients, n \in Ids :
            c # s.client \/ n # s.id => opened'[c][n] = opened[c][n]
  PROVE  (OneSlot /\ OneDescriptor /\ SlotsOwn)' /\ sessions' \in [Slots -> Sessions]
<1>1. /\ sessions'[i] = s /\ sessions' \in [Slots -> Sessions]
      /\ \A j \in Slots \ {i} : sessions'[j] = sessions[j]
  BY DEF FtpShape
<1>2. NoClient \notin Clients
  BY FtpAssumption
<1>3. OneSlot'
  BY <1>1, <1>2 DEF OneSlot, SameKey
<1>4. OneDescriptor'
  BY <1>1 DEF OneDescriptor
<1>5. ASSUME NEW j \in Slots \ {i}
      PROVE  HasOwnFile(sessions[j], openFds', opened')
  BY <1>5 DEF SlotsOwn, HasOwnFile, SameKey
<1>6. SlotsOwn'
  BY <1>1, <1>5 DEF SlotsOwn
<1> QED BY <1>1, <1>3, <1>4, <1>6

(* Sessions shut, as by a reset or because they died: their descriptors    *)
(* are closed and nobody else's.                                           *)
LEMMA ShutTyped ==
  ASSUME NEW s \in Sessions
  PROVE  /\ Shut(s) \in Sessions /\ Shut(s).fd = NoFd /\ SameKey(Shut(s), s)
         /\ Shut(s).mode = s.mode
<1>1. Free \in Free..(KillTimeout + 1) /\ NoFd \in Fds \cup {NoFd}
  BY FtpAssumption DEF Free
<1>2. /\ Shut(s).client = s.client /\ Shut(s).id = s.id /\ Shut(s).mode = s.mode
      /\ Shut(s).fd = NoFd
  BY DEF Shut, Sessions
<1>3. Shut(s) \in Sessions
  BY <1>1 DEF Shut, Sessions
<1> QED BY <1>2, <1>3 DEF SameKey

LEMMA SlotsShut ==
  ASSUME FtpShape, OneSlot, OneDescriptor, SlotsOwn, NEW D \in SUBSET Slots,
         sessions' = [i \in Slots |-> IF i \in D THEN Shut(sessions[i]) ELSE sessions[i]],
         openFds' = [d \in Fds |->
                       IF \E i \in D : sessions[i].fd = d THEN NoFile ELSE openFds[d]],
         \A i \in Slots \ D : sessions[i].fd # NoFd =>
            opened'[sessions[i].client] = opened[sessions[i].client]
  PROVE  /\ (OneSlot /\ OneDescriptor /\ SlotsOwn)'
         /\ sessions' \in [Slots -> Sessions] /\ openFds' \in Descriptors
<1>1. ASSUME NEW i \in Slots
      PROVE  /\ sessions[i] \in Sessions /\ sessions'[i] \in Sessions
             /\ SameKey(sessions'[i], sessions[i])
             /\ sessions'[i].fd = IF i \in D THEN NoFd ELSE sessions[i].fd
  <2>1. sessions[i] \in Sessions
    BY DEF FtpShape
  <2> QED BY <2>1, ShutTyped DEF SameKey
<1>2. sessions' \in [Slots -> Sessions] /\ openFds' \in Descriptors
  BY <1>1 DEF FtpShape, Descriptors
<1>3. OneSlot'
  BY <1>1 DEF OneSlot, SameKey
<1>4. OneDescriptor'
  BY <1>1 DEF OneDescriptor
<1>5. ASSUME NEW i \in Slots
      PROVE  HasOwnFile(sessions'[i], openFds', opened')
  <2>1. CASE i \in D
    BY <1>1, <2>1 DEF HasOwnFile
  <2>2. CASE i \notin D /\ sessions[i].fd # NoFd
    <3>1. sessions[i].fd \in Fds /\ ~\E j \in D : sessions[j].fd = sessions[i].fd
      BY <1>1, <2>2 DEF OneDescriptor, Sessions
    <3>2. openFds'[sessions[i].fd] = openFds[sessions[i].fd] /\ sessions'[i] = sessions[i]
      BY <2>2, <3>1
    <3>3. HasOwnFile(sessions[i], openFds, opened)
      BY DEF SlotsOwn
    <3> QED BY <2>2, <3>2, <3>3 DEF HasOwnFile
  <2>3. CASE i \notin D /\ sessions[i].fd = NoFd
    BY <1>1, <2>3 DEF HasOwnFile
  <2> QED BY <2>1, <2>2, <2>3
<1>6. SlotsOwn'
  BY <1>5 DEF SlotsOwn
<1> QED BY <1>2, <1>3, <1>4, <1>6

----------------------------------------------------------------------------
(* What a request works on, session s of slot i and the descriptors fds:   *)
(* what the other slots' sessions have open is not touched.                *)
Works(i, r, s, fds) ==
    /\ s \in Sessions /\ fds \in Descriptors
    /\ SameKey(s, r)
    /\ \A j \in Slots \ {i} : sessions[j].fd # NoFd =>
          sessions[j].fd # s.fd /\ fds[sessions[j].fd] = openFds[sessions[j].fd]

LEMMA CloseWorks ==
  ASSUME FtpShape, NEW i \in Slots, NEW r, NEW w, Works(i, r, w.s, w.fds)
  PROVE  /\ Works(i, r, Close(w).s, Close(w).fds) /\ Close(w).s.fd = NoFd
         /\ Close(w).s.mode = w.s.mode
<1>1. /\ w.s \in Sessions /\ w.fds \in Descriptors /\ SameKey(w.s, r)
      /\ w.s.fd \in Fds \cup {NoFd}
      /\ \A j \in Slots \ {i} : sessions[j].fd # NoFd =>
            sessions[j].fd # w.s.fd /\ w.fds[sessions[j].fd] = openFds[sessions[j].fd]
  BY DEF Works, Sessions
<1>2. /\ Close(w).s = Shut(w.s)
      /\ Close(w).fds = IF w.s.fd = NoFd THEN w.fds ELSE [w.fds EXCEPT ![w.s.fd] = NoFile]
  BY DEF Close
<1>3. /\ Shut(w.s) \in Sessions /\ Shut(w.s).fd = NoFd /\ SameKey(Shut(w.s), w.s)
      /\ Shut(w.s).mode = w.s.mode
  BY <1>1, ShutTyped
<1>4. /\ Close(w).fds \in Descriptors
      /\ \A d \in Fds : d # w.s.fd => Close(w).fds[d] = w.fds[d]
  BY <1>1, <1>2 DEF Descriptors
<1>5. \A j \in Slots : sessions[j].fd # NoFd => sessions[j].fd \in Fds
  BY DEF FtpShape, Sessions
<1> QED BY <1>1, <1>2, <1>3, <1>4, <1>5 DEF Works, SameKey

(* The slot a request gets.                                                *)
Gets(i, r) == Found(r) # {} => i \in Found(r)

LEMMA FirstFound ==
  ASSUME NEW r, NEW i, Found(r) # {}, i = CHOOSE j \in Found(r) : \A k \in Found(r) : j <= k
  PROVE  i \in Found(r)
<1>1. Found(r) \in SUBSET Nat
  BY DEF Found, Slots
<1>2. \E j \in Found(r) : \A k \in Found(r) : j <= k
  BY <1>1, Minimum
<1> QED BY <1>2

LEMMA ClaimedWorks ==
  ASSUME FtpInv, NEW i \in Slots, NEW r \in Requests, Gets(i, r)
  PROVE  LET w == Claimed(i, r) IN
         /\ Works(i, r, w.s, w.fds) /\ HasOwnFile(w.s, w.fds, opened)
         /\ \A j \in Slots \ {i} : ~SameKey(sessions[j], r)
<1> DEFINE v == [s |-> sessions[i], fds |-> openFds]
           w == Claimed(i, r)
<1>1. /\ FtpShape /\ OneSlot /\ OneDescriptor /\ SlotsOwn /\ r.client \in Clients /\ r.id \in Ids
      /\ sessions[i] \in Sessions /\ openFds \in Descriptors
      /\ r.client # NoClient
  BY FtpAssumption DEF FtpInv, FtpShape, Requests
<1>2. Works(i, sessions[i], v.s, v.fds)
  BY <1>1 DEF Works, OneDescriptor, SameKey
<1>3. CASE Found(r) # {}
  <2>1. w = v /\ SameKey(sessions[i], r)
    BY <1>3 DEF Claimed, Gets, Found, SameKey
  <2>2. \A j \in Slots \ {i} : ~SameKey(sessions[j], r)
    BY <1>1, <2>1 DEF OneSlot, SameKey
  <2> QED BY <1>1, <1>2, <2>1, <2>2 DEF Works, SameKey, SlotsOwn
<1>4. CASE Found(r) = {}
  <2>1. /\ Works(i, sessions[i], Close(v).s, Close(v).fds) /\ Close(v).s.fd = NoFd
    BY <1>1, <1>2, CloseWorks
  <2>2. w.s = [Close(v).s EXCEPT !.client = r.client, !.id = r.id] /\ w.fds = Close(v).fds
    BY <1>4 DEF Claimed, Close
  <2>3. /\ Close(v).s \in Sessions
        /\ r.client \in Clients \cup {NoClient} /\ r.id \in Ids \cup {0}
    BY <1>1, <2>1 DEF Works
  <2>4. /\ w.s.client = r.client /\ w.s.id = r.id /\ w.s.fd = NoFd
    BY <2>1, <2>2, <2>3 DEF Sessions
  <2>5. w.s \in Sessions
    BY <2>2, <2>3 DEF Sessions
  <2>6. \A j \in Slots \ {i} : ~SameKey(sessions[j], r)
    BY <1>4 DEF Found, SameKey
  <2> HIDE DEF v
  <2> QED BY <2>1, <2>2, <2>4, <2>5, <2>6 DEF Works, HasOwnFile, SameKey
<1> QED BY <1>3, <1>4

----------------------------------------------------------------------------
(* What serving a request can do: leave the session as it is and tell of   *)
(* its file, or close its file, or open one; only an opening opens.        *)
Leaves(e, w) ==
    /\ e.s = w.s /\ e.fds = w.fds
    /\ e.file # NoFile => w.s.fd # NoFd /\ e.file = w.fds[w.s.fd]

Closes(e, w) == e.s = Close(w).s /\ e.fds = Close(w).fds /\ e.file = NoFile

OpensFile(e, w, r) ==
    \E v \in {w, Close(w)}, d \in Fds, m \in {"read", "write"} :
       /\ v.s.fd = NoFd /\ v.fds[d] = NoFile
       /\ e.s = [v.s EXCEPT !.fd = d, !.mode = m] /\ e.fds = [v.fds EXCEPT ![d] = r.file]
       /\ e.file = r.file /\ e.err = "none"

OpenedAt(d, e, w, files, f, m) ==
    /\ w.fds[d] = NoFile /\ f \in files
    /\ e.s = [w.s EXCEPT !.fd = d, !.mode = m]
    /\ e.fds = [w.fds EXCEPT ![d] = f]
    /\ e.file = f /\ e.err = "none" /\ e.files = files

LEMMA OpensWorks ==
  ASSUME NEW w, NEW files, NEW f, NEW m \in {"read", "write"}, NEW e,
         e = Opens(w, files, f, m)
  PROVE  \/ /\ e = FtpError(w, "FileNotFound") \/ e = FtpError(w, "Fail")
         \/ \E d \in Fds : OpenedAt(d, e, w, files, f, m)
<1> DEFINE left == {d \in Fds : w.fds[d] = NoFile}
           d == CHOOSE x \in left : \A y \in left : x <= y
<1>1. CASE f \notin files \/ left = {}
  BY <1>1 DEF Opens
<1>2. CASE f \in files /\ left # {}
  <2>1. left \in SUBSET Nat
    BY FtpAssumption DEF Fds
  <2>2. \E x \in left : \A y \in left : x <= y
    BY <1>2, <2>1, Minimum
  <2>3. d \in left
    BY <2>2
  <2>4. Opens(w, files, f, m) =
          Outcome([s |-> [w.s EXCEPT !.fd = d, !.mode = m],
                   fds |-> [w.fds EXCEPT ![d] = f]], files, "none", f)
    BY <1>2 DEF Opens
  <2> HIDE DEF d
  <2>5. /\ e.s = [w.s EXCEPT !.fd = d, !.mode = m] /\ e.fds = [w.fds EXCEPT ![d] = f]
        /\ e.file = f /\ e.err = "none" /\ e.files = files
    BY <2>4 DEF Outcome
  <2>6. d \in Fds /\ w.fds[d] = NoFile /\ f \in files
    BY <1>2, <2>3
  <2> QED BY <2>5, <2>6 DEF OpenedAt
<1> QED BY <1>1, <1>2

ServedOwn(e, w, r) ==
    /\ e.files \in SUBSET (Files \cup Dirs) /\ e.err \in Errors
    /\ \/ Leaves(e, w) /\ (r.op \in Opening => e.err # "none") /\ r.op # "terminate"
       \/ Closes(e, w) /\ (r.op \in Opening => e.err # "none")
       \/ OpensFile(e, w, r) /\ r.op \in Opening

LEMMA ServeServes ==
  ASSUME FtpShape, NEW r \in Requests, r.op # "reset", NEW w, NEW e, e = Serve(w, r)
  PROVE  ServedOwn(e, w, r)
<1>0. /\ exists \in SUBSET (Files \cup Dirs) /\ r.file \in Paths(r.op) /\ r.to \in Targets(r.op)
      /\ r.op \in FtpOps
  BY DEF FtpShape, Requests, AnyRequests
<1>1. CASE r.op = "openRO"
  <2> DEFINE v == IF w.s.fd # NoFd /\ w.s.age > SessionTimeout THEN Close(w) ELSE w
  <2>1. e = IF v.s.fd # NoFd THEN FtpError(v, "Fail") ELSE Opens(v, exists, r.file, "read")
    BY <1>1 DEF Serve, ServeOpenRO
  <2>2. v = w \/ v = Close(w)
    OBVIOUS
  <2> HIDE DEF v
  <2>3. CASE e = FtpError(v, "Fail") \/ e = FtpError(v, "FileNotFound")
    BY <1>0, <1>1, <2>2, <2>3 DEF FtpError, Outcome, ServedOwn, Leaves, Closes, Errors
  <2>4. CASE v.s.fd = NoFd /\ e = Opens(v, exists, r.file, "read")
    <3>1. \/ e = FtpError(v, "FileNotFound") \/ e = FtpError(v, "Fail")
          \/ \E d \in Fds : OpenedAt(d, e, v, exists, r.file, "read")
      <4>1. "read" \in {"read", "write"} /\ "write" \in {"read", "write"}
        OBVIOUS
      <4> QED BY <2>4, <4>1, OpensWorks
    <3>2. ASSUME NEW d \in Fds, OpenedAt(d, e, v, exists, r.file, "read")
          PROVE  OpensFile(e, w, r) /\ e.files = exists /\ e.err = "none"
      BY <2>2, <2>4, <3>2 DEF OpensFile, OpenedAt
    <3>3. r.op \in Opening /\ "none" \in Errors
      BY <1>1 DEF Opening, Errors
    <3> QED BY <1>0, <2>2, <2>3, <3>1, <3>2, <3>3 DEF ServedOwn
  <2> QED BY <2>1, <2>3, <2>4
<1>2. CASE r.op \in {"openWO", "create"}
  <2> DEFINE files == IF r.op = "create" THEN exists \cup {r.file} ELSE exists
  <2>1. e = IF w.s.fd # NoFd THEN FtpError(w, "Fail") ELSE Opens(w, files, r.file, "write")
    BY <1>2 DEF Serve, ServeOpenWO
  <2>2. files \in SUBSET (Files \cup Dirs)
    BY <1>0, <1>2 DEF Paths, Opening
  <2> HIDE DEF files
  <2>3. CASE e = FtpError(w, "Fail") \/ e = FtpError(w, "FileNotFound")
    BY <1>0, <1>2, <2>3 DEF FtpError, Outcome, ServedOwn, Leaves, Errors
  <2>4. CASE w.s.fd = NoFd /\ e = Opens(w, files, r.file, "write")
    <3>1. \/ e = FtpError(w, "FileNotFound") \/ e = FtpError(w, "Fail")
          \/ \E d \in Fds : OpenedAt(d, e, w, files, r.file, "write")
      <4>1. "read" \in {"read", "write"} /\ "write" \in {"read", "write"}
        OBVIOUS
      <4> QED BY <2>4, <4>1, OpensWorks
    <3>2. ASSUME NEW d \in Fds, OpenedAt(d, e, w, files, r.file, "write")
          PROVE  OpensFile(e, w, r) /\ e.files = files /\ e.err = "none"
      BY <2>2, <2>4, <3>2 DEF OpensFile, OpenedAt
    <3>3. r.op \in Opening /\ "none" \in Errors
      BY <1>2 DEF Opening, Errors
    <3> QED BY <1>0, <2>2, <2>3, <3>1, <3>2, <3>3 DEF ServedOwn
  <2> QED BY <2>1, <2>3, <2>4
<1>3. CASE r.op \in {"read", "write", "burst"}
  BY <1>0, <1>3 DEF Serve, ServeRead, ServeWrite, ServeBurst, Transfer, FtpError, Outcome, ServedOwn,
                    Leaves, Errors, Opening
<1>4. CASE r.op \in {"remove", "crc", "rename"}
  BY <1>0, <1>4 DEF Serve, ServeRemove, ServeCrc, ServeRename, OnPath, FtpError, Outcome, ServedOwn,
                    Leaves, Errors, Opening, Paths, Targets
<1>5. CASE r.op \in {"mkdir", "list", "none", "ack", "truncate"}
  BY <1>0, <1>5 DEF Serve, ServeMkdir, ServeList, FtpError, Outcome, ServedOwn,
                    Leaves, Errors, Opening, Paths
<1>6. CASE r.op = "terminate"
  BY <1>0, <1>6 DEF Serve, ServeTerminate, Outcome, ServedOwn, Closes, Errors, Opening
<1> QED BY <1>0, <1>1, <1>2, <1>3, <1>4, <1>5, <1>6 DEF FtpOps, Opening

----------------------------------------------------------------------------
(* What a client has open after a request.                                 *)
OpenedBy(r, e) ==
    CASE r.op \in Opening /\ e.err = "none" -> [opened EXCEPT ![r.client][r.id] = r.file]
      [] r.op = "terminate" -> [opened EXCEPT ![r.client][r.id] = NoFile]
      [] OTHER -> opened

LEMMA OpenedKeeps ==
  ASSUME FtpShape, NEW r \in Requests, NEW e,
         r.op \in Opening /\ e.err = "none" => r.file \in Files
  PROVE  /\ OpenedBy(r, e) \in [Clients -> [Ids -> Files \cup {NoFile}]]
         /\ \A c \in Clients, n \in Ids :
               c # r.client \/ n # r.id => OpenedBy(r, e)[c][n] = opened[c][n]
         /\ r.op \in Opening /\ e.err = "none" => OpenedBy(r, e)[r.client][r.id] = r.file
         /\ (r.op \in Opening => e.err # "none") /\ r.op # "terminate" => OpenedBy(r, e) = opened
<1>1. /\ r.client \in Clients /\ r.id \in Ids
      /\ opened \in [Clients -> [Ids -> Files \cup {NoFile}]]
  BY DEF Requests, FtpShape
<1>2. ASSUME NEW f \in Files \cup {NoFile}
      PROVE  LET o == [opened EXCEPT ![r.client][r.id] = f] IN
             /\ o \in [Clients -> [Ids -> Files \cup {NoFile}]]
             /\ o[r.client][r.id] = f
             /\ \A c \in Clients, n \in Ids : c # r.client \/ n # r.id => o[c][n] = opened[c][n]
  BY <1>1
<1>3. CASE r.op \in Opening /\ e.err = "none"
  <2>1. OpenedBy(r, e) = [opened EXCEPT ![r.client][r.id] = r.file]
    BY <1>3 DEF OpenedBy, Opening
  <2> QED BY <1>2, <1>3, <2>1 DEF Opening
<1>4. CASE r.op = "terminate"
  <2>1. OpenedBy(r, e) = [opened EXCEPT ![r.client][r.id] = NoFile]
    BY <1>4 DEF OpenedBy, Opening
  <2> QED BY <1>2, <1>4, <2>1 DEF Opening
<1>5. CASE ~(r.op \in Opening /\ e.err = "none") /\ r.op # "terminate"
  <2>1. OpenedBy(r, e) = opened
    BY <1>5 DEF OpenedBy
  <2> QED BY <1>1, <1>5, <2>1
<1> QED BY <1>3, <1>4, <1>5

LEMMA OpeningNames ==
  ASSUME NEW r \in Requests, r.op \in Opening
  PROVE  r.file \in Files
<1>1. Paths(r.op) = Files
  BY DEF Paths, Opening
<1> QED BY <1>1 DEF Requests

(* A request served: the session's file is the client's own, and so is the *)
(* one the reply is about.                                                 *)
LEMMA ServedWorks ==
  ASSUME FtpInv, NEW i \in Slots, NEW r \in Requests, NEW w, NEW e,
         Works(i, r, w.s, w.fds), HasOwnFile(w.s, w.fds, opened), ServedOwn(e, w, r)
  PROVE  /\ Works(i, r, e.s, e.fds) /\ HasOwnFile(e.s, e.fds, OpenedBy(r, e))
         /\ e.file \in Files \cup {NoFile}
         /\ e.file # NoFile => e.file = OpenedBy(r, e)[r.client][r.id]
<1>1. /\ FtpShape /\ r.client \in Clients /\ r.id \in Ids /\ NoFile \notin Files
      /\ w.s \in Sessions /\ w.fds \in Descriptors /\ SameKey(w.s, r)
      /\ w.s.fd \in Fds \cup {NoFd}
  BY FtpAssumption DEF FtpInv, Requests, Works, Sessions
<1>2. CASE Leaves(e, w) /\ (r.op \in Opening => e.err # "none") /\ r.op # "terminate"
  <2>1. OpenedBy(r, e) = opened
    BY <1>1, <1>2, OpenedKeeps
  <2>2. e.s = w.s /\ e.fds = w.fds
        /\ (e.file # NoFile => w.s.fd # NoFd /\ e.file = w.fds[w.s.fd])
    BY <1>2 DEF Leaves
  <2>3. e.file # NoFile => e.file = opened[r.client][r.id]
    BY <1>1, <2>2 DEF HasOwnFile, SameKey
  <2>4. e.file \in Files \cup {NoFile}
    BY <1>1, <2>2 DEF Descriptors
  <2> QED BY <2>1, <2>2, <2>3, <2>4
<1>3. CASE Closes(e, w)
  <2>1. Works(i, r, e.s, e.fds) /\ e.s.fd = NoFd /\ e.file = NoFile
    BY <1>1, <1>3, CloseWorks DEF Closes
  <2> QED BY <2>1 DEF HasOwnFile
<1>4. CASE OpensFile(e, w, r) /\ r.op \in Opening
  <2>1. PICK v \in {w, Close(w)}, d \in Fds, m \in {"read", "write"} :
           /\ v.s.fd = NoFd /\ v.fds[d] = NoFile
           /\ e.s = [v.s EXCEPT !.fd = d, !.mode = m] /\ e.fds = [v.fds EXCEPT ![d] = r.file]
           /\ e.file = r.file /\ e.err = "none"
    BY <1>4 DEF OpensFile
  <2>2. Works(i, r, v.s, v.fds)
    BY <1>1, CloseWorks
  <2>3. v.s \in Sessions /\ v.fds \in Descriptors /\ SameKey(v.s, r)
    BY <2>2 DEF Works
  <2>4. r.file \in Files
    BY <1>4, OpeningNames
  <2>5. OpenedBy(r, e)[r.client][r.id] = r.file
    BY <1>1, <1>4, <2>1, <2>4, OpenedKeeps
  <2>6. e.s \in Sessions /\ e.s.client = v.s.client /\ e.s.id = v.s.id /\ e.s.fd = d
    BY <2>1, <2>3 DEF Sessions
  <2>7. /\ e.fds \in Descriptors /\ e.fds[d] = r.file
        /\ \A x \in Fds \ {d} : e.fds[x] = v.fds[x]
    BY <2>1, <2>3, <2>4 DEF Descriptors
  <2>8. ASSUME NEW j \in Slots \ {i}, sessions[j].fd # NoFd
        PROVE  sessions[j].fd # d /\ e.fds[sessions[j].fd] = openFds[sessions[j].fd]
    <3>1. v.fds[sessions[j].fd] = openFds[sessions[j].fd]
      BY <2>2, <2>8 DEF Works
    <3>2. sessions[j].fd \in Fds /\ openFds[sessions[j].fd] # NoFile
      BY <2>8 DEF FtpInv, FtpShape, Sessions, SlotsOwn, HasOwnFile
    <3>3. sessions[j].fd # d
      BY <2>1, <3>1, <3>2
    <3> QED BY <2>7, <3>1, <3>2, <3>3
  <2>9. Works(i, r, e.s, e.fds)
    BY <2>3, <2>6, <2>7, <2>8 DEF Works, SameKey
  <2>10. HasOwnFile(e.s, e.fds, OpenedBy(r, e))
    BY <1>1, <2>3, <2>4, <2>5, <2>6, <2>7 DEF HasOwnFile, SameKey
  <2> QED BY <2>1, <2>4, <2>5, <2>9, <2>10
<1> QED BY <1>2, <1>3, <1>4 DEF ServedOwn

LEMMA AgeKept ==
  ASSUME NEW s \in Sessions, NEW a \in Free..(KillTimeout + 1)
  PROVE  /\ [s EXCEPT !.age = a] \in Sessions
         /\ SameKey([s EXCEPT !.age = a], s) /\ [s EXCEPT !.age = a].fd = s.fd
BY DEF Sessions, SameKey

LEMMA AnswerTyped ==
  ASSUME NEW r \in Requests, NEW e \in Errors, NEW f \in Files \cup {NoFile}
  PROVE  Answer(r, e, f) \in Replies
BY FtpAssumption DEF Answer, Requests, AnyRequests, Replies

----------------------------------------------------------------------------
(* The queue and the clients.                                              *)
LEMMA EnqueueTyped ==
  ASSUME requests \in Seq(Requests), Len(requests) <= MaxSessions, NEW r \in Requests, Enqueue(r)
  PROVE  requests' \in Seq(Requests) /\ Len(requests') <= MaxSessions
<1>1. MaxSessions \in Nat /\ Len(requests) \in Nat
  BY FtpAssumption
<1>2. CASE Len(requests) < MaxSessions
  BY <1>1, <1>2 DEF Enqueue
<1>3. CASE ~(Len(requests) < MaxSessions)
  BY <1>3 DEF Enqueue
<1> QED BY <1>2, <1>3

LEMMA PopTyped ==
  ASSUME requests \in Seq(Requests), Len(requests) <= MaxSessions, NEW r, Pop(r)
  PROVE  /\ requests' \in Seq(Requests) /\ Len(requests') <= MaxSessions
         /\ r \in Requests
<1>1. MaxSessions \in Nat /\ Len(requests) \in Nat
  BY FtpAssumption
<1> HIDE DEF Requests
<1> QED BY <1>1 DEF Pop

LEMMA HearsTyped ==
  ASSUME FtpShape, NEW a \in Replies, NEW got, Hears(a, got)
  PROVE  /\ heard' \in [Clients -> BOOLEAN] /\ asked' \in [Clients -> AnyRequests]
         /\ \A c \in Clients : ~heard'[c] => asked'[c] \in Requests
<1>0. /\ heard \in [Clients -> BOOLEAN] /\ asked \in [Clients -> AnyRequests] /\ a.seq \in Int
      /\ \A c \in Clients : ~heard[c] => asked[c] \in Requests
  BY DEF FtpShape, Replies
<1>1. CASE heard' = heard /\ asked' = asked
  BY <1>0, <1>1
<1>2. CASE /\ a.client \in Clients
           /\ heard' = [heard EXCEPT ![a.client] = TRUE]
           /\ asked' = [asked EXCEPT ![a.client].seq = a.seq]
  <2>1. [asked[a.client] EXCEPT !.seq = a.seq] \in AnyRequests
    BY <1>0, <1>2 DEF AnyRequests
  <2>2. asked' \in [Clients -> AnyRequests]
    BY <1>0, <1>2, <2>1
  <2>3. heard' \in [Clients -> BOOLEAN] /\ heard'[a.client] = TRUE
    BY <1>0, <1>2
  <2>4. ASSUME NEW c \in Clients, ~heard'[c]
        PROVE  asked'[c] \in Requests
    BY <1>0, <1>2, <2>3, <2>4
  <2> QED BY <2>2, <2>3, <2>4
<1> QED BY <1>1, <1>2 DEF Hears

(* Nothing OwnFile is about changes when clients ask.                      *)
LEMMA NewRequestKeeps ==
  ASSUME FtpInv, NEW c \in Clients, NEW n \in Ids, NEW op \in Asking, NEW f \in Paths(op),
         NEW t \in Targets(op), NewRequest(c, n, op, f, t)
  PROVE  FtpInv'
<1> DEFINE r == [client |-> c, id |-> n, op |-> op, file |-> f, to |-> t,
                 seq |-> asked[c].seq + 1]
<1>1. r \in Requests
  <2>1. asked[c].seq \in Int /\ op \in FtpOps
    BY FtpAssumption DEF FtpInv, FtpShape, AnyRequests
  <2>2. f \in Names /\ t \in Names
    BY FtpAssumption DEF Paths, Targets, Names
  <2> QED BY <2>1, <2>2 DEF Requests, AnyRequests
<1>2. /\ requests' \in Seq(Requests) /\ Len(requests') <= MaxSessions
  BY <1>1, EnqueueTyped DEF FtpInv, FtpShape, NewRequest
<1>3. /\ asked' = [asked EXCEPT ![c] = r] /\ heard' = [heard EXCEPT ![c] = op = "ack"]
      /\ UNCHANGED <<sessions, openFds, exists, reply, pushing, opened, served>>
  BY DEF NewRequest
<1> HIDE DEF r
<1>4. /\ asked \in [Clients -> AnyRequests] /\ heard \in [Clients -> BOOLEAN] /\ r \in AnyRequests
      /\ \A k \in Clients : ~heard[k] => asked[k] \in Requests
  BY <1>1 DEF FtpInv, FtpShape, Requests
<1>5. asked' \in [Clients -> AnyRequests] /\ asked'[c] = r
      /\ \A k \in Clients \ {c} : asked'[k] = asked[k]
  BY <1>3, <1>4
<1>6. heard' \in [Clients -> BOOLEAN] /\ \A k \in Clients \ {c} : heard'[k] = heard[k]
  <2>1. (op = "ack") \in BOOLEAN
    OBVIOUS
  <2> QED BY <1>3, <1>4, <2>1
<1>7. \A k \in Clients : ~heard'[k] => asked'[k] \in Requests
  BY <1>1, <1>4, <1>5, <1>6
<1>8. FtpShape'
  BY <1>2, <1>3, <1>5, <1>6, <1>7 DEF FtpInv, FtpShape
<1> QED BY <1>3, <1>8 DEF FtpInv, OneSlot, OneDescriptor, SlotsOwn, HasOwnFile, OwnFile, SameKey

LEMMA RepeatRequestKeeps ==
  ASSUME FtpInv, NEW c \in Clients, RepeatRequest(c)
  PROVE  FtpInv'
<1>1. requests' \in Seq(Requests) /\ Len(requests') <= MaxSessions
  <2>1. asked[c] \in Requests /\ Enqueue(asked[c])
    BY DEF FtpInv, FtpShape, RepeatRequest
  <2> QED BY <2>1, EnqueueTyped DEF FtpInv, FtpShape
<1> QED BY <1>1 DEF RepeatRequest, FtpInv, FtpShape, OneSlot, OneDescriptor, SlotsOwn, HasOwnFile,
                    OwnFile, SameKey

----------------------------------------------------------------------------
(* The worker's steps.                                                     *)
LEMMA ResetSessionsKeeps ==
  ASSUME FtpInv, NEW r, NEW got, ResetSessions(r, got)
  PROVE  FtpInv'
<1> DEFINE mine == {i \in Slots : sessions[i].client = r.client}
<1>0. FtpShape /\ OneSlot /\ OneDescriptor /\ SlotsOwn
  BY DEF FtpInv
<1>1. r \in Requests /\ requests' \in Seq(Requests) /\ Len(requests') <= MaxSessions
  BY <1>0, PopTyped DEF FtpShape, ResetSessions
<1>2. /\ r.client \in Clients /\ r.id \in Ids
      /\ opened' = [opened EXCEPT ![r.client] = [n \in Ids |-> NoFile]]
      /\ sessions' = [i \in Slots |-> IF i \in mine THEN Shut(sessions[i]) ELSE sessions[i]]
      /\ openFds' = [d \in Fds |->
                       IF \E i \in mine : sessions[i].fd = d THEN NoFile ELSE openFds[d]]
  BY <1>1 DEF ResetSessions, Requests
<1>3. mine \in SUBSET Slots
  OBVIOUS
<1>4. /\ opened' \in [Clients -> [Ids -> Files \cup {NoFile}]]
      /\ \A c \in Clients : c # r.client => opened'[c] = opened[c]
  <2>1. [n \in Ids |-> NoFile] \in [Ids -> Files \cup {NoFile}]
    OBVIOUS
  <2> QED BY <1>0, <1>2, <2>1 DEF FtpShape
<1>5. ASSUME NEW i \in Slots \ mine, sessions[i].fd # NoFd
      PROVE  opened'[sessions[i].client] = opened[sessions[i].client]
  BY <1>0, <1>4, <1>5 DEF SlotsOwn, HasOwnFile
<1> HIDE DEF mine
<1>6. (OneSlot /\ OneDescriptor /\ SlotsOwn)' /\ sessions' \in [Slots -> Sessions]
      /\ openFds' \in Descriptors
  BY <1>0, <1>2, <1>3, <1>5, SlotsShut
<1>7. "none" \in Errors /\ NoFile \in Files \cup {NoFile}
  BY DEF Errors
<1>8. reply' \in Replies /\ reply' = Answer(r, "none", NoFile)
  BY <1>1, <1>7, AnswerTyped DEF ResetSessions
<1>9. OwnFile'
  BY <1>8 DEF OwnFile, Answer
<1>10. PICK a \in Replies : a = reply'
  BY <1>8
<1>11. Hears(a, got)
  BY <1>10 DEF ResetSessions
<1>12. /\ heard' \in [Clients -> BOOLEAN] /\ asked' \in [Clients -> AnyRequests]
       /\ \A c \in Clients : ~heard'[c] => asked'[c] \in Requests
  BY <1>0, <1>11, HearsTyped
<1>13. exists' = exists /\ pushing' = pushing
  BY DEF ResetSessions
<1>14. FtpShape'
  BY <1>0, <1>1, <1>4, <1>6, <1>8, <1>12, <1>13 DEF FtpShape
<1> QED BY <1>6, <1>9, <1>14 DEF FtpInv

LEMMA NoSessionsAvailableKeeps ==
  ASSUME FtpInv, NEW r, NEW got, NoSessionsAvailable(r, got)
  PROVE  FtpInv'
<1>1. r \in Requests /\ requests' \in Seq(Requests) /\ Len(requests') <= MaxSessions
  BY PopTyped DEF FtpInv, FtpShape, NoSessionsAvailable
<1>2. "NoSessionsAvailable" \in Errors /\ NoFile \in Files \cup {NoFile}
  BY DEF Errors
<1>3. reply' \in Replies /\ reply'.file = NoFile
  BY <1>1, <1>2, AnswerTyped DEF NoSessionsAvailable, Answer
<1>4. PICK a \in Replies : a = reply'
  BY <1>3
<1>5. Hears(a, got) /\ UNCHANGED <<sessions, openFds, exists, pushing, issued, opened>>
  BY <1>4 DEF NoSessionsAvailable
<1>6. /\ heard' \in [Clients -> BOOLEAN] /\ asked' \in [Clients -> AnyRequests]
      /\ \A c \in Clients : ~heard'[c] => asked'[c] \in Requests
  BY <1>5, HearsTyped DEF FtpInv
<1>7. FtpShape'
  BY <1>1, <1>3, <1>5, <1>6 DEF FtpInv, FtpShape
<1> QED BY <1>3, <1>5, <1>7
        DEF FtpInv, OneSlot, OneDescriptor, SlotsOwn, HasOwnFile, OwnFile, SameKey

LEMMA PushReplyKeeps ==
  ASSUME FtpInv, NEW got, PushReply(got)
  PROVE  FtpInv'
<1>1. /\ sessions' = [sessions EXCEPT ![pushing] = Sent(sessions[pushing])] /\ pushing' = 0
      /\ Hears(reply, got) /\ pushing \in Slots
      /\ UNCHANGED <<requests, openFds, exists, reply, issued, opened, served>>
  BY DEF PushReply, FtpInv, FtpShape
<1>2. /\ heard' \in [Clients -> BOOLEAN] /\ asked' \in [Clients -> AnyRequests]
      /\ \A c \in Clients : ~heard'[c] => asked'[c] \in Requests
  BY <1>1, HearsTyped DEF FtpInv, FtpShape
<1>3. sessions[pushing] \in Sessions /\ sessions \in [Slots -> Sessions]
  BY <1>1 DEF FtpInv, FtpShape
<1>4. Free \in Free..(KillTimeout + 1)
  BY FtpAssumption DEF Free
<1>5. /\ Sent(sessions[pushing]) \in Sessions /\ SameKey(Sent(sessions[pushing]), sessions[pushing])
      /\ Sent(sessions[pushing]).fd = sessions[pushing].fd
  BY <1>3, <1>4, AgeKept DEF Sent, SameKey
<1>6. sessions' \in [Slots -> Sessions]
  BY <1>1, <1>3, <1>5
<1>7. \A i \in Slots : SameKey(sessions'[i], sessions[i]) /\ sessions'[i].fd = sessions[i].fd
  BY <1>1, <1>3, <1>5 DEF SameKey
<1>8. FtpShape'
  BY <1>1, <1>2, <1>6 DEF FtpInv, FtpShape
<1> QED BY <1>1, <1>7, <1>8
        DEF FtpInv, OneSlot, OneDescriptor, SlotsOwn, HasOwnFile, OwnFile, SameKey

LEMMA KillDeadKeeps ==
  ASSUME FtpInv, KillDead
  PROVE  FtpInv'
<1> DEFINE dead == {i \in Slots : sessions[i].age > KillTimeout}
<1>1. /\ sessions' = [i \in Slots |-> IF i \in dead THEN Shut(sessions[i]) ELSE sessions[i]]
      /\ openFds' = [d \in Fds |->
                       IF \E i \in dead : sessions[i].fd = d THEN NoFile ELSE openFds[d]]
      /\ UNCHANGED <<requests, exists, reply, pushing, asked, heard, issued, opened, served>>
      /\ dead \in SUBSET Slots
  BY DEF KillDead
<1> HIDE DEF dead
<1>2. (OneSlot /\ OneDescriptor /\ SlotsOwn)' /\ sessions' \in [Slots -> Sessions]
      /\ openFds' \in Descriptors
  BY <1>1, SlotsShut DEF FtpInv
<1> QED BY <1>1, <1>2 DEF FtpInv, FtpShape, OwnFile

LEMMA FtpTickKeeps ==
  ASSUME FtpInv, FtpTick
  PROVE  FtpInv'
<1>1. /\ sessions' = [i \in Slots |->
           IF sessions[i].age \in 0..KillTimeout
           THEN [sessions[i] EXCEPT !.age = sessions[i].age + 1] ELSE sessions[i]]
      /\ UNCHANGED <<requests, openFds, exists, reply, pushing, asked, heard, issued, opened,
                     served>>
  BY DEF FtpTick
<1>2. ASSUME NEW i \in Slots
      PROVE  /\ sessions'[i] \in Sessions /\ SameKey(sessions'[i], sessions[i])
             /\ sessions'[i].fd = sessions[i].fd
  <2>1. sessions[i] \in Sessions
    BY DEF FtpInv, FtpShape
  <2>2. CASE sessions[i].age \in 0..KillTimeout
    <3>1. sessions[i].age + 1 \in Free..(KillTimeout + 1)
      BY <2>2, FtpAssumption DEF Free
    <3> QED BY <1>1, <2>1, <2>2, <3>1, AgeKept
  <2>3. CASE sessions[i].age \notin 0..KillTimeout
    BY <1>1, <2>1, <2>3 DEF SameKey
  <2> QED BY <2>2, <2>3
<1>3. sessions' \in [Slots -> Sessions]
  BY <1>1, <1>2
<1>4. FtpShape'
  BY <1>1, <1>3 DEF FtpInv, FtpShape
<1> QED BY <1>1, <1>2, <1>4
        DEF FtpInv, OneSlot, OneDescriptor, SlotsOwn, HasOwnFile, OwnFile, SameKey

(* A request is served, or answered again, in the one slot of its session. *)
SameElsewhere(r, own) ==
    \A c \in Clients, n \in Ids : c # r.client \/ n # r.id => own[c][n] = opened[c][n]

LEMMA SlotServed ==
  ASSUME FtpInv, NEW r \in Requests, NEW i \in Slots, NEW s, NEW fds, NEW own,
         Works(i, r, s, fds), HasOwnFile(s, fds, own),
         \A j \in Slots \ {i} : ~SameKey(sessions[j], r),
         SameElsewhere(r, own),
         sessions' = [sessions EXCEPT ![i] = s], openFds' = fds, opened' = own
  PROVE  /\ (OneSlot /\ OneDescriptor /\ SlotsOwn)'
         /\ sessions' \in [Slots -> Sessions] /\ openFds' \in Descriptors
<1>1. /\ s \in Sessions /\ fds \in Descriptors /\ SameKey(s, r)
      /\ s.client \in Clients /\ s.id \in Ids /\ s.client = r.client /\ s.id = r.id
      /\ \A j \in Slots \ {i} : sessions[j].fd # NoFd =>
            sessions[j].fd # s.fd /\ fds[sessions[j].fd] = openFds[sessions[j].fd]
  BY DEF Works, SameKey, Requests
<1>2. \A j \in Slots \ {i} : ~SameKey(sessions[j], s)
  BY <1>1 DEF SameKey
<1>3. HasOwnFile(s, openFds', opened')
  OBVIOUS
<1>4. /\ \A j \in Slots \ {i} : /\ sessions[j].fd # NoFd => sessions[j].fd # s.fd
                                /\ openFds'[sessions[j].fd] = openFds[sessions[j].fd]
                                     \/ sessions[j].fd = NoFd
      /\ \A c \in Clients, n \in Ids :
            c # s.client \/ n # s.id => opened'[c][n] = opened[c][n]
  BY <1>1 DEF SameElsewhere
<1> QED BY <1>1, <1>2, <1>3, <1>4, SlotWritten DEF FtpInv

LEMMA HandleKeeps ==
  ASSUME FtpInv, NEW r, NEW i \in Slots, Handle(r, i)
  PROVE  FtpInv'
<1>0. FtpShape /\ OneSlot /\ OneDescriptor /\ SlotsOwn /\ OwnFile
  BY DEF FtpInv
<1>1. r \in Requests /\ requests' \in Seq(Requests) /\ Len(requests') <= MaxSessions
  BY <1>0, PopTyped DEF FtpShape, Handle
<1>2. PICK w : w = Claimed(i, r)
  OBVIOUS
<1>3. PICK e : e = Serve(w, r)
  OBVIOUS
<1>4. Gets(i, r)
  BY FirstFound DEF Handle, Gets
<1>5. /\ Works(i, r, w.s, w.fds) /\ HasOwnFile(w.s, w.fds, opened)
      /\ \A j \in Slots \ {i} : ~SameKey(sessions[j], r)
  BY <1>1, <1>2, <1>4, ClaimedWorks
<1>6. ServedOwn(e, w, r)
  BY <1>0, <1>1, <1>3, ServeServes DEF Handle
<1>7. asked' = asked /\ heard' = heard
  BY DEF Handle
<1>8. 0 \in Free..(KillTimeout + 1)
  BY FtpAssumption DEF Free
<1>9. ASSUME NEW s, NEW fds, Works(i, r, s, fds)
      PROVE  /\ Works(i, r, [s EXCEPT !.age = 0], fds)
             /\ \A own : HasOwnFile(s, fds, own) => HasOwnFile([s EXCEPT !.age = 0], fds, own)
  <2>1. s \in Sessions
    BY <1>9 DEF Works
  <2>2. [s EXCEPT !.age = 0] \in Sessions /\ SameKey([s EXCEPT !.age = 0], s)
        /\ [s EXCEPT !.age = 0].fd = s.fd
    BY <1>8, <2>1, AgeKept
  <2> QED BY <1>9, <2>2 DEF Works, SameKey, HasOwnFile
<1>10. CASE IsRepeat(r)
  <2>1. /\ sessions' = [sessions EXCEPT ![i] = [w.s EXCEPT !.age = 0]] /\ pushing' = i
        /\ openFds' = w.fds /\ UNCHANGED <<exists, reply, opened>>
    BY <1>2, <1>10 DEF Handle, Pushing
  <2>2. /\ Works(i, r, [w.s EXCEPT !.age = 0], w.fds)
        /\ HasOwnFile([w.s EXCEPT !.age = 0], w.fds, opened)
    BY <1>5, <1>9
  <2>3. SameElsewhere(r, opened)
    BY DEF SameElsewhere
  <2>4. /\ (OneSlot /\ OneDescriptor /\ SlotsOwn)'
        /\ sessions' \in [Slots -> Sessions] /\ openFds' \in Descriptors
    BY <1>1, <1>5, <2>1, <2>2, <2>3, SlotServed
  <2> QED BY <1>0, <1>1, <1>7, <2>1, <2>4 DEF FtpInv, FtpShape, OwnFile
<1>11. CASE ~IsRepeat(r)
  <2>1. /\ \/ sessions' = [sessions EXCEPT ![i] = e.s] /\ pushing' = pushing
           \/ sessions' = [sessions EXCEPT ![i] = [e.s EXCEPT !.age = 0]] /\ pushing' = i
        /\ openFds' = e.fds /\ exists' = e.files /\ reply' = Answer(r, e.err, e.file)
        /\ opened' = OpenedBy(r, e)
    BY <1>2, <1>3, <1>11 DEF Handle, Pushing, OpenedBy
  <2>2. /\ Works(i, r, e.s, e.fds) /\ HasOwnFile(e.s, e.fds, OpenedBy(r, e))
        /\ e.file \in Files \cup {NoFile}
        /\ e.file # NoFile => e.file = OpenedBy(r, e)[r.client][r.id]
    BY <1>1, <1>5, <1>6, ServedWorks
  <2>3. /\ Works(i, r, [e.s EXCEPT !.age = 0], e.fds)
        /\ HasOwnFile([e.s EXCEPT !.age = 0], e.fds, OpenedBy(r, e))
    BY <1>9, <2>2
  <2>4. r.op \in Opening /\ e.err = "none" => r.file \in Files
    BY <1>1, OpeningNames
  <2>5. /\ OpenedBy(r, e) \in [Clients -> [Ids -> Files \cup {NoFile}]]
        /\ \A c \in Clients, n \in Ids :
              c # r.client \/ n # r.id => OpenedBy(r, e)[c][n] = opened[c][n]
    BY <1>0, <1>1, <2>4, OpenedKeeps
  <2>6. PICK own : own = OpenedBy(r, e)
    OBVIOUS
  <2>7. PICK s : /\ sessions' = [sessions EXCEPT ![i] = s]
                 /\ Works(i, r, s, e.fds) /\ HasOwnFile(s, e.fds, own)
    BY <2>1, <2>2, <2>3, <2>6
  <2>8. /\ (OneSlot /\ OneDescriptor /\ SlotsOwn)'
        /\ sessions' \in [Slots -> Sessions] /\ openFds' \in Descriptors
    <3>1. openFds' = e.fds /\ opened' = own
      BY <2>1, <2>6
    <3>2. SameElsewhere(r, own)
      BY <2>5, <2>6 DEF SameElsewhere
    <3> QED BY <1>1, <1>5, <2>7, <3>1, <3>2, SlotServed
  <2>9. reply' \in Replies /\ e.files \in SUBSET (Files \cup Dirs)
    BY <1>1, <1>6, <2>1, <2>2, AnswerTyped DEF ServedOwn
  <2>10. reply'.client = r.client /\ reply'.id = r.id /\ reply'.file = e.file
    BY <2>1 DEF Answer
  <2>11. OwnFile'
    BY <2>1, <2>2, <2>10 DEF OwnFile
  <2>12. pushing' \in {0} \cup Slots
    BY <1>0, <2>1 DEF FtpShape
  <2> QED BY <1>0, <1>1, <1>7, <2>1, <2>5, <2>6, <2>8, <2>9, <2>11, <2>12 DEF FtpInv, FtpShape
<1> QED BY <1>10, <1>11

LEMMA FtpInvNext == FtpInv /\ [FtpNext]_ftpVars => FtpInv'
<1> SUFFICES ASSUME FtpInv, [FtpNext]_ftpVars PROVE FtpInv'
  OBVIOUS
<1>1. CASE \E c \in Clients, n \in Ids, op \in Asking :
             \E f \in Paths(op), t \in Targets(op) : NewRequest(c, n, op, f, t)
  BY <1>1, NewRequestKeeps
<1>2. CASE \E c \in Clients : RepeatRequest(c)
  BY <1>2, RepeatRequestKeeps
<1>3. CASE Work
  BY <1>3, ResetSessionsKeeps, NoSessionsAvailableKeeps, HandleKeeps, PushReplyKeeps DEF Work
<1>4. CASE KillDead
  BY <1>4, KillDeadKeeps
<1>5. CASE FtpTick
  BY <1>5, FtpTickKeeps
<1>6. CASE UNCHANGED ftpVars
  BY <1>6 DEF ftpVars, FtpInv, FtpShape, OneSlot, OneDescriptor, SlotsOwn, HasOwnFile, OwnFile,
              SameKey
<1> QED BY <1>1, <1>2, <1>3, <1>4, <1>5, <1>6 DEF FtpNext

LEMMA FtpInvariant == FtpSpec => []FtpInv
<1> QED BY FtpInvInit, FtpInvNext, PTL DEF FtpSpec

(* Every reply about a file is about the one its client opened last in the *)
(* session the reply names (worker(), handle_request()), for any number of *)
(* clients, slots and files, and however slots are claimed, freed, killed  *)
(* and reset between the requests.                                         *)
THEOREM RepliesAreAboutOwnFiles == FtpSpec => []OwnFile
<1>1. FtpInv => OwnFile
  BY DEF FtpInv
<1> QED BY <1>1, FtpInvariant, PTL

----------------------------------------------------------------------------
(* The reply buffer answers the last request executed, and its session is  *)
(* still in a slot: what lets the worker know the request again.           *)
ReplyIsLast ==
    served # NoRequest =>
       /\ served \in Requests
       /\ reply = Answer(served, reply.err, reply.file)
       /\ served.op = "reset" => reply.err = "none" /\ reply.file = NoFile
       /\ served.op # "reset" /\ reply.err # "NoSessionsAvailable" => Found(served) # {}

LEMMA FoundByKey ==
  ASSUME \A i \in Slots : SameKey(sessions'[i], sessions[i]), NEW r
  PROVE  Found(r)' = Found(r)
BY DEF Found, SameKey

LEMMA ShutKeepsKeys ==
  ASSUME FtpShape, NEW D,
         sessions' = [i \in Slots |-> IF i \in D THEN Shut(sessions[i]) ELSE sessions[i]]
  PROVE  \A i \in Slots : SameKey(sessions'[i], sessions[i])
<1> SUFFICES ASSUME NEW i \in Slots PROVE SameKey(sessions'[i], sessions[i])
  OBVIOUS
<1>1. sessions[i] \in Sessions
  BY DEF FtpShape
<1> QED BY <1>1, ShutTyped DEF SameKey

(* What leaves the reply buffer and the sessions' keys alone.              *)
LEMMA KeysKeepReply ==
  ASSUME ReplyIsLast, UNCHANGED <<reply, served>>,
         \A i \in Slots : SameKey(sessions'[i], sessions[i])
  PROVE  ReplyIsLast'
<1>1. Found(served)' = Found(served)
  <2>1. PICK r : r = served
    OBVIOUS
  <2>2. Found(r)' = Found(r)
    BY FoundByKey
  <2> QED BY <2>1, <2>2 DEF Found
<1> QED BY <1>1 DEF ReplyIsLast

LEMMA HandleKeepsReply ==
  ASSUME FtpInv, ReplyIsLast, NEW r, NEW i \in Slots, Handle(r, i)
  PROVE  ReplyIsLast'
<1>1. r \in Requests /\ r.op # "reset" /\ sessions \in [Slots -> Sessions]
  BY PopTyped DEF FtpInv, FtpShape, Handle
<1>2. Gets(i, r)
  BY FirstFound DEF Handle, Gets
<1>3. PICK w : w = Claimed(i, r)
  OBVIOUS
<1>4. PICK e : e = Serve(w, r)
  OBVIOUS
<1>5. CASE IsRepeat(r)
  <2>1. /\ sessions' = [sessions EXCEPT ![i] = [w.s EXCEPT !.age = 0]]
        /\ UNCHANGED <<reply, served>>
    BY <1>3, <1>5 DEF Handle, Pushing
  <2>2. CASE served # NoRequest /\ served.op # "reset"
    <3>1. Found(served) # {} /\ SameKey(served, r)
      BY <1>5, <2>2 DEF ReplyIsLast, IsRepeat, SaysNoSessions, Answer, SameKey
    <3>2. Found(r) # {}
      BY <3>1 DEF Found, SameKey
    <3>3. w.s = sessions[i]
      BY <1>3, <3>2 DEF Claimed
    <3>4. \A j \in Slots : SameKey(sessions'[j], sessions[j])
      BY <1>1, <2>1, <3>3 DEF SameKey, Sessions
    <3> QED BY <2>1, <3>4, KeysKeepReply
  <2>3. CASE served = NoRequest \/ served.op = "reset"
    BY <2>1, <2>3 DEF ReplyIsLast
  <2> QED BY <2>2, <2>3
<1>6. CASE ~IsRepeat(r)
  <2>1. /\ \/ sessions' = [sessions EXCEPT ![i] = e.s]
           \/ sessions' = [sessions EXCEPT ![i] = [e.s EXCEPT !.age = 0]]
        /\ reply' = Answer(r, e.err, e.file) /\ served' = r
    BY <1>3, <1>4, <1>6 DEF Handle, Pushing
  <2>2. Works(i, r, w.s, w.fds) /\ HasOwnFile(w.s, w.fds, opened)
    BY <1>1, <1>2, <1>3, ClaimedWorks
  <2>3. ServedOwn(e, w, r)
    BY <1>1, <1>4, ServeServes DEF FtpInv
  <2>4. e.s \in Sessions /\ SameKey(e.s, r)
    BY <1>1, <2>2, <2>3, ServedWorks DEF Works
  <2>5. sessions'[i].client = r.client /\ sessions'[i].id = r.id
    BY <1>1, <2>1, <2>4 DEF SameKey, Sessions
  <2>6. i \in Found(r)'
    BY <2>5 DEF Found
  <2>7. Found(served)' # {}
    BY <2>1, <2>6 DEF Found
  <2>8. reply' = Answer(r, reply'.err, reply'.file)
    BY <2>1 DEF Answer
  <2> QED BY <1>1, <2>1, <2>7, <2>8 DEF ReplyIsLast
<1> QED BY <1>5, <1>6

LEMMA ReplyIsLastNext == FtpInv /\ ReplyIsLast /\ [FtpNext]_ftpVars => ReplyIsLast'
<1> SUFFICES ASSUME FtpInv, ReplyIsLast, [FtpNext]_ftpVars PROVE ReplyIsLast'
  OBVIOUS
<1>1. ASSUME UNCHANGED <<sessions, reply, served>>
      PROVE  ReplyIsLast'
  BY <1>1, KeysKeepReply DEF SameKey
<1>2. CASE \E c \in Clients, n \in Ids, op \in Asking :
             \E f \in Paths(op), t \in Targets(op) : NewRequest(c, n, op, f, t)
  BY <1>1, <1>2 DEF NewRequest
<1>3. CASE \E c \in Clients : RepeatRequest(c)
  BY <1>1, <1>3 DEF RepeatRequest
<1>4. CASE \E r, got : ResetSessions(r, got)
  <2>1. PICK r, got : ResetSessions(r, got)
    BY <1>4
  <2>2. r \in Requests
    BY <2>1, PopTyped DEF FtpInv, FtpShape, ResetSessions
  <2>3. reply' = Answer(r, "none", NoFile) /\ served' = r /\ r.op = "reset"
    BY <2>1 DEF ResetSessions
  <2>4. reply'.err = "none" /\ reply'.file = NoFile
    BY <2>3 DEF Answer
  <2> QED BY <2>2, <2>3, <2>4 DEF ReplyIsLast
<1>5. CASE \E r, got : NoSessionsAvailable(r, got)
  <2>1. PICK r, got : NoSessionsAvailable(r, got)
    BY <1>5
  <2>2. r \in Requests
    BY <2>1, PopTyped DEF FtpInv, FtpShape, NoSessionsAvailable
  <2>3. reply' = Answer(r, "NoSessionsAvailable", NoFile) /\ served' = r /\ r.op # "reset"
    BY <2>1 DEF NoSessionsAvailable
  <2>4. reply'.err = "NoSessionsAvailable" /\ reply'.file = NoFile
    BY <2>3 DEF Answer
  <2> QED BY <2>2, <2>3, <2>4 DEF ReplyIsLast
<1>6. CASE \E r : \E i \in Slots : Handle(r, i)
  BY <1>6, HandleKeepsReply
<1>7. CASE \E got \in BOOLEAN : PushReply(got)
  <2>1. /\ sessions' = [sessions EXCEPT ![pushing] = Sent(sessions[pushing])]
        /\ UNCHANGED <<reply, served>> /\ sessions \in [Slots -> Sessions]
    BY <1>7 DEF PushReply, FtpInv, FtpShape
  <2>2. \A s \in Sessions : SameKey(Sent(s), s)
    BY DEF Sent, SameKey, Sessions
  <2>3. \A i \in Slots : SameKey(sessions'[i], sessions[i])
    BY <2>1, <2>2 DEF SameKey
  <2> QED BY <2>1, <2>3, KeysKeepReply
<1>8. CASE KillDead
  <2>1. \A i \in Slots : SameKey(sessions'[i], sessions[i])
    <3> DEFINE dead == {i \in Slots : sessions[i].age > KillTimeout}
    <3>1. sessions' = [i \in Slots |-> IF i \in dead THEN Shut(sessions[i]) ELSE sessions[i]]
      BY <1>8 DEF KillDead
    <3> HIDE DEF dead
    <3> QED BY <3>1, ShutKeepsKeys DEF FtpInv
  <2> QED BY <1>8, <2>1, KeysKeepReply DEF KillDead
<1>9. CASE FtpTick
  <2>1. \A s \in Sessions : SameKey([s EXCEPT !.age = s.age + 1], s)
    BY DEF SameKey, Sessions
  <2>2. \A i \in Slots : SameKey(sessions'[i], sessions[i])
    BY <1>9, <2>1 DEF FtpTick, SameKey, FtpInv, FtpShape
  <2> QED BY <1>9, <2>2, KeysKeepReply DEF FtpTick
<1>10. CASE UNCHANGED ftpVars
  BY <1>1, <1>10 DEF ftpVars
<1> QED BY <1>2, <1>3, <1>4, <1>5, <1>6, <1>7, <1>8, <1>9, <1>10 DEF FtpNext, Work

(* The queue gets shorter only when the worker takes a request.            *)
LEMMA EnqueueIsNoPop ==
  ASSUME requests \in Seq(Requests), requests # <<>>, NEW r, Enqueue(r)
  PROVE  requests' # Tail(requests)
<1> HIDE DEF Requests
<1>1. Len(Tail(requests)) = Len(requests) - 1 /\ Len(requests) \in Nat
  OBVIOUS
<1>2. requests' = requests \/ requests' = Append(requests, r)
  BY DEF Enqueue
<1>3. Len(requests') >= Len(requests)
  BY <1>2
<1> QED BY <1>1, <1>3

LEMMA IdleIsNoPop ==
  ASSUME requests \in Seq(Requests), requests # <<>>
  PROVE  requests # Tail(requests)
<1> HIDE DEF Requests
<1>1. Len(Tail(requests)) = Len(requests) - 1 /\ Len(requests) \in Nat
  OBVIOUS
<1>2. \A n \in Nat : n - 1 # n
  OBVIOUS
<1>3. Len(Tail(requests)) # Len(requests)
  BY <1>1, <1>2, Zenon
<1>4. requests = Tail(requests) => Len(requests) = Len(Tail(requests))
  BY Zenon
<1> QED BY <1>3, <1>4, Zenon

AnsweredAgain ==
    /\ reply' = reply /\ exists' = exists
    /\ \A d \in Fds : openFds'[d] \in {openFds[d], NoFile}

LEMMA PoppedAgain ==
  ASSUME FtpInv, ReplyIsLast, FtpNext, requests # <<>>, requests' = Tail(requests),
         Head(requests) = served, served.op # "burst", ~SaysNoSessions(reply)
  PROVE  AnsweredAgain
<1>1. /\ requests \in Seq(Requests) /\ requests # Tail(requests)
      /\ openFds \in Descriptors
  BY IdleIsNoPop DEF FtpInv, FtpShape
<1>2. served \in Requests
  BY <1>1
<1>3. /\ served # NoRequest
      /\ reply = Answer(served, reply.err, reply.file)
      /\ served.op = "reset" => reply.err = "none" /\ reply.file = NoFile
      /\ served.op # "reset" => Found(served) # {}
  <2>1. served # NoRequest
    BY <1>2, FtpAssumption DEF Requests, NoRequest
  <2> QED BY <2>1 DEF ReplyIsLast, SaysNoSessions
<1>4. CASE \E c \in Clients, n \in Ids, op \in Asking :
             \E f \in Paths(op), t \in Targets(op) : NewRequest(c, n, op, f, t)
  <2>1. PICK c \in Clients, n \in Ids, op \in Asking :
           \E f \in Paths(op), t \in Targets(op) : NewRequest(c, n, op, f, t)
    BY <1>4
  <2>2. PICK r : Enqueue(r)
    BY <2>1 DEF NewRequest
  <2> QED BY <1>1, <2>2, EnqueueIsNoPop
<1>5. CASE \E c \in Clients : RepeatRequest(c)
  BY <1>1, <1>5, EnqueueIsNoPop DEF RepeatRequest, FtpInv, FtpShape
<1>6. CASE \E r, got : ResetSessions(r, got)
  <2>1. PICK r, got : ResetSessions(r, got)
    BY <1>6
  <2>2. r = served /\ r.op = "reset"
    BY <2>1 DEF ResetSessions, Pop
  <2>3. reply' = reply
    BY <1>3, <2>1, <2>2 DEF ResetSessions
  <2>4. \A d \in Fds : openFds'[d] \in {openFds[d], NoFile}
    BY <2>1 DEF ResetSessions
  <2>5. exists' = exists
    BY <2>1 DEF ResetSessions
  <2> QED BY <2>3, <2>4, <2>5 DEF AnsweredAgain
<1>7. CASE \E r, got : NoSessionsAvailable(r, got)
  BY <1>3, <1>7 DEF NoSessionsAvailable, Pop
<1>8. CASE \E r : \E i \in Slots : Handle(r, i)
  <2>1. PICK r, i : Handle(r, i)
    BY <1>8
  <2>2. r = served /\ r.op # "reset" /\ Found(r) # {}
    BY <1>3, <2>1 DEF Handle, Pop
  <2>3. reply.client = r.client /\ reply.id = r.id /\ reply.seq = r.seq + 1 + 0
    BY <1>3, <2>2 DEF Answer
  <2>4. r.seq \in Int
    BY <1>2, <2>2 DEF Requests, AnyRequests
  <2>5. IsRepeat(r)
    BY <2>3, <2>4 DEF IsRepeat
  <2>6. openFds' = openFds /\ reply' = reply /\ exists' = exists
    BY <2>1, <2>2, <2>5 DEF Handle, Claimed
  <2> QED BY <2>6 DEF AnsweredAgain
<1>9. CASE \/ \E got \in BOOLEAN : PushReply(got)
           \/ KillDead \/ FtpTick
  BY <1>1, <1>9 DEF PushReply, KillDead, FtpTick
<1> QED BY <1>4, <1>5, <1>6, <1>7, <1>8, <1>9 DEF FtpNext, Work

(* A request repeated because its reply was lost is answered with that     *)
(* reply and not executed again (worker(), "if it's a rerequest and we     *)
(* still have the last response").                                         *)
THEOREM RepeatsAreAnswered == FtpSpec => RepeatAnswered
<1>1. FtpInit => ReplyIsLast
  BY DEF FtpInit, ReplyIsLast
<1>2. FtpInv /\ ReplyIsLast /\ [FtpNext]_ftpVars =>
        [(/\ requests # <<>> /\ requests' = Tail(requests)
          /\ Head(requests) = served
          /\ served.op # "burst" /\ ~SaysNoSessions(reply))
         => /\ reply' = reply /\ exists' = exists
            /\ \A d \in Fds : openFds'[d] \in {openFds[d], NoFile}]_ftpVars
  BY PoppedAgain DEF AnsweredAgain
<1> QED BY <1>1, <1>2, FtpInvInit, FtpInvNext, ReplyIsLastNext, PTL DEF FtpSpec, RepeatAnswered
=============================================================================
