-------------------------------- MODULE Ftp --------------------------------
(***************************************************************************)
(* The file transfer server of GCS_FTP.cpp: a queue of requests filled by  *)
(* the links' receive code, and one worker thread that serves them on a    *)
(* few session slots, with one buffered reply for all of them.             *)
(*                                                                         *)
(* A client is a node (sysid, compid) on one link that works as MAVFTP     *)
(* clients do: it numbers a new request one past the last reply it heard   *)
(* and repeats a request until it hears the reply.  All files are in one   *)
(* directory; their contents, and the length checks on requests, are left  *)
(* out, and a burst goes to the end of the file in one step.               *)
(***************************************************************************)
EXTENDS Integers, Sequences, FiniteSets

CONSTANTS Clients, NoClient,
          Ids,             \* session numbers a client uses
          Files, NoFile,
          Dirs,            \* names of directories
          FiveFiles,       \* those whose size, first byte or checksum's first
                           \* byte reads as the number of NoSessionsAvailable
          MaxSessions,     \* AP_MAVLINK_FTP_MAX_SESSIONS: slots, and queue length
          SessionTimeout,  \* FTP_SESSION_TIMEOUT, 3 s
          KillTimeout,     \* FTP_SESSION_KILL_TIMEOUT, 20 s
          BurstPackets,    \* packets in a file's burst
          Asking,          \* bound: the operations the clients ask for
          MaxRequests      \* bound: new requests

VARIABLES requests,  \* the queue between the links and the worker
          sessions,
          openFds,   \* the file system's descriptors: their file, or NoFile
          exists,    \* the files and directories that exist
          reply,     \* the worker's one reply buffer
          pushing,   \* session in push_reply(), or 0
          asked,     \* per client: its latest request
          heard,     \* per client: has heard the answer to it
          issued,    \* new requests so far
          opened,    \* history: the file each client's session opened
          served     \* history: the last request executed, the latest one handled

ftpVars == <<requests, sessions, openFds, exists, reply, pushing, asked, heard,
             issued, opened, served>>

Slots == 1..MaxSessions
Fds == 1..(MaxSessions + 1)
Free == -1           \* last_send_ms = 0
NoFd == 0            \* fd = -1

Opening == {"openRO", "openWO", "create"}
FtpOps == Opening \cup {"none", "list", "crc", "remove", "mkdir", "rename", "read",
                        "write", "burst", "terminate", "reset", "ack", "truncate"}

\* The paths a request of a kind may name, and the other one of a renaming.
Paths(op) == CASE op \in Opening \cup {"crc", "rename"} -> Files
               [] op = "mkdir" -> Dirs
               [] op = "remove" -> Files \cup Dirs
               [] OTHER -> {NoFile}
Targets(op) == IF op = "rename" THEN Files ELSE {NoFile}

NoRequest == [client |-> NoClient, id |-> 0, seq |-> 0, op |-> "none", file |-> NoFile,
              to |-> NoFile]

ASSUME FtpAssumption ==
    /\ MaxSessions \in Nat \ {0}
    /\ SessionTimeout \in Nat \ {0} /\ KillTimeout \in Nat
    /\ SessionTimeout < KillTimeout /\ BurstPackets \in Nat
    /\ NoClient \notin Clients /\ NoFile \notin Files \cup Dirs
    /\ Files \cap Dirs = {}
    /\ FiveFiles \subseteq Files /\ Asking \subseteq FtpOps

FtpInit ==
    /\ requests = <<>>
    /\ sessions = [i \in Slots |-> [client |-> NoClient, id |-> 0, fd |-> NoFd,
                                    mode |-> "read", age |-> Free]]
    /\ openFds = [d \in Fds |-> NoFile]
    /\ exists \in SUBSET Files
    /\ reply = [client |-> NoClient, id |-> 0, seq |-> 0, op |-> "none",
                err |-> "none", path |-> NoFile, file |-> NoFile]
    /\ pushing = 0
    /\ asked = [c \in Clients |-> NoRequest]
    /\ heard = [c \in Clients |-> TRUE]
    /\ issued = 0
    /\ opened = [c \in Clients |-> [n \in Ids |-> NoFile]]
    /\ served = NoRequest

----------------------------------------------------------------------------
(* handle_request(): what request r does on a session, w.s, with the file   *)
(* system's descriptors as w.fds.  The outcome names both, the files there *)
(* are, and the reply; error() is an outcome that changes nothing.         *)
Outcome(w, files, e, f) ==
    [s |-> w.s, fds |-> w.fds, files |-> files, err |-> e, file |-> f]

FtpError(w, e) == Outcome(w, exists, e, NoFile)

Shut(s) == [s EXCEPT !.fd = NoFd, !.age = Free]

\* Session::close()
Close(w) ==
    [s |-> Shut(w.s),
     fds |-> IF w.s.fd = NoFd THEN w.fds ELSE [w.fds EXCEPT ![w.s.fd] = NoFile]]

\* open(): the first descriptor left, if the file is there and one is left.
Opens(w, files, f, m) ==
    LET left == {d \in Fds : w.fds[d] = NoFile}
        d == CHOOSE x \in left : \A y \in left : x <= y
    IN IF f \notin files THEN FtpError(w, "FileNotFound")
       ELSE IF left = {} THEN FtpError(w, "Fail")
       ELSE Outcome([s |-> [w.s EXCEPT !.fd = d, !.mode = m],
                     fds |-> [w.fds EXCEPT ![d] = f]], files, "none", f)

\* OpenFileRO: a file left open for longer than the timeout is closed first.
ServeOpenRO(w, r) ==
    LET v == IF w.s.fd # NoFd /\ w.s.age > SessionTimeout THEN Close(w) ELSE w IN
    IF v.s.fd # NoFd THEN FtpError(v, "Fail") ELSE Opens(v, exists, r.file, "read")

\* CreateFile creates the file, OpenFileWO needs it; neither closes one.
ServeOpenWO(w, r) ==
    IF w.s.fd # NoFd THEN FtpError(w, "Fail")
    ELSE Opens(w, IF r.op = "create" THEN exists \cup {r.file} ELSE exists, r.file, "write")

\* A transfer is of the file the session has open, in the mode it needs.
Transfer(w, m, e) ==
    IF w.s.fd = NoFd THEN FtpError(w, "FileNotFound")
    ELSE IF w.s.mode # m THEN FtpError(w, "Fail")
    ELSE Outcome(w, exists, e, w.fds[w.s.fd])

ServeRead(w) == Transfer(w, "read", "none")
ServeWrite(w) == Transfer(w, "write", "none")
ServeBurst(w) == Transfer(w, "read", "EndOfFile")

\* What needs its path to be there, and leaves these files.
OnPath(w, r, files) ==
    IF r.file \notin exists THEN FtpError(w, "FileNotFound")
    ELSE Outcome(w, files, "none", NoFile)

ServeRemove(w, r) == OnPath(w, r, exists \ {r.file})
ServeCrc(w, r) == OnPath(w, r, exists)
ServeRename(w, r) == OnPath(w, r, (exists \ {r.file}) \cup {r.to})

ServeMkdir(w, r) ==
    IF r.file \in exists THEN FtpError(w, "FileExists")
    ELSE Outcome(w, exists \cup {r.file}, "none", NoFile)

\* list_dir(): a directory with nothing in it has come to its end.
ServeList(w) == IF exists = {} THEN FtpError(w, "EndOfFile")
                ELSE Outcome(w, exists, "none", NoFile)

ServeTerminate(w) == Outcome(Close(w), exists, "none", NoFile)

Serve(w, r) ==
    CASE r.op = "openRO" -> ServeOpenRO(w, r)
      [] r.op \in {"openWO", "create"} -> ServeOpenWO(w, r)
      [] r.op = "read" -> ServeRead(w)
      [] r.op = "write" -> ServeWrite(w)
      [] r.op = "burst" -> ServeBurst(w)
      [] r.op = "remove" -> ServeRemove(w, r)
      [] r.op = "crc" -> ServeCrc(w, r)
      [] r.op = "rename" -> ServeRename(w, r)
      [] r.op = "mkdir" -> ServeMkdir(w, r)
      [] r.op = "list" -> ServeList(w)
      [] r.op = "terminate" -> ServeTerminate(w)
      [] r.op \in {"none", "ack"} -> Outcome(w, exists, "none", NoFile)
      [] r.op = "truncate" -> FtpError(w, "Fail")   \* not supported

\* setup_reply(), and seq_number++ for each packet of a burst.
Answer(r, e, f) ==
    [client |-> r.client, id |-> r.id, op |-> r.op, err |-> e, path |-> r.file, file |-> f,
     seq |-> r.seq + 1 + IF r.op = "burst" /\ f # NoFile THEN BurstPackets ELSE 0]

----------------------------------------------------------------------------
(* handle_file_transfer_protocol(): a request that finds the queue full is *)
(* dropped.                                                                *)
Enqueue(r) ==
    requests' = IF Len(requests) < MaxSessions THEN Append(requests, r) ELSE requests

NewRequest(c, n, op, f, t) ==
    /\ heard[c] /\ issued < MaxRequests
    /\ LET r == [client |-> c, id |-> n, op |-> op, file |-> f, to |-> t,
                 seq |-> asked[c].seq + 1]
       IN asked' = [asked EXCEPT ![c] = r] /\ Enqueue(r)
    /\ heard' = [heard EXCEPT ![c] = op = "ack"]
    /\ issued' = issued + 1
    /\ UNCHANGED <<sessions, openFds, exists, reply, pushing, opened, served>>

RepeatRequest(c) ==
    /\ ~heard[c]
    /\ Enqueue(asked[c])
    /\ requests' # requests
    /\ UNCHANGED <<sessions, openFds, exists, reply, pushing, asked, heard, issued,
                   opened, served>>

\* The client hears answer a (send_reply() succeeded and the link kept it):
\* it goes on from the number of the last packet.
Hears(a, got) ==
    LET c == a.client
        ok == got /\ c \in Clients /\ a.id = asked[c].id /\ a.op = asked[c].op
              /\ a.seq > asked[c].seq /\ ~heard[c]
    IN /\ heard' = IF ok THEN [heard EXCEPT ![c] = TRUE] ELSE heard
       /\ asked' = IF ok THEN [asked EXCEPT ![c].seq = a.seq] ELSE asked

(* The worker takes the next request.                                      *)
Pop(r) ==
    /\ pushing = 0
    /\ requests # <<>> /\ r = Head(requests)
    /\ requests' = Tail(requests)

ResetSessions(r, got) ==
    /\ Pop(r) /\ r.op = "reset"
    /\ LET mine == {i \in Slots : sessions[i].client = r.client} IN
       /\ sessions' = [i \in Slots |-> IF i \in mine THEN Shut(sessions[i]) ELSE sessions[i]]
       /\ openFds' = [d \in Fds |->
                        IF \E i \in mine : sessions[i].fd = d THEN NoFile ELSE openFds[d]]
    /\ opened' = [opened EXCEPT ![r.client] = [n \in Ids |-> NoFile]]
    /\ reply' = Answer(r, "none", NoFile)
    /\ served' = r
    /\ Hears(reply', got)
    /\ UNCHANGED <<exists, pushing, issued>>

Found(r) == {i \in Slots : sessions[i].client = r.client /\ sessions[i].id = r.id}

\* The slot silent for longest, the first of them; a free one before all.
Oldest ==
    LET silent(i) == IF sessions[i].age = Free THEN KillTimeout + 2 ELSE sessions[i].age
    IN CHOOSE i \in Slots : \A j \in Slots :
         silent(j) < silent(i) \/ (silent(j) = silent(i) /\ i <= j)

InUse(i) == sessions[i].age # Free /\ sessions[i].age < SessionTimeout

NoSessionsAvailable(r, got) ==
    /\ Pop(r) /\ r.op # "reset"
    /\ Found(r) = {} /\ InUse(Oldest)
    /\ reply' = Answer(r, "NoSessionsAvailable", NoFile)
    /\ served' = r
    /\ Hears(reply', got)
    /\ UNCHANGED <<sessions, openFds, exists, pushing, issued, opened>>

\* Slot i as request r finds it: its own, or claimed, whose file is closed.
ClaimedOpen(i, r) ==
    LET w == [s |-> sessions[i], fds |-> openFds] IN
    IF Found(r) # {} THEN w ELSE [w EXCEPT !.s.client = r.client, !.s.id = r.id]

Claimed(i, r) ==
    LET w == [s |-> sessions[i], fds |-> openFds] IN
    IF Found(r) # {} THEN w ELSE [Close(w) EXCEPT !.s.client = r.client, !.s.id = r.id]

\* NoSessionsAvailable's number in the first byte of the reply's data, which
\* is a file's size or content in an Ack.
SaysNoSessions(a) ==
    \/ a.err = "NoSessionsAvailable"
    \/ a.err = "none" /\ a.op \in {"openRO", "read"} /\ a.file \in FiveFiles
    \/ a.err = "none" /\ a.op = "crc" /\ a.path \in FiveFiles

\* (The link is not compared; here a client's node is on one link only.)
IsRepeatOfNext(r) ==
    /\ r.client = reply.client /\ r.id = reply.id
    /\ r.seq = reply.seq
    /\ ~SaysNoSessions(reply)

IsRepeat(r) ==
    /\ r.client = reply.client /\ r.id = reply.id
    /\ r.seq + 1 = reply.seq
    /\ ~SaysNoSessions(reply)

\* The first half of push_reply(): the session has been active just now.
Pushing(i, s) ==
    /\ sessions' = [sessions EXCEPT ![i] = [s EXCEPT !.age = 0]]
    /\ pushing' = i

Handle(r, i) ==
    /\ Pop(r) /\ r.op # "reset"
    /\ IF Found(r) # {} THEN i = CHOOSE j \in Found(r) : \A k \in Found(r) : j <= k
       ELSE i = Oldest /\ ~InUse(i)
    /\ LET w == Claimed(i, r)
           e == Serve(w, r)
       IN IF IsRepeat(r)
          THEN /\ Pushing(i, w.s) /\ openFds' = w.fds
               /\ UNCHANGED <<exists, reply, opened, served>>
          ELSE /\ IF r.op = "ack"   \* eaten: no reply is pushed
                  THEN sessions' = [sessions EXCEPT ![i] = e.s] /\ UNCHANGED pushing
                  ELSE Pushing(i, e.s)
               /\ openFds' = e.fds
               /\ exists' = e.files
               /\ reply' = Answer(r, e.err, e.file)
               /\ opened' = CASE r.op \in Opening /\ e.err = "none" ->
                                   [opened EXCEPT ![r.client][r.id] = r.file]
                              [] r.op = "terminate" ->
                                   [opened EXCEPT ![r.client][r.id] = NoFile]
                              [] OTHER -> opened
               /\ served' = r
    /\ UNCHANGED <<asked, heard, issued>>

\* The session after its reply is out.
FreedByNack(s) == IF reply.err # "none" THEN [s EXCEPT !.age = Free] ELSE s
Sent(s) == IF reply.op = "terminate" THEN [s EXCEPT !.age = Free] ELSE s

(* The rest of push_reply(): the link has room at last.                    *)
PushReply(got) ==
    /\ pushing # 0
    /\ Hears(reply, got)
    /\ sessions' = [sessions EXCEPT ![pushing] = Sent(@)]
    /\ pushing' = 0
    /\ UNCHANGED <<requests, openFds, exists, reply, issued, opened, served>>

(* With nothing to do the worker closes the sessions that died.            *)
KillDead ==
    /\ pushing = 0 /\ requests = <<>>
    /\ LET dead == {i \in Slots : sessions[i].age > KillTimeout} IN
       /\ dead # {}
       /\ sessions' = [i \in Slots |-> IF i \in dead THEN Shut(sessions[i]) ELSE sessions[i]]
       /\ openFds' = [d \in Fds |->
                        IF \E i \in dead : sessions[i].fd = d THEN NoFile ELSE openFds[d]]
    /\ UNCHANGED <<requests, exists, reply, pushing, asked, heard, issued, opened, served>>

FtpTick ==
    /\ \E i \in Slots : sessions[i].age \in 0..KillTimeout
    /\ sessions' = [i \in Slots |->
         IF sessions[i].age \in 0..KillTimeout THEN [sessions[i] EXCEPT !.age = @ + 1]
         ELSE sessions[i]]
    /\ UNCHANGED <<requests, openFds, exists, reply, pushing, asked, heard, issued,
                   opened, served>>

Work ==
    \/ \E r \in {asked[c] : c \in Clients} \cup {requests[k] : k \in 1..Len(requests)} :
         \/ \E got \in BOOLEAN : ResetSessions(r, got) \/ NoSessionsAvailable(r, got)
         \/ \E i \in Slots : Handle(r, i)
    \/ \E got \in BOOLEAN : PushReply(got)

FtpNext ==
    \/ \E c \in Clients, n \in Ids, op \in Asking :
         \E f \in Paths(op), t \in Targets(op) : NewRequest(c, n, op, f, t)
    \/ \E c \in Clients : RepeatRequest(c)
    \/ Work
    \/ KillDead
    \/ FtpTick

FtpSpec == FtpInit /\ [][FtpNext]_ftpVars

(* The worker's thread runs, links get room again, time passes.            *)
FtpFairness ==
    /\ WF_ftpVars(Work) /\ WF_ftpVars(KillDead) /\ WF_ftpVars(FtpTick)

FtpTypeOK ==
    /\ Len(requests) <= MaxSessions
    /\ \A i \in Slots : /\ sessions[i].client \in Clients \cup {NoClient}
                        /\ sessions[i].fd \in Fds \cup {NoFd}
                        /\ sessions[i].age \in Free..(KillTimeout + 1)
                        /\ sessions[i].mode \in {"read", "write"}
    /\ openFds \in [Fds -> Files \cup {NoFile}]
    /\ exists \subseteq Files \cup Dirs
    /\ reply.client \in Clients \cup {NoClient} /\ reply.file \in Files \cup {NoFile}
    /\ pushing \in {0} \cup Slots
    /\ heard \in [Clients -> BOOLEAN]

(* Whatever a client reads or writes is the file that client opened last   *)
(* in that session: slots are claimed, killed and reset between its        *)
(* requests, and descriptors used again, and no reply is about the file of *)
(* another client (worker(), handle_request()).                            *)
OwnFile ==
    reply.file # NoFile => reply.file = opened[reply.client][reply.id]

(* A request repeated because its reply was lost gets that reply again and *)
(* is not executed a second time: no second open that fails because of the *)
(* first, no removed file reported missing (worker(), "if it's a rerequest *)
(* and we still have the last response").  A burst's replies are numbered  *)
(* past the request's, and a reply that reads as NoSessionsAvailable is    *)
(* not kept.  The worker keeps one reply for all clients: only a repeat    *)
(* that comes before any other request gets it; once another client's has  *)
(* been served, the repeat is executed a second time.                      *)
RepeatAnswered ==
    [][(/\ requests # <<>> /\ requests' = Tail(requests)
        /\ Head(requests) = served
        /\ served.op # "burst" /\ ~SaysNoSessions(reply))
       => /\ reply' = reply /\ exists' = exists
          /\ \A d \in Fds : openFds'[d] \in {openFds[d], NoFile}]_ftpVars

(* Once the links are silent every file the clients left open is closed:   *)
(* no descriptor is lost when a slot is claimed, freed or killed.          *)
FilesEndClosed ==
    <>[](requests = <<>>) => <>[](\A d \in Fds : openFds[d] = NoFile)
=============================================================================
