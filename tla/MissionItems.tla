---------------------------- MODULE MissionItems ----------------------------
(***************************************************************************)
(* MissionItemProtocol: the upload of mission, fence or rally items from   *)
(* several ground stations, each on a FIFO link that loses messages.  One  *)
(* of the three protocol objects (`kind`); they share nothing.             *)
(*                                                                         *)
(* An item is the upload it belongs to and its sequence number.  Ground    *)
(* stations and links are external; the stores (AP_Mission, AC_PolyFence,  *)
(* AP_Rally) are sequences that do what the protocol uses them for.  Every *)
(* refusal but DENIED is "error".                                          *)
(***************************************************************************)
EXTENDS Integers, Sequences

CONSTANTS Gcs, NoGcs,
          Faults,           \* bound: "none" and what may be wrong with an item
          PartialStarts,    \* bound: where partial uploads start
          Downloaders,      \* bound: the ground stations that also download
          ItemKinds,        \* subset of {"mission", "fence", "rally"}
          MaxItems,         \* max_items()
          UploadTimeout,    \* upload_timeout_ms, in ticks
          RequestTimeout,   \* 1 s, in ticks
          QueueLength,      \* messages a link holds
          MaxUploads,       \* bound: uploads and downloads
          MaxLosses         \* bound

VARIABLES kind,
          stored,         \* the items in the vehicle's store
          upload,         \* the protocol object (`first`, `unheard`: histories)
          requestQueued,  \* next_item_ap_message_id() is pushed
          sinceItem, sinceRequest,   \* timelast_receive_ms, timelast_request_ms
          toFc, toGcs,    \* the links
          station,        \* the ground stations
          uploads, losses,  \* (downloads counted in)
          done,           \* history: the upload accepted last, if the store is still its
          internalError   \* INTERNAL_ERROR()

timers == <<requestQueued, sinceItem, sinceRequest>>
fcVars == <<stored, upload, timers, done, internalError>>
missionVars == <<kind, fcVars, toFc, toGcs, station, uploads, losses>>

NoUpload == [receiving |-> FALSE, dest |-> NoGcs, next |-> 0, first |-> 0,
             last |-> 0, items |-> <<>>, partial |-> FALSE, unheard |-> FALSE]
NotDone == [id |-> 0, first |-> 0, last |-> -1, whole |-> FALSE]
Resting == [up |-> FALSE, id |-> 0, first |-> 0, last |-> -1]
Item(id, seq) == <<id, seq>>
Blank == Item(0, 0)
Msg(type, id, a, b, tag) == [type |-> type, id |-> id, a |-> a, b |-> b, tag |-> tag]

ASSUME MissionAssumption ==
    /\ MaxItems \in Nat \ {0} /\ QueueLength \in Nat \ {0}
    /\ ItemKinds \subseteq {"mission", "fence", "rally"}
    /\ PartialStarts \subseteq Nat
    /\ UploadTimeout \in Nat /\ RequestTimeout \in Nat /\ RequestTimeout < UploadTimeout
    /\ MaxUploads \in Nat
    /\ NoGcs \notin Gcs

MissionInit ==
    /\ kind \in ItemKinds
    /\ stored = <<>> /\ upload = NoUpload /\ requestQueued = FALSE
    /\ sinceItem = 0 /\ sinceRequest = 0
    /\ toFc = [g \in Gcs |-> <<>>] /\ toGcs = [g \in Gcs |-> <<>>]
    /\ station = [g \in Gcs |-> Resting]
    /\ uploads = 0 /\ losses = 0
    /\ done = NotDone /\ internalError = FALSE

----------------------------------------------------------------------------
(* A message to a station is dropped if its link has no space for it       *)
(* (CHECK_PAYLOAD_SIZE2).                                                  *)
Put(queue, m) == IF Len(queue) < QueueLength THEN Append(queue, m) ELSE queue

Send(g, m) == toGcs' = [toGcs EXCEPT ![g] = Put(@, m)]

SendMissionAck(g, result) == Send(g, Msg("ack", 0, 0, 0, result))

Refuse(g) == SendMissionAck(g, "refused") /\ UNCHANGED fcVars

(* item_count(): an upload of a fence counts what it allocated.            *)
Target == IF kind = "fence" /\ upload.receiving THEN upload.items ELSE stored
ItemCount == Len(Target)

(* cancel_upload(): who uploads may start over, anybody else is denied.    *)
MayStartAnyone(g) == TRUE

MayStart(g) == upload.receiving => upload.dest = g

(* init_send_requests(), and what allocate_*_resources() gives a fence.    *)
InitSendRequests(g, first, last, partial, n) ==
    /\ upload' = [receiving |-> TRUE, dest |-> g, next |-> first, first |-> first,
                  last |-> last, partial |-> partial, unheard |-> FALSE,
                  items |-> IF kind = "fence" THEN [i \in 1..n |-> Blank] ELSE <<>>]
    /\ requestQueued' = TRUE /\ sinceItem' = 0 /\ sinceRequest' = 0
    /\ done' = NotDone
    /\ UNCHANGED <<toGcs, internalError>>

(* The upload ends, with or without success: transfer_is_complete(), a     *)
(* refused item, cancel_upload().                                          *)
EndKeepsLink(g, result) ==
    /\ upload' = [upload EXCEPT !.receiving = FALSE]
    /\ SendMissionAck(g, result)
    /\ UNCHANGED timers

End(g, result) ==
    /\ upload' = NoUpload
    /\ SendMissionAck(g, result)
    /\ UNCHANGED timers

(* truncate(): mission and rally cut their store when the count arrives.   *)
TruncatedAlways(n) == IF n >= Len(stored) THEN stored ELSE SubSeq(stored, 1, n)

Truncated(n) ==
    IF kind = "fence" \/ n >= Len(stored) THEN stored ELSE SubSeq(stored, 1, n)

(* complete(): a fence is written as a whole; what a partial update did    *)
(* not bring comes from the old one.                                       *)
Completed(items) ==
    IF kind = "fence" /\ upload.partial
    THEN [i \in DOMAIN items |-> IF items[i] = Blank THEN stored[i] ELSE items[i]]
    ELSE items

----------------------------------------------------------------------------
(* handle_mission_count(): too many items, or no memory for a fence, end   *)
(* the upload it replaces.                                                 *)
MissionCount(g, m) ==
    \/ ~MayStart(g) /\ Refuse(g)
    \/ /\ MayStart(g) /\ (m.a > MaxItems \/ kind = "fence")
       /\ End(g, "refused") /\ UNCHANGED <<stored, done, internalError>>
    \/ /\ MayStart(g) /\ m.a \in 1..MaxItems
       /\ stored' = Truncated(m.a)
       /\ InitSendRequests(g, 0, m.a - 1, FALSE, m.a)
    \/ /\ MayStart(g) /\ m.a = 0
       /\ stored' = <<>>
       /\ done' = [id |-> m.id, first |-> 0, last |-> -1, whole |-> TRUE]
       /\ End(g, "accepted") /\ UNCHANGED internalError

(* handle_mission_clear_all(): a denied one is answered twice; the answers *)
(* are one here.                                                           *)
MissionClearAll(g) ==
    \/ ~MayStart(g) /\ Refuse(g)
    \/ /\ MayStart(g)
       /\ stored' = <<>> /\ done' = NotDone
       /\ End(g, "accepted") /\ UNCHANGED internalError

(* handle_mission_write_partial_list(): nobody may start one during an     *)
(* upload.                                                                 *)
WritePartialList(g, m) ==
    \/ /\ upload.receiving \/ m.a > ItemCount \/ m.b > ItemCount \/ m.b < m.a
          \/ kind = "fence"      \* no memory
       /\ SendMissionAck(g, "refused")
       /\ upload' = [upload EXCEPT !.unheard = @ \/ upload.dest = g]
       /\ UNCHANGED <<stored, timers, done, internalError>>
    \/ /\ ~upload.receiving
       /\ m.a <= m.b /\ m.b <= ItemCount
       /\ InitSendRequests(g, m.a, m.b, TRUE, ItemCount)
       /\ UNCHANGED stored

----------------------------------------------------------------------------
(* The item asked for, from the station that uploads.                      *)
ExpectedFromAnyone(g, m) == m.a = upload.next
ExpectedInAnyOrder(g, m) == m.a <= ItemCount /\ g = upload.dest

Expected(g, m) == m.a = upload.next /\ g = upload.dest

(* What each kind makes of an item with something wrong in it.             *)
WaypointConverts(m) == m.tag \notin {"command", "frame", "value", "jump"}
FenceConverts(m) == m.tag \notin {"command", "frame", "value"}
RallyConverts(m) == m.tag \notin {"command", "frame", "value"}

(* An item is refused if it does not convert, or if there is a gap before  *)
(* it; a fence has no room past what was allocated.                        *)
ItemRefused(m) ==
    \/ kind = "mission" /\ ~WaypointConverts(m)
    \/ kind = "fence" /\ (~FenceConverts(m) \/ m.a = ItemCount)
    \/ kind = "rally" /\ ~RallyConverts(m)
    \/ m.a > ItemCount

(* replace_item(), append_item(), and which of them takes an item.         *)
ReplaceItem(items, m) == [items EXCEPT ![m.a + 1] = Item(m.id, m.a)]
AppendItem(items, m) == Append(items, Item(m.id, m.a))

WithItem(items, m) ==
    IF m.a < Len(items) THEN ReplaceItem(items, m) ELSE AppendItem(items, m)

(* The next request goes out at once if there is space, or is queued.      *)
ItemAndNext(g, m) ==
    /\ upload.next < upload.last
    /\ upload' = [upload EXCEPT !.next = @ + 1,
                    !.items = IF kind = "fence" THEN WithItem(@, m) ELSE @]
    /\ stored' = IF kind = "fence" THEN stored ELSE WithItem(stored, m)
    /\ sinceItem' = 0
    /\ IF Len(toGcs[g]) < QueueLength
       THEN /\ Send(g, Msg("request", 0, upload.next + 1, 0, "none"))
            /\ sinceRequest' = 0 /\ UNCHANGED requestQueued
       ELSE requestQueued' = TRUE /\ UNCHANGED <<toGcs, sinceRequest>>
    /\ UNCHANGED <<done, internalError>>

(* The last item: transfer_is_complete(); write_fence() may fail.          *)
LastItem(g, m) ==
    /\ upload.next >= upload.last
    /\ \/ /\ stored' = Completed(WithItem(Target, m))
          /\ done' = IF upload.unheard THEN NotDone
                     ELSE [id |-> m.id, first |-> upload.first,
                           last |-> upload.last, whole |-> ~upload.partial]
          /\ End(g, "accepted")
       \/ /\ kind = "fence"
          /\ End(g, "refused") /\ UNCHANGED <<stored, done>>
    /\ UNCHANGED internalError

(* replace_item() of a fence that allocated nothing is an internal error.  *)
ItemFails(g) ==
    /\ End(g, "refused")
    /\ internalError' = (internalError \/ (kind = "fence" /\ upload.items = <<>>))
    /\ UNCHANGED <<stored, done>>

(* handle_mission_item(), called only during an upload; the answer to a    *)
(* stray item goes to its sender over the uploader's link, where it is     *)
(* lost.                                                                   *)
MissionItem(g, m) ==
    \/ ~upload.receiving /\ Refuse(g)
    \/ /\ upload.receiving /\ ~Expected(g, m)
       /\ IF g = upload.dest THEN Refuse(g) ELSE UNCHANGED <<toGcs, fcVars>>
    \/ /\ upload.receiving /\ Expected(g, m)
       /\ \/ ItemRefused(m) /\ ItemFails(g)
          \/ ~ItemRefused(m) /\ (ItemAndNext(g, m) \/ LastItem(g, m))

(* get_item(): the items each kind has; home can always be read.           *)
WaypointHeld(n) == n = 0 \/ n < Len(stored)
FenceHeld(n) == n < Len(stored)
RallyHeld(n) == n < Len(stored)

HasItem(n) ==
    \/ kind = "mission" /\ WaypointHeld(n)
    \/ kind = "fence" /\ FenceHeld(n)
    \/ kind = "rally" /\ RallyHeld(n)

Reply == Msg("reply", 0, 0, 0, "none")   \* the count, or an item

(* handle_mission_request_list(): denied during an upload.                 *)
MissionRequestList(g) ==
    /\ \/ upload.receiving /\ SendMissionAck(g, "refused")
       \/ ~upload.receiving /\ Send(g, Reply)
    /\ UNCHANGED fcVars

(* handle_mission_request_int(): as well; who asks for an item past the    *)
(* end is told the count.                                                  *)
MissionRequestInt(g, m) ==
    /\ \/ upload.receiving /\ SendMissionAck(g, "refused")
       \/ ~upload.receiving /\ HasItem(m.a) /\ Send(g, Reply)
       \/ /\ ~upload.receiving /\ ~HasItem(m.a)
          /\ toGcs' = [toGcs EXCEPT ![g] = Put(Put(@, Reply), Msg("ack", 0, 0, 0, "refused"))]
    /\ UNCHANGED fcVars

(* handle_mission_request(): answers whenever it has the item.             *)
MissionRequest(g, m) ==
    /\ \/ HasItem(m.a) /\ Send(g, Reply)
       \/ ~HasItem(m.a) /\ SendMissionAck(g, "refused")
    /\ UNCHANGED fcVars

FcReceives(g) ==
    /\ toFc[g] # <<>>
    /\ toFc' = [toFc EXCEPT ![g] = Tail(@)]
    /\ LET m == Head(toFc[g]) IN
       \/ m.type = "count" /\ MissionCount(g, m)
       \/ m.type = "clear" /\ MissionClearAll(g)
       \/ m.type = "partial" /\ WritePartialList(g, m)
       \/ m.type = "item" /\ MissionItem(g, m)
       \/ m.type = "request_list" /\ MissionRequestList(g)
       \/ m.type = "request_int" /\ MissionRequestInt(g, m)
       \/ m.type = "request" /\ MissionRequest(g, m)
    /\ UNCHANGED <<kind, station, uploads, losses>>

----------------------------------------------------------------------------
(* update(), from the main loop: the upload times out, or the request is   *)
(* repeated.                                                               *)
TimedOut == sinceItem > UploadTimeout

UploadTimesOut ==
    /\ upload.receiving /\ TimedOut
    /\ upload' = NoUpload
    /\ SendMissionAck(upload.dest, "cancelled")
    /\ UNCHANGED <<kind, stored, timers, done, internalError, toFc, station,
                   uploads, losses>>

ResendForever ==
    /\ upload.receiving /\ ~TimedOut /\ sinceRequest > RequestTimeout
    /\ requestQueued' = TRUE /\ sinceRequest' = 0 /\ sinceItem' = 0
    /\ UNCHANGED <<kind, stored, upload, done, internalError, toFc, toGcs, station, uploads, losses>>

Resend ==
    /\ upload.receiving /\ ~TimedOut /\ sinceRequest > RequestTimeout
    /\ requestQueued' = TRUE /\ sinceRequest' = 0
    /\ UNCHANGED <<kind, stored, upload, sinceItem, done, internalError, toFc,
                   toGcs, station, uploads, losses>>

(* queued_request_send(), when the deferred message's turn comes: nothing  *)
(* is sent if the upload is over.                                          *)
QueuedRequestSend ==
    /\ requestQueued
    /\ \/ ~upload.receiving /\ UNCHANGED <<toGcs, sinceRequest>>
       \/ /\ upload.receiving /\ Len(toGcs[upload.dest]) < QueueLength
          /\ Send(upload.dest, Msg("request", 0, upload.next, 0, "none"))
          /\ sinceRequest' = 0
    /\ requestQueued' = FALSE
    /\ UNCHANGED <<kind, stored, upload, sinceItem, done, internalError, toFc,
                   station, uploads, losses>>

(* Time passes; the main loop runs many times in a tick.                   *)
MissionClock ==
    /\ upload.receiving
    /\ ~TimedOut /\ sinceRequest <= RequestTimeout
    /\ sinceItem' = sinceItem + 1 /\ sinceRequest' = sinceRequest + 1
    /\ UNCHANGED <<kind, stored, upload, requestQueued, done, internalError,
                   toFc, toGcs, station, uploads, losses>>

----------------------------------------------------------------------------
(* The ground stations (external).                                         *)
Says(g, m) == Len(toFc[g]) < QueueLength /\ toFc' = [toFc EXCEPT ![g] = Append(@, m)]

StationUploads(g) ==
    /\ ~station[g].up /\ uploads < MaxUploads
    /\ uploads' = uploads + 1
    /\ \/ \E n \in 0..(MaxItems + 1) :
            /\ Says(g, Msg("count", uploads', n, 0, "none"))
            /\ station' = [station EXCEPT ![g] =
                 [up |-> TRUE, id |-> uploads', first |-> 0, last |-> n - 1]]
       \/ \E first \in PartialStarts : \E last \in 0..MaxItems :
            /\ Says(g, Msg("partial", uploads', first, last, "none"))
            /\ station' = [station EXCEPT ![g] =
                 [up |-> TRUE, id |-> uploads', first |-> first, last |-> last]]
       \/ /\ Says(g, Msg("clear", uploads', 0, 0, "none"))
          /\ UNCHANGED station
    /\ UNCHANGED <<kind, fcVars, toGcs, losses>>

StationDownloads(g) ==
    /\ g \in Downloaders /\ ~station[g].up /\ uploads < MaxUploads
    /\ uploads' = uploads + 1
    /\ \E type \in {"request_list", "request_int", "request"} :
          Says(g, Msg(type, 0, 0, 0, "none"))
    /\ UNCHANGED <<kind, fcVars, toGcs, station, losses>>

(* It answers a request of its upload with the item, which may be invalid, *)
(* and takes any acknowledgement for the end of it.                        *)
StationReceives(g) ==
    /\ toGcs[g] # <<>>
    /\ toGcs' = [toGcs EXCEPT ![g] = Tail(@)]
    /\ LET m == Head(toGcs[g]) IN
       IF m.type = "request" /\ station[g].up /\ m.a \in station[g].first..station[g].last
       THEN /\ \E fault \in Faults : Says(g, Msg("item", station[g].id, m.a, 0, fault))
            /\ UNCHANGED station
       ELSE /\ station' = IF m.type = "ack" THEN [station EXCEPT ![g] = Resting] ELSE station
            /\ UNCHANGED toFc
    /\ UNCHANGED <<kind, fcVars, uploads, losses>>

StationGivesUp(g) ==
    /\ station[g].up
    /\ station' = [station EXCEPT ![g] = Resting]
    /\ UNCHANGED <<kind, fcVars, toFc, toGcs, uploads, losses>>

LinkLoses(g) ==
    /\ losses < MaxLosses
    /\ losses' = losses + 1
    /\ \/ /\ toFc[g] # <<>> /\ toFc' = [toFc EXCEPT ![g] = Tail(@)]
          /\ upload' = [upload EXCEPT !.unheard =
               @ \/ (upload.dest = g /\ Head(toFc[g]).type \in {"count", "partial"})]
          /\ UNCHANGED toGcs
       \/ /\ toGcs[g] # <<>> /\ toGcs' = [toGcs EXCEPT ![g] = Tail(@)]
          /\ UNCHANGED <<toFc, upload>>
    /\ UNCHANGED <<kind, stored, timers, done, internalError, station, uploads>>

MissionNext ==
    \/ \E g \in Gcs :
         \/ FcReceives(g)
         \/ StationUploads(g) \/ StationDownloads(g) \/ StationReceives(g)
         \/ StationGivesUp(g) \/ LinkLoses(g)
    \/ UploadTimesOut \/ Resend \/ QueuedRequestSend \/ MissionClock

MissionSpec == MissionInit /\ [][MissionNext]_missionVars

(* The main loop runs update() and time goes on; nothing is assumed of the *)
(* stations and the links.                                                 *)
MissionFairness ==
    WF_missionVars(UploadTimesOut) /\ WF_missionVars(Resend) /\ WF_missionVars(MissionClock)

MissionFairSpec == MissionSpec /\ MissionFairness

----------------------------------------------------------------------------
(* Types, and that an upload has a destination exactly while it receives.  *)
MissionTypeOK ==
    /\ stored \in Seq((0..MaxUploads) \X (0..MaxItems)) /\ Len(stored) <= MaxItems + 1
    /\ upload.receiving <=> upload.dest \in Gcs
    /\ upload.receiving => upload.next <= upload.last
    /\ sinceItem \in 0..(UploadTimeout + 1) /\ sinceRequest \in 0..(RequestTimeout + 1)
    /\ \A g \in Gcs : Len(toFc[g]) <= QueueLength /\ Len(toGcs[g]) <= QueueLength

(* What was acknowledged as accepted is what the station sent: every item  *)
(* of the upload, in its place, and for a whole upload nothing else,       *)
(* whatever was there before and whoever else was sending.  The exception: *)
(* the station had started over and the vehicle had not heard of it (the   *)
(* MISSION_COUNT was lost), so that it kept asking for items of the old    *)
(* upload and took those of the new one for them.                          *)
AcceptedAsSent ==
    /\ \A s \in done.first..done.last :
         s + 1 \in DOMAIN stored /\ stored[s + 1] = Item(done.id, s)
    /\ done.whole => Len(stored) = done.last + 1

(* "the GCS uploading a set of items (e.g. a mission) has a mutex over the *)
(* mission" (MissionItemProtocol.h:22): during an upload only the          *)
(* uploader's messages change what is stored or what is expected next, and *)
(* only the uploader or the clock ends it.                                 *)
HandlesMessageOf(g) ==
    toFc[g] # <<>> /\ toFc' = [toFc EXCEPT ![g] = Tail(@)] /\ losses' = losses

Mutex ==
    [][upload.receiving /\ <<stored', upload'.dest, upload'.next>> #
                           <<stored, upload.dest, upload.next>> =>
         \/ HandlesMessageOf(upload.dest)
         \/ sinceItem > UploadTimeout /\ upload' = NoUpload /\ stored' = stored]_missionVars

(* A fence is replaced as a whole: when an upload starts, while its items  *)
(* arrive, and when it fails half-way or times out, the old fence stays.   *)
FenceAtomic ==
    [][kind = "fence" /\ stored' # stored =>
         /\ upload' = NoUpload
         /\ stored' = <<>> \/ (upload.receiving /\ upload.next = upload.last)]_missionVars

(* An upload ends: whatever is lost and whoever falls silent, the mutex is *)
(* not held for ever.                                                      *)
UploadEnds == upload.receiving ~> ~upload.receiving

(* "In this state downloading of items (and the item count!) is blocked"   *)
(* (MissionItemProtocol.h:19).                                             *)
DownloadBlocked ==
    [][upload.receiving =>
         \A g \in Gcs : toGcs'[g] # Append(toGcs[g], Reply)]_missionVars

(* The sanity check of replace_item(), "_new_items == nullptr" being an    *)
(* INTERNAL_ERROR (MissionItemProtocol_Fence.cpp:147), never fails.        *)
NoInternalError == ~internalError
=============================================================================
